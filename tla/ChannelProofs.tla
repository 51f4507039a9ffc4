--------------------------- MODULE ChannelProofs ---------------------------
(***************************************************************************)
(* Proofs about the lecture programs that hand data to each other: the     *)
(* servers of 9_aio, for any number of clients, and the channels of        *)
(* 2_parallel_sort.c and 3_mem_sort.c, for any number of workers and sizes *)
(***************************************************************************)
EXTENDS MCLectures, SequencesExt, TLAPS, FiniteSetTheorems, SequenceTheorems

USE DEF vars, coroVars, threadVars, condVars, lockVars, sortVars, echoVars, orderVars,
        eventVars, shortVars

-----------------------------------------------------------------------------
(***************************************************************************)
(* Sequences                                                               *)
(***************************************************************************)

\* RemoveAt moves what is behind one place to the front.
LEMMA RemoveAtElements ==
  ASSUME NEW S, NEW l \in Seq(S), NEW k \in 1..Len(l)
  PROVE  /\ RemoveAt(l, k) \in Seq(S) /\ Len(RemoveAt(l, k)) = Len(l) - 1
         /\ \A j \in 1..(Len(l) - 1) :
              RemoveAt(l, k)[j] = IF j < k THEN l[j] ELSE l[j + 1]
  <1> DEFINE n == Len(l)
             p == SubSeq(l, 1, k - 1)
             q == SubSeq(l, k + 1, n)
  <1>0. n \in Nat /\ DOMAIN l = 1..n /\ k \in Int /\ 1 <= k /\ k <= n
    OBVIOUS
  <1>1. /\ p \in Seq(S) /\ Len(p) = k - 1 /\ \A j \in 1..(k - 1) : p[j] = l[j]
    <2>1. \A j \in 1..(k - 1) : l[j] \in S
      BY <1>0, ElementOfSeq
    <2>2. /\ SubSeq(l, 1, k - 1) \in Seq(S)
          /\ Len(SubSeq(l, 1, k - 1)) = IF 1 <= k - 1 THEN (k - 1) - 1 + 1 ELSE 0
          /\ \A j \in 1..((k - 1) - 1 + 1) : SubSeq(l, 1, k - 1)[j] = l[1 + j - 1]
      BY <1>0, <2>1, SubSeqProperties
    <2> QED BY <1>0, <2>2
  <1>2. /\ q \in Seq(S) /\ Len(q) = n - k /\ \A j \in 1..(n - k) : q[j] = l[k + j]
    <2>1. \A j \in (k + 1)..n : l[j] \in S
      BY <1>0, ElementOfSeq
    <2>2. k + 1 \in Int /\ n \in Int
      BY <1>0
    <2> HIDE DEF n
    <2>3. /\ SubSeq(l, k + 1, n) \in Seq(S)
          /\ Len(SubSeq(l, k + 1, n)) = IF k + 1 <= n THEN n - (k + 1) + 1 ELSE 0
          /\ \A j \in 1..(n - (k + 1) + 1) : SubSeq(l, k + 1, n)[j] = l[(k + 1) + j - 1]
      BY <2>1, <2>2, SubSeqProperties
    <2> QED BY <1>0, <2>3
  <1>3. RemoveAt(l, k) = p \o q
    BY DEF RemoveAt
  <1> HIDE DEF n, p, q
  <1>4. /\ p \o q \in Seq(S) /\ Len(p \o q) = Len(p) + Len(q)
        /\ \A j \in 1..(Len(p) + Len(q)) :
             (p \o q)[j] = IF j <= Len(p) THEN p[j] ELSE q[j - Len(p)]
    BY <1>1, <1>2, ConcatProperties
  <1> QED BY <1>0, <1>1, <1>2, <1>3, <1>4 DEF n

\* Equal beginnings leave equal ends.
LEMMA ConcatCancel ==
  ASSUME NEW S, NEW a \in Seq(S), NEW b \in Seq(S), NEW c \in Seq(S), NEW d \in Seq(S),
         a \o b = c \o d, Len(a) = Len(c)
  PROVE  a = c /\ b = d
  <1>1. /\ Len(a) \in Nat
        /\ \A k \in 1..(Len(a) + Len(b)) :
             (a \o b)[k] = IF k <= Len(a) THEN a[k] ELSE b[k - Len(a)]
    BY ConcatProperties, LenProperties
  <1>2. \A k \in 1..(Len(c) + Len(d)) :
             (c \o d)[k] = IF k <= Len(c) THEN c[k] ELSE d[k - Len(c)]
    BY ConcatProperties
  <1>3. Len(b) \in Nat /\ Len(d) \in Nat
    BY LenProperties
  <1>4. \A k \in 1..Len(a) : a[k] = c[k]
    BY <1>1, <1>2, <1>3
  <1>5. a = c
    BY <1>4, SeqEqual
  <1>6. Len(b) = Len(d)
    <2>1. Len(a \o b) = Len(a) + Len(b) /\ Len(c \o d) = Len(c) + Len(d)
      BY ConcatProperties
    <2> QED BY <1>1, <1>3, <2>1
  <1>7. ASSUME NEW k \in 1..Len(b) PROVE b[k] = d[k]
    <2> DEFINE m == Len(a) + k
    <2>1. m \in 1..(Len(a) + Len(b)) /\ ~ (m <= Len(a)) /\ m - Len(a) = k
      BY <1>1, <1>3
    <2> HIDE DEF m
    <2>2. (a \o b)[m] = b[k]
      BY <1>1, <2>1
    <2>3. (c \o d)[m] = d[k]
      BY <1>2, <1>6, <2>1
    <2> QED BY <2>2, <2>3
  <1> QED BY <1>5, <1>6, <1>7, SeqEqual

LEMMA Least ==
  ASSUME NEW m \in Nat, NEW n \in Nat
  PROVE  Sort!Min({m, n}) = IF m <= n THEN m ELSE n
  BY DEF Sort!Min

\* What is copied and what is left are the whole.
LEMMA SplitBytes ==
  ASSUME NEW S, NEW s \in Seq(S), NEW n \in Nat
  PROVE  /\ Sort!FirstBytes(s, n) \in Seq(S) /\ Sort!Without(s, n) \in Seq(S)
         /\ Sort!FirstBytes(s, n) \o Sort!Without(s, n) = s
         /\ Len(Sort!FirstBytes(s, n)) <= n
         /\ Len(s) <= n => Sort!FirstBytes(s, n) = s
  <1>1. PICK m \in 0..Len(s) : m = Sort!Min({n, Len(s)}) /\ m <= n /\ (Len(s) <= n => m = Len(s))
    BY Least, LenProperties
  <1>2. Sort!FirstBytes(s, n) = SubSeq(s, 1, m) /\ Sort!Without(s, n) = SubSeq(s, m + 1, Len(s))
    BY <1>1 DEF Sort!FirstBytes, Sort!Without
  <1>3. \A k \in 1..Len(s) : s[k] \in S
    BY ElementOfSeq
  <1>4. Len(s) \in Nat
    BY LenProperties
  <1>5. /\ SubSeq(s, 1, m) \in Seq(S)
        /\ Len(SubSeq(s, 1, m)) = IF 1 <= m THEN m - 1 + 1 ELSE 0
        /\ \A k \in 1..(m - 1 + 1) : SubSeq(s, 1, m)[k] = s[1 + k - 1]
    <2>1. \A k \in 1..m : s[k] \in S
      BY <1>3, <1>4
    <2> QED BY <2>1, SubSeqProperties
  <1>6. SubSeq(s, m + 1, Len(s)) \in Seq(S)
    <2>1. \A k \in (m + 1)..Len(s) : s[k] \in S
      BY <1>3, <1>4
    <2>2. m + 1 \in Int
      OBVIOUS
    <2> DEFINE l == Len(s)
    <2>3. l \in Int
      BY <1>4
    <2> HIDE DEF l
    <2>4. SubSeq(s, m + 1, l) \in Seq(S)
      BY <2>1, <2>2, <2>3, SubSeqProperties DEF l
    <2> QED BY <2>4 DEF l
  <1>7. SubSeq(s, 1, m) \o SubSeq(s, m + 1, Len(s)) = SubSeq(s, 1, Len(s))
    <2> DEFINE l == Len(s)
    <2>1. 1 \in 1..(l + 1) /\ m \in (1 - 1)..l /\ l \in m..l
      BY <1>4
    <2> HIDE DEF l
    <2>2. l = Len(s) => SubSeq(s, 1, m) \o SubSeq(s, m + 1, l) = SubSeq(s, 1, l)
      BY <2>1, ConcatAdjacentSubSeq DEF l
    <2> QED BY <2>2 DEF l
  <1>8. SubSeq(s, 1, Len(s)) = s
    <2>1. /\ SubSeq(s, 1, Len(s)) \in Seq(S)
          /\ Len(SubSeq(s, 1, Len(s))) = IF 1 <= Len(s) THEN Len(s) - 1 + 1 ELSE 0
          /\ \A k \in 1..(Len(s) - 1 + 1) : SubSeq(s, 1, Len(s))[k] = s[1 + k - 1]
      BY <1>3, <1>4, SubSeqProperties
    <2>2. Len(SubSeq(s, 1, Len(s))) = Len(s) /\ \A k \in 1..Len(s) : SubSeq(s, 1, Len(s))[k] = s[k]
      BY <1>4, <2>1
    <2> QED BY <2>1, <2>2, SeqEqual
  <1>9. Len(SubSeq(s, 1, m)) <= n
    BY <1>1, <1>5
  <1>10. Len(s) <= n => SubSeq(s, 1, m) = s
    BY <1>1, <1>8
  <1> QED BY <1>2, <1>5, <1>6, <1>7, <1>8, <1>9, <1>10

-----------------------------------------------------------------------------
(***************************************************************************)
(* 9_aio: the servers                                                      *)
(***************************************************************************)

EchoTypes ==
  /\ conn \in [Clients -> {"none", "backlog", "open", "closed", "gone"}]
  /\ request \in [Clients -> Nat] /\ answer \in [Clients -> Nat]
  /\ sent \in [Clients -> Nat]
  /\ client \in [Clients -> {"idle", "recv"}]
  /\ fds \in Seq(Clients \cup {Server})
  /\ i \in Nat \ {0}
  /\ serving \in {"wait", "accept", "loop"}

\* A number and its answer belong to the one the client waits for.
NumbersFit ==
  \A c \in Clients :
    /\ request[c] # 0 => request[c] = sent[c] /\ client[c] = "recv" /\ answer[c] = 0
    /\ answer[c] # 0 => answer[c] = sent[c] + 1 /\ client[c] = "recv" /\ request[c] = 0

\* Each socket of a client is in the server's list once, from the accept on.
SocketsOnce ==
  /\ \A k, m \in 1..Len(fds) : fds[k] = fds[m] => k = m
  /\ \A k \in 1..Len(fds) : fds[k] # Server => conn[fds[k]] \in {"open", "closed"}
  /\ api = "poll" => Len(fds) > 0 /\ fds[1] = Server

\* In poll's array the listening socket is the first, and ends the round when it
\* can be read: what realloc left in a new entry is never looked at.
RoundLost == api = "poll" /\ Server \in ready

\* What is left of the result of the wait is still true.
ReadyTrue ==
  /\ serving = "accept" =>
       Server \in ready /\ \A s \in ready : s = Server \/ \E k \in 1..Len(fds) : fds[k] = s
  /\ serving \in {"accept", "loop"} /\ RoundLost => i = 1
  /\ serving \in {"accept", "loop"} /\ ~ RoundLost =>
       \A k \in 1..Len(fds) :
         (Echo!Array => i <= k) /\ fds[k] \in ready /\ fds[k] # Server
           => request[fds[k]] # 0 \/ conn[fds[k]] = "closed"

EchoInv == EchoTypes /\ NumbersFit /\ SocketsOnce /\ ReadyTrue

LEMMA InitEcho == Init => EchoInv
  <1> SUFFICES ASSUME Init PROVE EchoInv
    OBVIOUS
  <1> USE DEF Init, Echo!Init
  <1>1. fds \in Seq(Clients \cup {Server}) /\ Len(fds) \in {0, 1} /\ (Len(fds) = 1 => fds[1] = Server)
        /\ (api = "poll" => Len(fds) = 1)
    <2>1. CASE api = "select"
      <3>1. fds = <<>>
        BY <2>1
      <3> QED BY <2>1, <3>1
    <2>2. CASE api # "select"
      <3>1. fds = <<Server>>
        BY <2>2
      <3>2. <<Server>> \in Seq(Clients \cup {Server}) /\ Len(<<Server>>) = 1
            /\ <<Server>>[1] = Server
        OBVIOUS
      <3> HIDE DEF Init, Echo!Init
      <3> QED BY <3>1, <3>2
    <2> QED BY <2>1, <2>2
  <1>2. EchoTypes
    BY <1>1 DEF EchoTypes
  <1>3. NumbersFit
    BY DEF NumbersFit
  <1>4. SocketsOnce
    BY <1>1 DEF SocketsOnce
  <1>5. ReadyTrue
    BY DEF ReadyTrue
  <1> QED BY <1>2, <1>3, <1>4, <1>5 DEF EchoInv

\* What a client does makes no socket unreadable.
LEMMA ClientStep ==
  ASSUME EchoInv, NEW c \in Clients,
         Echo!Connect(c) \/ Echo!Send(c) \/ Echo!Receive(c) \/ Echo!Close(c)
  PROVE  EchoInv'
  <1> USE DEF Echo!Connect, Echo!Send, Echo!Receive, Echo!Close, Echo!serverVars, EchoInv
  <1>0. Server \notin Clients
    BY ProgramsAssumption
  <1>1. EchoTypes'
    <2>1. CASE Echo!Connect(c)
      BY <2>1 DEF EchoTypes
    <2>2. CASE Echo!Send(c)
      BY <2>2 DEF EchoTypes
    <2>3. CASE Echo!Receive(c)
      BY <2>3 DEF EchoTypes
    <2>4. CASE Echo!Close(c)
      BY <2>4 DEF EchoTypes
    <2> QED BY <2>1, <2>2, <2>3, <2>4
  <1>2. NumbersFit'
    BY DEF EchoTypes, NumbersFit
  <1>3. UNCHANGED <<api, fds, ready, i, serving>>
    OBVIOUS
  <1>4. \A k \in 1..Len(fds) : fds[k] \in Clients \cup {Server}
    BY ElementOfSeq DEF EchoTypes
  <1>5. SocketsOnce'
    BY <1>3, <1>4 DEF EchoTypes, SocketsOnce
  <1>6. \A d \in Clients : request[d] # 0 \/ conn[d] = "closed"
          => request'[d] # 0 \/ conn'[d] = "closed"
    BY DEF EchoTypes
  <1>7. ReadyTrue'
    BY <1>3, <1>4, <1>6 DEF ReadyTrue, RoundLost, Echo!Array
  <1> QED BY <1>1, <1>2, <1>5, <1>7

\* select and poll report everything that can be read, epoll and kqueue one of them.
LEMMA WaitStep ==
  ASSUME EchoInv, Echo!WaitReady
  PROVE  EchoInv'
  <1> USE DEF Echo!WaitReady, Echo!clientVars, EchoInv
  <1>1. EchoTypes' /\ NumbersFit' /\ SocketsOnce'
    BY DEF EchoTypes, NumbersFit, SocketsOnce
  <1>2. ready' \subseteq Echo!Interesting
    OBVIOUS
  <1>3. \A s \in ready' : s = Server \/ \E k \in 1..Len(fds) : fds[k] = s
    BY <1>2, LenProperties DEF Echo!Interesting, Echo!Watched, Echo!ToSet, EchoTypes
  <1>4. \A s \in ready' : s # Server => request[s] # 0 \/ conn[s] = "closed"
    BY <1>2 DEF Echo!Interesting, Echo!Readable
  <1>5. ReadyTrue'
    BY <1>3, <1>4 DEF ReadyTrue, RoundLost, Echo!Array
  <1> QED BY <1>1, <1>5

LEMMA AcceptStep ==
  ASSUME EchoInv, Echo!Accept
  PROVE  EchoInv'
  <1> USE DEF EchoInv
  <1>0. Server \notin Clients
    BY ProgramsAssumption
  <1>1. PICK c \in Clients :
          /\ conn[c] = "backlog" /\ conn' = [conn EXCEPT ![c] = "open"]
          /\ fds' = Append(fds, c)
          /\ ready' \in IF api = "poll" THEN {ready, ready \cup {c}} ELSE {ready}
    BY DEF Echo!Accept
  <1>2. /\ serving = "accept" /\ serving' = IF Echo!Array THEN "loop" ELSE "wait"
        /\ UNCHANGED <<api, request, answer, sent, client, i>>
    BY DEF Echo!Accept
  <1>3. /\ fds' \in Seq(Clients \cup {Server}) /\ Len(fds') = Len(fds) + 1
        /\ \A k \in 1..Len(fds) : fds'[k] = fds[k]
        /\ fds'[Len(fds) + 1] = c
        /\ Len(fds) \in Nat
    BY <1>1, AppendProperties, LenProperties DEF EchoTypes
  <1>4. \A k \in 1..Len(fds) : fds[k] \in Clients \cup {Server} /\ fds[k] # c
    BY <1>0, <1>1, ElementOfSeq DEF EchoTypes, SocketsOnce
  <1>5. \A k \in 1..Len(fds') : k \in 1..Len(fds) \/ k = Len(fds) + 1
    BY <1>3
  <1>6. EchoTypes'
    BY <1>1, <1>2, <1>3 DEF EchoTypes
  <1>7. NumbersFit'
    BY <1>2 DEF NumbersFit
  <1>8. SocketsOnce'
    <2>1. \A k, m \in 1..Len(fds') : fds'[k] = fds'[m] => k = m
      BY <1>3, <1>4, <1>5 DEF SocketsOnce
    <2>2. \A k \in 1..Len(fds') : fds'[k] # Server => conn'[fds'[k]] \in {"open", "closed"}
      BY <1>1, <1>3, <1>4, <1>5 DEF SocketsOnce, EchoTypes
    <2>3. api' = "poll" => Len(fds') > 0 /\ fds'[1] = Server
      BY <1>2, <1>3 DEF SocketsOnce
    <2> QED BY <2>1, <2>2, <2>3 DEF SocketsOnce
  <1>9. ReadyTrue'
    <2>1. serving' # "accept"
      BY <1>2
    <2>2. RoundLost <=> RoundLost'
      BY <1>0, <1>1, <1>2 DEF RoundLost
    <2>3. ASSUME serving' = "loop", ~ RoundLost', NEW k \in 1..Len(fds'),
                 Echo!Array => i <= k, fds'[k] \in ready', fds'[k] # Server
          PROVE  request'[fds'[k]] # 0 \/ conn'[fds'[k]] = "closed"
      <3>1. Server \in ready /\ \A s \in ready : s = Server \/ \E m \in 1..Len(fds) : fds[m] = s
        BY <1>2 DEF ReadyTrue
      <3>2. api # "poll" /\ ready' = ready
        BY <1>1, <2>2, <2>3, <3>1 DEF RoundLost
      <3>3. k \in 1..Len(fds) /\ fds'[k] = fds[k]
        BY <1>0, <1>1, <1>3, <1>4, <1>5, <2>3, <3>1, <3>2
      <3>4. request[fds[k]] # 0 \/ conn[fds[k]] = "closed"
        BY <1>2, <2>2, <2>3, <3>2, <3>3 DEF ReadyTrue
      <3> QED BY <1>1, <1>2, <1>4, <3>3, <3>4 DEF EchoTypes
    <2> QED BY <1>2, <2>1, <2>2, <2>3 DEF ReadyTrue, Echo!Array
  <1> QED BY <1>6, <1>7, <1>8, <1>9

\* The steps that leave every socket as it is.
LEMMA LoopStep ==
  ASSUME EchoInv, Echo!Skip \/ Echo!InteractServer \/ Echo!LeaveLoop
  PROVE  EchoInv'
  <1> USE DEF EchoInv, Echo!clientVars
  <1>1. UNCHANGED <<api, conn, request, answer, sent, client, fds, ready>>
    BY DEF Echo!Skip, Echo!InteractServer, Echo!LeaveLoop
  <1>2. serving = "loop" /\ (serving' = "wait" \/ (serving' = "loop" /\ Echo!Skip))
    BY DEF Echo!Skip, Echo!InteractServer, Echo!LeaveLoop, Echo!LoopTo
  <1>3. Echo!Skip => i' = i + 1 /\ i <= Len(fds) /\ fds[i] \notin ready /\ Echo!Array
    BY DEF Echo!Skip, Echo!LoopTo
  <1>4. ~ Echo!Skip => UNCHANGED i
    BY DEF Echo!InteractServer, Echo!LeaveLoop
  <1>5. EchoTypes'
    BY <1>1, <1>2, <1>3, <1>4 DEF EchoTypes
  <1>6. NumbersFit' /\ SocketsOnce'
    BY <1>1 DEF NumbersFit, SocketsOnce
  <1>7. ReadyTrue'
    <2>1. CASE serving' = "wait"
      BY <2>1 DEF ReadyTrue
    <2>2. CASE serving' = "loop" /\ Echo!Skip
      <3>1. ~ RoundLost
        BY <1>2, <1>3, <2>2 DEF ReadyTrue, RoundLost, SocketsOnce
      <3>2. \A k : i + 1 <= k => i <= k \/ k \notin Int
        BY DEF EchoTypes
      <3> QED BY <1>1, <1>2, <1>3, <2>2, <3>1, <3>2 DEF ReadyTrue, RoundLost, Echo!Array
    <2> QED BY <1>2, <2>1, <2>2
  <1> QED BY <1>5, <1>6, <1>7

\* The server turns to an entry of its list that the wait has reported.
LEMMA ChosenEntry ==
  ASSUME EchoTypes, NEW k \in Echo!Chosen
  PROVE  /\ k \in 1..Len(fds) /\ fds[k] \in ready /\ Len(fds) \in Nat
         /\ Echo!Array => k = i
  <1>1. DOMAIN fds = 1..Len(fds) /\ Len(fds) \in Nat
    BY LenProperties DEF EchoTypes
  <1>2. CASE Echo!Array
    <2>1. k = i /\ k <= Len(fds) /\ fds[k] \in ready
      BY <1>2 DEF Echo!Chosen
    <2> QED BY <1>1, <2>1 DEF EchoTypes
  <1>3. CASE ~ Echo!Array
    BY <1>1, <1>3 DEF Echo!Chosen
  <1> QED BY <1>2, <1>3

\* A socket is answered, or closed and removed; the others keep what they hold.
LEMMA InteractStep ==
  ASSUME EchoInv, Echo!Interact
  PROVE  EchoInv'
  <1> USE DEF EchoInv
  <1>1. PICK k \in Echo!Chosen :
          /\ fds[k] # Server
          /\ \/ Echo!Answer(fds[k]) /\ UNCHANGED <<conn, fds>>
             \/ /\ request[fds[k]] = 0 /\ conn[fds[k]] = "closed"
                /\ conn' = [conn EXCEPT ![fds[k]] = IF Echo!Array THEN @ ELSE "gone"]
                /\ fds' = Echo!remove_client(k)
                /\ UNCHANGED <<request, answer>>
    BY DEF Echo!Interact
  <1>2. /\ UNCHANGED <<api, sent, client, ready>>
        /\ serving = "loop" /\ i' = i + 1
        /\ serving' = "wait" \/ (serving' = "loop" /\ Echo!Array)
    BY DEF Echo!Interact, Echo!LoopTo
  <1>3. k \in 1..Len(fds) /\ fds[k] \in ready /\ (Echo!Array => k = i) /\ Len(fds) \in Nat
    BY ChosenEntry
  <1>4. \A m \in 1..Len(fds) : fds[m] \in Clients \cup {Server}
    BY ElementOfSeq DEF EchoTypes
  <1> DEFINE c == fds[k]
  <1>5. c \in Clients
    BY <1>1, <1>3, <1>4
  <1>6. ~ RoundLost \/ ~ Echo!Array
    BY <1>1, <1>2, <1>3 DEF ReadyTrue, RoundLost, SocketsOnce
  <1>7. CASE Echo!Answer(c) /\ UNCHANGED <<conn, fds>>
    <2> USE <1>7
    <2>1. /\ request[c] # 0 /\ answer' = [answer EXCEPT ![c] = request[c] + 1]
          /\ request' = [request EXCEPT ![c] = 0]
      BY DEF Echo!Answer
    <2> HIDE DEF c
    <2>2. EchoTypes'
      BY <1>2, <1>5, <2>1 DEF EchoTypes
    <2>3. NumbersFit'
      BY <1>2, <1>5, <2>1 DEF EchoTypes, NumbersFit
    <2>4. SocketsOnce'
      BY <1>2 DEF SocketsOnce
    <2>5. ReadyTrue'
      <3>1. CASE serving' = "wait"
        BY <3>1 DEF ReadyTrue
      <3>2. CASE serving' = "loop" /\ Echo!Array
        <4>1. ASSUME NEW m \in 1..Len(fds), i + 1 <= m, fds[m] \in ready, fds[m] # Server
              PROVE  request'[fds[m]] # 0 \/ conn[fds[m]] = "closed"
          <5>1. i <= m /\ m # k
            BY <1>3, <3>2, <4>1 DEF EchoTypes
          <5>2. fds[m] # c /\ fds[m] \in Clients
            BY <1>3, <1>4, <4>1, <5>1 DEF SocketsOnce, c
          <5>3. request[fds[m]] # 0 \/ conn[fds[m]] = "closed"
            BY <1>2, <1>6, <3>2, <4>1, <5>1 DEF ReadyTrue
          <5> QED BY <2>1, <5>2, <5>3 DEF EchoTypes
        <4> QED BY <1>2, <1>6, <3>2, <4>1 DEF ReadyTrue, RoundLost, Echo!Array
      <3> QED BY <1>2, <3>1, <3>2
    <2> QED BY <2>2, <2>3, <2>4, <2>5
  <1>8. CASE /\ request[c] = 0 /\ conn[c] = "closed"
             /\ conn' = [conn EXCEPT ![c] = IF Echo!Array THEN @ ELSE "gone"]
             /\ fds' = Echo!remove_client(k)
             /\ UNCHANGED <<request, answer>>
    <2>1. fds' = RemoveAt(fds, k)
      BY <1>8 DEF Echo!remove_client, Echo!RemoveAt, RemoveAt
    <2>2. /\ fds' \in Seq(Clients \cup {Server}) /\ Len(fds') = Len(fds) - 1
          /\ \A m \in 1..(Len(fds) - 1) : fds'[m] = IF m < k THEN fds[m] ELSE fds[m + 1]
      BY <1>3, <2>1, RemoveAtElements DEF EchoTypes
    \* Each entry that is left is an old one, of another socket.
    <2>3. ASSUME NEW m \in 1..Len(fds')
          PROVE  \E o \in 1..Len(fds) : /\ fds'[m] = fds[o] /\ fds[o] # c /\ m <= o
                                        /\ o = IF m < k THEN m ELSE m + 1
      <3> DEFINE o == IF m < k THEN m ELSE m + 1
      <3>1. o \in 1..Len(fds) /\ o # k /\ m <= o /\ fds'[m] = fds[o]
        BY <1>3, <2>2
      <3>2. fds[o] # c
        BY <1>3, <3>1 DEF SocketsOnce
      <3> QED BY <3>1, <3>2
    <2>4. \A d \in Clients : d # c => conn'[d] = conn[d]
      BY <1>8 DEF EchoTypes
    <2>5. conn' \in [Clients -> {"none", "backlog", "open", "closed", "gone"}]
      BY <1>5, <1>8 DEF EchoTypes
    <2> HIDE DEF c
    <2>6. EchoTypes'
      BY <1>2, <1>8, <2>2, <2>5 DEF EchoTypes
    <2>7. NumbersFit'
      BY <1>2, <1>8 DEF NumbersFit
    <2>8. SocketsOnce'
      <3>1. ASSUME NEW m \in 1..Len(fds'), NEW n \in 1..Len(fds'), fds'[m] = fds'[n]
            PROVE  m = n
        <4>1. PICK o \in 1..Len(fds) : fds'[m] = fds[o] /\ o = IF m < k THEN m ELSE m + 1
          BY <2>3
        <4>2. PICK p \in 1..Len(fds) : fds'[n] = fds[p] /\ p = IF n < k THEN n ELSE n + 1
          BY <2>3
        <4>3. o = p
          BY <3>1, <4>1, <4>2 DEF SocketsOnce
        <4> QED BY <1>3, <4>1, <4>2, <4>3
      <3>2. ASSUME NEW m \in 1..Len(fds'), fds'[m] # Server
            PROVE  conn'[fds'[m]] \in {"open", "closed"}
        <4>1. PICK o \in 1..Len(fds) : fds'[m] = fds[o] /\ fds[o] # c
          BY <2>3
        <4> QED BY <1>4, <2>4, <3>2, <4>1 DEF SocketsOnce
      <3>3. api' = "poll" => Len(fds') > 0 /\ fds'[1] = Server
        BY <1>1, <1>2, <1>3, <2>2 DEF SocketsOnce
      <3> QED BY <3>1, <3>2, <3>3 DEF SocketsOnce
    <2>9. ReadyTrue'
      <3>1. CASE serving' = "wait"
        BY <3>1 DEF ReadyTrue
      <3>2. CASE serving' = "loop" /\ Echo!Array
        <4>1. ASSUME NEW m \in 1..Len(fds'), i + 1 <= m, fds'[m] \in ready, fds'[m] # Server
              PROVE  request'[fds'[m]] # 0 \/ conn'[fds'[m]] = "closed"
          <5>1. PICK o \in 1..Len(fds) : fds'[m] = fds[o] /\ fds[o] # c /\ m <= o
            BY <2>3
          <5>2. i <= o
            BY <4>1, <5>1 DEF EchoTypes
          <5>3. request[fds[o]] # 0 \/ conn[fds[o]] = "closed"
            BY <1>2, <1>6, <3>2, <4>1, <5>1, <5>2 DEF ReadyTrue
          <5>4. fds[o] \in Clients
            BY <1>4, <4>1, <5>1
          <5> QED BY <1>8, <2>4, <5>1, <5>3, <5>4
        <4> QED BY <1>2, <1>6, <3>2, <4>1 DEF ReadyTrue, RoundLost, Echo!Array
      <3> QED BY <1>2, <3>1, <3>2
    <2> QED BY <2>6, <2>7, <2>8, <2>9
  <1> QED BY <1>1, <1>7, <1>8

LEMMA EchoOnly == [Next]_vars => Echo!Next \/ UNCHANGED echoVars
  BY DEF Next, InCoro, InSort, InEcho, InLock, NextThread, NextCond, NextOrder, NextEvent

LEMMA NextEcho == EchoInv /\ [Next]_vars => EchoInv'
  <1> SUFFICES ASSUME EchoInv, [Next]_vars PROVE EchoInv'
    OBVIOUS
  <1>1. CASE UNCHANGED echoVars
    BY <1>1 DEF EchoInv, EchoTypes, NumbersFit, SocketsOnce, ReadyTrue, RoundLost, Echo!Array
  <1>2. CASE Echo!Next
    BY <1>2, ClientStep, WaitStep, AcceptStep, LoopStep, InteractStep
       DEF Echo!Next, Echo!ServerStep
  <1> QED BY <1>1, <1>2, EchoOnly

\* However many clients connect, send and leave while the server goes through the
\* result of an older wait: it never receives from a socket that has nothing to
\* say, and each client gets the answer to its own number.
THEOREM ServerNeverBlocks == Spec => []ServerAnswers
  <1>1. ASSUME EchoInv PROVE ServerAnswers
    <2>1. ASSUME serving = "loop", NEW k \in Echo!Chosen, fds[k] # Server
          PROVE  Echo!Readable(fds[k])
      <3>1. k \in 1..Len(fds) /\ fds[k] \in ready /\ (Echo!Array => k = i)
        BY <1>1, ChosenEntry DEF EchoInv
      <3>2. k \in Int
        BY <3>1
      <3>3. ~ RoundLost
        BY <1>1, <2>1, <3>1 DEF EchoInv, ReadyTrue, RoundLost, SocketsOnce, Echo!Array
      <3>4. request[fds[k]] # 0 \/ conn[fds[k]] = "closed"
        BY <1>1, <2>1, <3>1, <3>2, <3>3 DEF EchoInv, ReadyTrue
      <3> QED BY <2>1, <3>4 DEF Echo!Readable
    <2>2. Echo!AnswersMatch
      BY <1>1 DEF EchoInv, NumbersFit, Echo!AnswersMatch
    <2> QED BY <2>1, <2>2 DEF ServerAnswers, Echo!NeverBlocks
  <1>2. EchoInv => ServerAnswers
    BY <1>1
  <1> QED BY InitEcho, NextEcho, <1>2, PTL DEF Spec

-----------------------------------------------------------------------------
(***************************************************************************)
(* 2_parallel_sort.c, 3_mem_sort.c: the channels                           *)
(***************************************************************************)

Byte == Nat \X Nat

\* What a worker has still to copy, what it has copied and main() has not, and both.
Left(v) ==
  IF message[v] = "size" THEN src[v] \o Sort!ArrayOf(v)
  ELSE IF message[v] = "array" THEN src[v] ELSE <<>>

Unread(v) == IF kind = "mem" /\ v \notin is_readable \cup handing THEN <<>> ELSE mem[v]

Pending(v) == Unread(v) \o Left(v)

Stream(v) == Sort!SizeOf(v) \o Sort!ArrayOf(v)

SortTypes ==
  /\ file \in [Sort!Workers -> Nat]
  /\ message \in [Sort!Workers -> {"size", "array", "exit", "reaped"}]
  /\ src \in [Sort!Workers -> Seq(Byte)] /\ mem \in [Sort!Workers -> Seq(Byte)]
  /\ is_readable \subseteq Sort!Workers /\ is_writable \subseteq Sort!Workers
  /\ handing \subseteq Sort!Workers \cup {Sort!Main}
  /\ reader \in {"size", "array", "wait", "done"}
  /\ w \in Sort!Workers
  /\ dst \in Seq(Byte)
  /\ size \in [Sort!Workers -> Nat] /\ DOMAIN array = Sort!Workers

\* The message that main() reads from v or will read first; "past" if there is none.
Phase(v) ==
  IF w < v THEN "size" ELSE IF v = w /\ Sort!Reading THEN reader ELSE "past"

\* v has handed over a part of message m: the rest is to come, or it was the last.
PartSent(v, m) ==
  \/ message[v] = m /\ src[v] # <<>>
  \/ m = "size" /\ message[v] = "array" /\ src[v] = Sort!ArrayOf(v)
  \/ m = "array" /\ message[v] = "exit"

\* The flags of shared memory give each side its turn, and both are at the same
\* message when they change.
Turn(v) ==
  LET m == Phase(v)
      taking == v = w /\ Sort!Main \in handing IN
  m # "past" =>
    /\ v \in is_writable =>
         v \notin handing /\ v \notin is_readable /\ ~ taking /\ message[v] = m
    /\ v \in handing => v \notin is_readable /\ ~ taking /\ message[v] = m
    /\ v \in is_readable => ~ taking /\ PartSent(v, m)
    /\ taking => PartSent(v, m)

\* What main() has of the present message is the beginning of what is still to come.
ReadSoFar ==
  /\ \A v \in Sort!Workers : w < v => Pending(v) = Stream(v)
  /\ reader = "size" => dst \o Pending(w) = Stream(w) /\ Len(dst) <= SIZE_BYTES
  /\ reader = "array" => dst \o Pending(w) = Sort!ArrayOf(w) /\ size[w] = file[w]
  /\ \A v \in Sort!Workers :
       v < w \/ (v = w /\ reader \in {"wait", "done"}) => array[v] = Sort!ArrayOf(v)
  /\ reader = "wait" => dst = <<>>

Reaped == {v \in Sort!Workers : message[v] = "reaped"}

SortInv ==
  /\ SortTypes
  /\ kind # "mem" => handing = {}
  /\ Sort!Main \in handing => Sort!Reading
  /\ \A v \in handing \ {Sort!Main} : Sort!Sending(v)
  /\ kind = "mem" => \A v \in Sort!Workers : Turn(v)
  /\ ReadSoFar
  /\ Cardinality(Reaped) = IF reader = "done" THEN w ELSE w - 1
  /\ reader = "done" => w = nfiles

LEMMA Messages ==
  ASSUME SortTypes, NEW v \in Sort!Workers
  PROVE  /\ Sort!SizeOf(v) \in Seq(Byte) /\ Len(Sort!SizeOf(v)) = SIZE_BYTES
         /\ Sort!ArrayOf(v) \in Seq(Byte) /\ Len(Sort!ArrayOf(v)) = file[v]
         /\ Sort!SizeOf(v)[1][1] = file[v]
         /\ Stream(v) \in Seq(Byte) /\ v \in Nat /\ file[v] \in Nat
  <1>1. v \in Nat /\ file[v] \in Nat
    BY ProgramsAssumption DEF SortTypes, Sort!Workers
  <1>2. Sort!SizeOf(v) \in Seq(Byte) /\ Len(Sort!SizeOf(v)) = SIZE_BYTES
    <2>1. \A k \in 1..SIZE_BYTES : <<file[v], k>> \in Byte
      BY <1>1, ProgramsAssumption DEF Byte
    <2> HIDE DEF Byte
    <2> QED BY <2>1, ProgramsAssumption DEF Sort!SizeOf
  <1>3. Sort!ArrayOf(v) \in Seq(Byte) /\ Len(Sort!ArrayOf(v)) = file[v]
    <2>1. \A k \in 1..file[v] : <<v, k>> \in Byte
      BY <1>1 DEF Byte
    <2> HIDE DEF Byte
    <2> QED BY <1>1, <2>1 DEF Sort!ArrayOf
  <1>4. Sort!SizeOf(v)[1][1] = file[v]
    <2>1. Sort!SizeOf(v)[1] = <<file[v], 1>>
      BY ProgramsAssumption DEF Sort!SizeOf
    <2>2. <<file[v], 1>>[1] = file[v]
      OBVIOUS
    <2> QED BY <2>1, <2>2
  <1>5. Stream(v) \in Seq(Byte)
    BY <1>2, <1>3, ConcatProperties DEF Stream
  <1> QED BY <1>1, <1>2, <1>3, <1>4, <1>5

LEMMA PendingBytes ==
  ASSUME SortTypes, NEW v \in Sort!Workers
  PROVE  Left(v) \in Seq(Byte) /\ Unread(v) \in Seq(Byte) /\ Pending(v) \in Seq(Byte)
  <1>1. Sort!ArrayOf(v) \in Seq(Byte) /\ src[v] \in Seq(Byte) /\ mem[v] \in Seq(Byte)
    BY Messages DEF SortTypes
  <1>2. src[v] \o Sort!ArrayOf(v) \in Seq(Byte)
    BY <1>1, ConcatProperties
  <1>3. Left(v) \in Seq(Byte) /\ Unread(v) \in Seq(Byte)
    BY <1>1, <1>2, EmptySeq DEF Left, Unread
  <1> QED BY <1>3, ConcatProperties DEF Pending

LEMMA InitSort == Init => SortInv
  <1> SUFFICES ASSUME Init PROVE SortInv
    OBVIOUS
  <1> USE DEF Init, Sort!Init
  <1>1. file \in [Sort!Workers -> Nat]
    BY ProgramsAssumption
  <1>2. 1 \in Sort!Workers /\ Sort!Workers \subseteq Nat
    BY ProgramsAssumption DEF Sort!Workers
  <1>3. \A v \in Sort!Workers : Sort!SizeOf(v) \in Seq(Byte)
    <2>1. SUFFICES ASSUME NEW v \in Sort!Workers PROVE Sort!SizeOf(v) \in Seq(Byte)
      OBVIOUS
    <2>2. \A k \in 1..SIZE_BYTES : <<file[v], k>> \in Byte
      BY <1>1, <2>1, ProgramsAssumption DEF Byte
    <2> HIDE DEF Byte, Init, Sort!Init
    <2> QED BY <2>2, ProgramsAssumption DEF Sort!SizeOf
  <1>4. SortTypes
    BY <1>1, <1>2, <1>3, EmptySeq DEF SortTypes
  <1>5. \A v \in Sort!Workers : Unread(v) = <<>> /\ Left(v) = Stream(v)
    BY DEF Unread, Left, Stream
  <1>6. \A v \in Sort!Workers : Pending(v) = Stream(v)
    BY <1>4, <1>5, PendingBytes, ConcatEmptySeq DEF Pending
  <1>7. dst \o Pending(w) = Stream(w) /\ Len(dst) <= SIZE_BYTES
    <2>1. dst = <<>> /\ w \in Sort!Workers /\ Len(dst) = 0
      BY <1>2
    <2>2. Stream(w) \in Seq(Byte)
      BY <1>4, <2>1, Messages
    <2>3. Pending(w) = Stream(w)
      BY <1>6, <2>1
    <2> HIDE DEF Init, Sort!Init
    <2> QED BY <2>1, <2>2, <2>3, ConcatEmptySeq, ProgramsAssumption
  <1>8. ReadSoFar
    BY <1>2, <1>6, <1>7 DEF ReadSoFar, Sort!Workers
  <1>9. \A v \in Sort!Workers : Turn(v)
    BY <1>2 DEF Turn, Phase, Sort!Workers, Sort!Reading
  <1>10. Reaped = {} /\ Cardinality({}) = 0
    BY FS_EmptySet DEF Reaped
  <1> QED BY <1>4, <1>8, <1>9, <1>10 DEF SortInv, Sort!Reading

\* A worker that copies no byte twice and leaves none out, in its turn.
LEMMA WorkerKeeps ==
  ASSUME SortInv, NEW v \in Sort!Workers,
         UNCHANGED <<kind, file>>, UNCHANGED Sort!mainVars, SortTypes',
         \A u \in Sort!Workers : u # v =>
           /\ message'[u] = message[u] /\ src'[u] = src[u] /\ mem'[u] = mem[u]
           /\ u \in is_readable' <=> u \in is_readable
           /\ u \in is_writable' <=> u \in is_writable
           /\ u \in handing' <=> u \in handing,
         Sort!Main \in handing' <=> Sort!Main \in handing,
         Phase(v) # "past" => Pending(v)' = Pending(v),
         kind = "mem" => Turn(v)',
         kind # "mem" => handing' = {},
         v \in handing' => message'[v] \in {"size", "array"},
         message'[v] = "reaped" <=> message[v] = "reaped"
  PROVE  SortInv'
  <1> USE DEF Sort!mainVars
  <1>1. \A u \in Sort!Workers : u # v => Pending(u)' = Pending(u)
    BY DEF Pending, Unread, Left, Sort!ArrayOf
  <1>2. \A u \in Sort!Workers : Stream(u)' = Stream(u) /\ Sort!ArrayOf(u)' = Sort!ArrayOf(u)
    BY DEF Stream, Sort!SizeOf, Sort!ArrayOf
  <1>3. \A u : Phase(u)' = Phase(u)
    BY DEF Phase, Sort!Reading
  <1>4. w \in Sort!Workers /\ \A u \in Sort!Workers : u \in Int
    BY DEF SortInv, SortTypes, Sort!Workers
  <1>5. ReadSoFar'
    <2>1. \A u \in Sort!Workers : w < u => Pending(u)' = Stream(u)'
      <3>1. w < v => Phase(v) # "past"
        BY DEF Phase
      <3> QED BY <1>1, <1>2, <3>1 DEF SortInv, ReadSoFar
    <2>2. reader \in {"size", "array"} => Pending(w)' = Pending(w)
      <3>1. v = w /\ reader \in {"size", "array"} => Phase(v) # "past"
        BY <1>4 DEF Phase, Sort!Reading
      <3> QED BY <1>1, <1>4, <3>1
    <2>3. reader = "size" => dst \o Pending(w)' = Stream(w)' /\ Len(dst) <= SIZE_BYTES
      BY <1>2, <1>4, <2>2 DEF SortInv, ReadSoFar
    <2>4. reader = "array" => dst \o Pending(w)' = Sort!ArrayOf(w)' /\ size[w] = file[w]
      BY <1>2, <1>4, <2>2 DEF SortInv, ReadSoFar
    <2>5. \A u \in Sort!Workers :
            u < w \/ (u = w /\ reader \in {"wait", "done"}) => array[u] = Sort!ArrayOf(u)'
      BY <1>2 DEF SortInv, ReadSoFar
    <2>6. reader = "wait" => dst = <<>>
      BY DEF SortInv, ReadSoFar
    <2> QED BY <2>1, <2>3, <2>4, <2>5, <2>6 DEF ReadSoFar
  <1>6. kind = "mem" => \A u \in Sort!Workers : Turn(u)'
    <2>1. ASSUME kind = "mem", NEW u \in Sort!Workers, u # v PROVE Turn(u)'
      <3>1. \A m : PartSent(u, m)' <=> PartSent(u, m)
        BY <1>2, <2>1 DEF PartSent
      <3>2. Turn(u)
        BY <2>1 DEF SortInv
      <3> QED BY <1>3, <2>1, <3>1, <3>2 DEF Turn
    <2> QED BY <2>1
  <1>7. \A u \in handing' \ {Sort!Main} : Sort!Sending(u)'
    BY DEF SortInv, Sort!Sending, SortTypes
  <1>8. Reaped' = Reaped
    BY DEF Reaped
  <1> QED BY <1>5, <1>6, <1>7, <1>8 DEF SortInv, Sort!Reading

LEMMA WriteChunkStep ==
  ASSUME SortInv, NEW v \in Sort!Workers, Sort!WriteChunk(v)
  PROVE  SortInv'
  <1> DEFINE first == Sort!FirstBytes(src[v], MEM_SIZE)
             rest == Sort!Without(src[v], MEM_SIZE)
  <1>1. /\ kind = "mem" /\ message[v] \in {"size", "array"} /\ v \notin handing
        /\ v \in is_writable
        /\ mem' = [mem EXCEPT ![v] = first] /\ src' = [src EXCEPT ![v] = rest]
        /\ is_writable' = is_writable \ {v} /\ handing' = handing \cup {v}
        /\ UNCHANGED <<kind, file, message, is_readable>> /\ UNCHANGED Sort!mainVars
    BY DEF Sort!WriteChunk, Sort!Sending
  <1>2. SortTypes
    BY DEF SortInv
  <1>3. first \in Seq(Byte) /\ rest \in Seq(Byte) /\ first \o rest = src[v]
    BY <1>2, SplitBytes, ProgramsAssumption DEF SortTypes
  <1> HIDE DEF first, rest
  <1>4. SortTypes'
    BY <1>1, <1>2, <1>3 DEF SortTypes, Sort!mainVars
  <1>5. v # Sort!Main
    BY DEF Sort!Workers, Sort!Main
  <1>6. Phase(v) # "past" => Pending(v)' = Pending(v) /\ Turn(v)'
    <2> SUFFICES ASSUME Phase(v) # "past" PROVE Pending(v)' = Pending(v) /\ Turn(v)'
      OBVIOUS
    <2>1. v \notin is_readable /\ message[v] = Phase(v) /\ ~ (v = w /\ Sort!Main \in handing)
      BY <1>1 DEF SortInv, Turn
    <2>2. Turn(v)'
      BY <1>1, <1>5, <2>1 DEF Turn, Phase, Sort!Reading, Sort!mainVars
    <2>3. Unread(v) = <<>> /\ Unread(v)' = first
      BY <1>1, <1>2, <2>1 DEF Unread, SortTypes
    <2>4. src'[v] = rest /\ Sort!ArrayOf(v)' = Sort!ArrayOf(v)
      BY <1>1, <1>2 DEF SortTypes, Sort!ArrayOf
    <2>5. Sort!ArrayOf(v) \in Seq(Byte) /\ Left(v) \in Seq(Byte)
      BY <1>2, Messages, PendingBytes
    <2>6. Pending(v) = Left(v)
      BY <2>3, <2>5, ConcatEmptySeq DEF Pending
    <2>7. Pending(v)' = first \o Left(v)'
      BY <2>3 DEF Pending
    <2>8. CASE message[v] = "size"
      <3>1. Left(v) = (first \o rest) \o Sort!ArrayOf(v)
        BY <1>3, <2>8 DEF Left
      <3>2. Left(v)' = rest \o Sort!ArrayOf(v)
        BY <1>1, <2>4, <2>8 DEF Left
      <3>3. (first \o rest) \o Sort!ArrayOf(v) = first \o (rest \o Sort!ArrayOf(v))
        <4>1. first \in Seq(Byte) /\ rest \in Seq(Byte)
          BY <1>3
        <4>2. Sort!ArrayOf(v) \in Seq(Byte)
          BY <2>5
        <4> QED BY <4>1, <4>2, ConcatAssociative
      <3> QED BY <2>2, <2>6, <2>7, <3>1, <3>2, <3>3
    <2>9. CASE message[v] = "array"
      <3>1. Left(v) = first \o rest /\ Left(v)' = rest
        BY <1>1, <1>3, <2>4, <2>9 DEF Left
      <3> QED BY <2>2, <2>6, <2>7, <3>1
    <2> QED BY <1>1, <2>8, <2>9
  <1>7. kind = "mem" => Turn(v)'
    BY <1>1, <1>6 DEF Turn, Phase, Sort!Reading, Sort!mainVars
  <1>8. \A u \in Sort!Workers : u # v =>
          /\ message'[u] = message[u] /\ src'[u] = src[u] /\ mem'[u] = mem[u]
          /\ u \in is_readable' <=> u \in is_readable
          /\ u \in is_writable' <=> u \in is_writable
          /\ u \in handing' <=> u \in handing
    BY <1>1, <1>2 DEF SortTypes
  <1>9. Sort!Main \in handing' <=> Sort!Main \in handing
    BY <1>1, <1>5
  <1> QED BY <1>1, <1>4, <1>6, <1>7, <1>8, <1>9, WorkerKeeps

\* Behind the last byte of a message the next one is to come.
LEMMA NextLeft ==
  ASSUME SortTypes, NEW v \in Sort!Workers, src[v] = <<>>,
         message[v] \in {"size", "array"}, Sort!NextMessage(v), UNCHANGED file
  PROVE  /\ Left(v)' = Left(v)
         /\ message' \in [Sort!Workers -> {"size", "array", "exit", "reaped"}]
         /\ src' \in [Sort!Workers -> Seq(Byte)]
         /\ \A u \in Sort!Workers : u # v => message'[u] = message[u] /\ src'[u] = src[u]
         /\ message[v] = "size" => message'[v] = "array" /\ src'[v] = Sort!ArrayOf(v)
         /\ message[v] = "array" => message'[v] = "exit"
  <1>1. Sort!ArrayOf(v) \in Seq(Byte) /\ Sort!ArrayOf(v)' = Sort!ArrayOf(v)
    BY Messages DEF Sort!ArrayOf
  <1>2. <<>> \in Seq(Byte) /\ <<>> \o Sort!ArrayOf(v) = Sort!ArrayOf(v)
    BY <1>1, ConcatEmptySeq, EmptySeq
  <1> HIDE DEF Byte
  <1>3. CASE message[v] = "size"
    <2>1. /\ message' = [message EXCEPT ![v] = "array"]
          /\ src' = [src EXCEPT ![v] = Sort!ArrayOf(v)]
      BY <1>3 DEF Sort!NextMessage
    <2>2. message'[v] = "array" /\ src'[v] = Sort!ArrayOf(v)
      BY <2>1 DEF SortTypes
    <2>3. Left(v)' = Left(v)
      BY <1>1, <1>2, <1>3, <2>2 DEF Left
    <2> QED BY <1>1, <1>3, <2>1, <2>2, <2>3 DEF SortTypes
  <1>4. CASE message[v] = "array"
    <2>1. /\ message' = [message EXCEPT ![v] = "exit"]
          /\ src' = [src EXCEPT ![v] = <<>>]
      BY <1>4 DEF Sort!NextMessage
    <2>2. message'[v] = "exit" /\ src'[v] = <<>>
      BY <2>1 DEF SortTypes
    <2>3. Left(v)' = Left(v)
      BY <1>4, <2>2 DEF Left
    <2> QED BY <1>2, <1>4, <2>1, <2>2, <2>3 DEF SortTypes
  <1> QED BY <1>3, <1>4

LEMMA WriteReadableStep ==
  ASSUME SortInv, NEW v \in Sort!Workers, Sort!WriteReadable(v)
  PROVE  SortInv'
  <1>1. /\ v \in handing
        /\ is_readable' = is_readable \cup {v} /\ handing' = handing \ {v}
        /\ IF src[v] = <<>> THEN Sort!NextMessage(v) ELSE UNCHANGED <<message, src>>
        /\ UNCHANGED <<kind, file, mem, is_writable>> /\ UNCHANGED Sort!mainVars
    BY DEF Sort!WriteReadable
  <1>2. SortTypes
    BY DEF SortInv
  <1>3. v # Sort!Main
    BY DEF Sort!Workers, Sort!Main
  <1>4. message[v] \in {"size", "array"} /\ kind = "mem"
    BY <1>1, <1>3 DEF SortInv, Sort!Sending
  <1>5. /\ Left(v)' = Left(v)
        /\ message' \in [Sort!Workers -> {"size", "array", "exit", "reaped"}]
        /\ src' \in [Sort!Workers -> Seq(Byte)]
        /\ \A u \in Sort!Workers : u # v => message'[u] = message[u] /\ src'[u] = src[u]
        /\ message'[v] # "reaped"
        /\ src[v] # <<>> => message'[v] = message[v] /\ src'[v] = src[v]
        /\ src[v] = <<>> =>
             /\ message[v] = "size" => message'[v] = "array" /\ src'[v] = Sort!ArrayOf(v)
             /\ message[v] = "array" => message'[v] = "exit"
    <2>1. CASE src[v] = <<>>
      BY <1>1, <1>2, <1>4, <2>1, NextLeft
    <2>2. CASE src[v] # <<>>
      BY <1>1, <1>2, <1>4, <2>2 DEF Left, Sort!ArrayOf, SortTypes
    <2> QED BY <2>1, <2>2
  <1>6. SortTypes'
    BY <1>1, <1>2, <1>5 DEF SortTypes, Sort!mainVars
  <1>7. Unread(v) = mem[v] /\ Unread(v)' = mem[v]
    BY <1>1, <1>2 DEF Unread
  <1>8. Pending(v)' = Pending(v)
    BY <1>5, <1>7 DEF Pending
  <1>9. Turn(v)'
    <2> SUFFICES ASSUME Phase(v) # "past" PROVE Turn(v)'
      BY <1>1 DEF Turn, Phase, Sort!Reading, Sort!mainVars
    <2>1. message[v] = Phase(v) /\ ~ (v = w /\ Sort!Main \in handing) /\ v \notin is_writable
      BY <1>1, <1>4 DEF SortInv, Turn
    <2>2. PartSent(v, Phase(v))'
      BY <1>1, <1>4, <1>5, <2>1 DEF PartSent, Phase, Sort!Reading, Sort!mainVars, Sort!ArrayOf
    <2> QED BY <1>1, <1>3, <2>1, <2>2 DEF Turn, Phase, Sort!Reading, Sort!mainVars
  <1>10. \A u \in Sort!Workers : u # v =>
          /\ message'[u] = message[u] /\ src'[u] = src[u] /\ mem'[u] = mem[u]
          /\ u \in is_readable' <=> u \in is_readable
          /\ u \in is_writable' <=> u \in is_writable
          /\ u \in handing' <=> u \in handing
    BY <1>1, <1>5
  <1>11. Sort!Main \in handing' <=> Sort!Main \in handing
    BY <1>1, <1>3
  <1>12. v \notin handing'
    BY <1>1
  <1> QED BY <1>1, <1>4, <1>5, <1>6, <1>8, <1>9, <1>10, <1>11, <1>12, WorkerKeeps

LEMMA PipeWriteStep ==
  ASSUME SortInv, NEW v \in Sort!Workers, Sort!PipeWrite(v)
  PROVE  SortInv'
  <1> DEFINE room == MEM_SIZE - Len(mem[v])
  <1>1. /\ kind = "pipe" /\ message[v] \in {"size", "array"}
        /\ IF src[v] = <<>> THEN Sort!NextMessage(v) /\ UNCHANGED mem
           ELSE /\ room > 0
                /\ mem' = [mem EXCEPT ![v] = @ \o Sort!FirstBytes(src[v], room)]
                /\ src' = [src EXCEPT ![v] = Sort!Without(@, room)]
                /\ UNCHANGED message
        /\ UNCHANGED <<kind, file, is_readable, is_writable, handing>>
        /\ UNCHANGED Sort!mainVars
    BY DEF Sort!PipeWrite, Sort!Sending, Sort!flagVars
  <1>2. SortTypes
    BY DEF SortInv
  <1>3. Len(mem[v]) \in Nat /\ src[v] \in Seq(Byte) /\ mem[v] \in Seq(Byte)
    BY <1>2, LenProperties DEF SortTypes
  <1>4. Unread(v) = mem[v] /\ Unread(v)' = mem'[v]
    BY <1>1 DEF Unread
  <1>5. /\ message' \in [Sort!Workers -> {"size", "array", "exit", "reaped"}]
        /\ src' \in [Sort!Workers -> Seq(Byte)] /\ mem' \in [Sort!Workers -> Seq(Byte)]
        /\ \A u \in Sort!Workers : u # v =>
             message'[u] = message[u] /\ src'[u] = src[u] /\ mem'[u] = mem[u]
        /\ message'[v] # "reaped" /\ Pending(v)' = Pending(v)
    <2>1. CASE src[v] = <<>>
      <3>1. mem' = mem /\ Sort!NextMessage(v) /\ UNCHANGED file
        BY <1>1, <2>1
      <3>2. /\ Left(v)' = Left(v)
            /\ message' \in [Sort!Workers -> {"size", "array", "exit", "reaped"}]
            /\ src' \in [Sort!Workers -> Seq(Byte)]
            /\ \A u \in Sort!Workers : u # v => message'[u] = message[u] /\ src'[u] = src[u]
            /\ message[v] = "size" => message'[v] = "array"
            /\ message[v] = "array" => message'[v] = "exit"
        BY <1>1, <1>2, <2>1, <3>1, NextLeft
      <3> QED BY <1>1, <1>2, <1>4, <3>1, <3>2 DEF Pending, SortTypes
    <2>2. CASE src[v] # <<>>
      <3> DEFINE first == Sort!FirstBytes(src[v], room)
                 rest == Sort!Without(src[v], room)
      <3>1. room \in Nat
        BY <1>1, <1>3, <2>2, ProgramsAssumption
      <3>2. first \in Seq(Byte) /\ rest \in Seq(Byte) /\ first \o rest = src[v]
        BY <1>3, <3>1, SplitBytes
      <3>3. /\ mem' = [mem EXCEPT ![v] = mem[v] \o first] /\ src' = [src EXCEPT ![v] = rest]
            /\ UNCHANGED message
        BY <1>1, <2>2
      <3> HIDE DEF first, rest, room
      <3>4. mem[v] \o first \in Seq(Byte)
        BY <1>3, <3>2, ConcatProperties
      <3>5. /\ mem'[v] = mem[v] \o first /\ src'[v] = rest
            /\ src' \in [Sort!Workers -> Seq(Byte)] /\ mem' \in [Sort!Workers -> Seq(Byte)]
            /\ \A u \in Sort!Workers : u # v => src'[u] = src[u] /\ mem'[u] = mem[u]
        BY <1>2, <3>2, <3>3, <3>4 DEF SortTypes
      <3>6. Sort!ArrayOf(v)' = Sort!ArrayOf(v) /\ Sort!ArrayOf(v) \in Seq(Byte)
        BY <1>1, <1>2, Messages DEF Sort!ArrayOf
      <3>7. Pending(v)' = (mem[v] \o first) \o Left(v)'
        BY <1>4, <3>5 DEF Pending
      <3>8. Pending(v) = mem[v] \o Left(v)
        BY <1>4 DEF Pending
      <3>9. Left(v) = first \o Left(v)' /\ Left(v)' \in Seq(Byte)
        <4>1. CASE message[v] = "size"
          <5>1. Left(v) = (first \o rest) \o Sort!ArrayOf(v)
            BY <3>2, <4>1 DEF Left
          <5>2. Left(v)' = rest \o Sort!ArrayOf(v)
            BY <3>3, <3>5, <3>6, <4>1 DEF Left
          <5>3. rest \o Sort!ArrayOf(v) \in Seq(Byte)
            BY <3>2, <3>6, ConcatProperties
          <5>4. (first \o rest) \o Sort!ArrayOf(v) = first \o (rest \o Sort!ArrayOf(v))
            <6>1. first \in Seq(Byte) /\ rest \in Seq(Byte)
              BY <3>2
            <6>2. Sort!ArrayOf(v) \in Seq(Byte)
              BY <3>6
            <6> QED BY <6>1, <6>2, ConcatAssociative
          <5> QED BY <5>1, <5>2, <5>3, <5>4
        <4>2. CASE message[v] = "array"
          BY <3>2, <3>3, <3>5, <4>2 DEF Left
        <4> QED BY <1>1, <4>1, <4>2
      <3>10. Pending(v)' = Pending(v)
        <4>1. PICK l \in Seq(Byte) : l = Left(v)'
          BY <3>9
        <4>2. PICK o \in Seq(Byte) : o = mem[v]
          BY <1>3
        <4>3. PICK f \in Seq(Byte) : f = first
          BY <3>2
        <4>4. (o \o f) \o l = o \o (f \o l)
          BY ConcatAssociative
        <4> QED BY <3>7, <3>8, <3>9, <4>1, <4>2, <4>3, <4>4
      <3> QED BY <1>1, <1>2, <3>3, <3>5, <3>10 DEF SortTypes
    <2> QED BY <2>1, <2>2
  <1>6. SortTypes'
    BY <1>1, <1>2, <1>5 DEF SortTypes, Sort!mainVars
  <1>7. kind # "mem" /\ handing' = {} /\ handing = {}
    BY <1>1 DEF SortInv
  <1> QED BY <1>1, <1>5, <1>6, <1>7, WorkerKeeps

\* What main() has, the channel and the worker hold together one message, or two.
LEMMA Lengths ==
  ASSUME SortTypes, ReadSoFar, Sort!Reading
  PROVE  /\ Len(dst) \in Nat /\ Len(Unread(w)) \in Nat /\ Len(Left(w)) \in Nat
         /\ Len(src[w]) \in Nat /\ file[w] \in Nat /\ w \in Sort!Workers
         /\ reader = "size" => /\ Sort!Expected = SIZE_BYTES
                               /\ Len(dst) + Len(Unread(w)) + Len(Left(w)) = SIZE_BYTES + file[w]
         /\ reader = "array" => /\ Sort!Expected = file[w]
                                /\ Len(dst) + Len(Unread(w)) + Len(Left(w)) = file[w]
         /\ message[w] = "size" => Len(Left(w)) = Len(src[w]) + file[w]
         /\ message[w] = "array" => Len(Left(w)) = Len(src[w])
         /\ message[w] = "exit" => Len(Left(w)) = 0
  <1>1. w \in Sort!Workers /\ dst \in Seq(Byte) /\ src[w] \in Seq(Byte)
    BY DEF SortTypes
  <1>2. /\ Sort!SizeOf(w) \in Seq(Byte) /\ Len(Sort!SizeOf(w)) = SIZE_BYTES
        /\ Sort!ArrayOf(w) \in Seq(Byte) /\ Len(Sort!ArrayOf(w)) = file[w] /\ file[w] \in Nat
    BY <1>1, Messages
  <1>3. Left(w) \in Seq(Byte) /\ Unread(w) \in Seq(Byte) /\ Pending(w) \in Seq(Byte)
    BY <1>1, PendingBytes
  <1>4. /\ Len(dst) \in Nat /\ Len(Unread(w)) \in Nat /\ Len(Left(w)) \in Nat
        /\ Len(src[w]) \in Nat
    BY <1>1, <1>3, LenProperties
  <1>0. \A a, b \in Seq(Byte) : Len(a \o b) = Len(a) + Len(b)
    BY ConcatProperties
  <1>5. Len(Pending(w)) = Len(Unread(w)) + Len(Left(w))
    BY <1>0, <1>3 DEF Pending
  <1>6. Len(dst \o Pending(w)) = Len(dst) + Len(Pending(w))
    BY <1>0, <1>1, <1>3
  <1>7. Len(Stream(w)) = SIZE_BYTES + file[w]
    BY <1>0, <1>2 DEF Stream
  <1>8. Len(src[w] \o Sort!ArrayOf(w)) = Len(src[w]) + file[w]
    BY <1>0, <1>1, <1>2
  <1>9. reader = "size" => /\ Sort!Expected = SIZE_BYTES
                           /\ Len(dst) + Len(Unread(w)) + Len(Left(w)) = SIZE_BYTES + file[w]
    <2> SUFFICES ASSUME reader = "size"
                 PROVE  /\ Sort!Expected = SIZE_BYTES
                        /\ Len(dst) + Len(Unread(w)) + Len(Left(w)) = SIZE_BYTES + file[w]
      OBVIOUS
    <2>1. Len(dst \o Pending(w)) = Len(Stream(w))
      BY DEF ReadSoFar
    <2> QED BY <1>4, <1>5, <1>6, <1>7, <2>1 DEF Sort!Expected
  <1>10. reader = "array" => /\ Sort!Expected = file[w]
                             /\ Len(dst) + Len(Unread(w)) + Len(Left(w)) = file[w]
    <2> SUFFICES ASSUME reader = "array"
                 PROVE  /\ Sort!Expected = file[w]
                        /\ Len(dst) + Len(Unread(w)) + Len(Left(w)) = file[w]
      OBVIOUS
    <2>1. Len(dst \o Pending(w)) = Len(Sort!ArrayOf(w)) /\ size[w] = file[w]
      BY DEF ReadSoFar
    <2> QED BY <1>2, <1>4, <1>5, <1>6, <2>1 DEF Sort!Expected
  <1>11. /\ message[w] = "size" => Len(Left(w)) = Len(src[w]) + file[w]
         /\ message[w] = "array" => Len(Left(w)) = Len(src[w])
         /\ message[w] = "exit" => Len(Left(w)) = 0
    BY <1>8 DEF Left
  <1> QED BY <1>1, <1>2, <1>4, <1>9, <1>10, <1>11

\* Bytes go from the channel to main().
LEMMA PartRead ==
  ASSUME SortTypes, SortTypes', ReadSoFar, Sort!Reading, UNCHANGED <<file, reader, w, size, array>>,
         NEW b \in Seq(Byte), dst' = dst \o b, Pending(w) = b \o Pending(w)',
         Len(b) <= Sort!Expected - Len(dst),
         \A u \in Sort!Workers : u # w => Pending(u)' = Pending(u)
  PROVE  ReadSoFar'
  <1>1. w \in Sort!Workers /\ dst \in Seq(Byte) /\ \A u \in Sort!Workers : u \in Int
    BY DEF SortTypes, Sort!Workers
  <1>2. \A u \in Sort!Workers : Stream(u)' = Stream(u) /\ Sort!ArrayOf(u)' = Sort!ArrayOf(u)
    BY DEF Stream, Sort!SizeOf, Sort!ArrayOf
  <1>3. PICK p \in Seq(Byte) : p = Pending(w)'
    <2>1. Sort!ArrayOf(w)' = Sort!ArrayOf(w) /\ Sort!ArrayOf(w) \in Seq(Byte)
      BY <1>1, <1>2, Messages
    <2>2. src'[w] \in Seq(Byte) /\ mem'[w] \in Seq(Byte) /\ <<>> \in Seq(Byte)
      BY <1>1, EmptySeq DEF SortTypes
    <2>3. src'[w] \o Sort!ArrayOf(w) \in Seq(Byte)
      BY <2>1, <2>2, ConcatProperties
    <2>4. Left(w)' \in Seq(Byte) /\ Unread(w)' \in Seq(Byte)
      BY <2>1, <2>2, <2>3 DEF Left, Unread
    <2>5. Unread(w)' \o Left(w)' \in Seq(Byte)
      BY <2>4, ConcatProperties
    <2> QED BY <2>5 DEF Pending
  <1>4. dst' \o Pending(w)' = dst \o Pending(w)
    <2>1. PICK d \in Seq(Byte) : d = dst
      BY <1>1
    <2>2. (d \o b) \o p = d \o (b \o p)
      BY ConcatAssociative
    <2> QED BY <1>3, <2>1, <2>2
  <1>5. reader = "size" => Len(dst') <= SIZE_BYTES
    <2> SUFFICES ASSUME reader = "size" PROVE Len(dst') <= SIZE_BYTES
      OBVIOUS
    <2>1. Len(dst') = Len(dst) + Len(b) /\ Len(b) \in Nat
      BY <1>1, ConcatProperties, LenProperties
    <2>2. Len(dst) \in Nat /\ Sort!Expected = SIZE_BYTES
      BY Lengths
    <2> QED BY <2>1, <2>2, ProgramsAssumption
  <1>6. \A u \in Sort!Workers : w < u => Pending(u)' = Stream(u)'
    BY <1>1, <1>2 DEF ReadSoFar
  <1>7. reader' # "wait"
    BY DEF Sort!Reading
  <1> QED BY <1>1, <1>2, <1>4, <1>5, <1>6, <1>7 DEF ReadSoFar

\* A whole message has been read: it is the worker's, and the next one begins.
LEMMA WholeRead ==
  ASSUME SortTypes, ReadSoFar, Sort!Reading, Len(dst) = Sort!Expected, Sort!MessageRead,
         UNCHANGED file, \A u \in Sort!Workers : Pending(u)' = Pending(u)
  PROVE  /\ ReadSoFar'
         /\ w' = w /\ dst' \in Seq(Byte)
         /\ size' \in [Sort!Workers -> Nat] /\ DOMAIN array' = Sort!Workers
         /\ reader = "size" => reader' = "array"
         /\ reader = "array" => reader' = "wait"
  <1>1. w \in Sort!Workers /\ dst \in Seq(Byte) /\ w' = w /\ \A u \in Sort!Workers : u \in Int
    BY DEF SortTypes, Sort!Workers, Sort!MessageRead
  <1>2. /\ Sort!SizeOf(w) \in Seq(Byte) /\ Len(Sort!SizeOf(w)) = SIZE_BYTES
        /\ Sort!ArrayOf(w) \in Seq(Byte) /\ Len(Sort!ArrayOf(w)) = file[w] /\ file[w] \in Nat
        /\ Sort!SizeOf(w)[1][1] = file[w] /\ Pending(w) \in Seq(Byte)
    BY <1>1, Messages, PendingBytes
  <1>3. \A u \in Sort!Workers : Stream(u)' = Stream(u) /\ Sort!ArrayOf(u)' = Sort!ArrayOf(u)
    BY DEF Stream, Sort!SizeOf, Sort!ArrayOf
  <1>4. dst' = <<>> /\ <<>> \in Seq(Byte)
    BY EmptySeq DEF Sort!MessageRead
  <1>5. \A u \in Sort!Workers : w < u => Pending(u)' = Stream(u)'
    BY <1>3 DEF ReadSoFar
  <1>6. CASE reader = "size"
    <2>1. Len(dst) = SIZE_BYTES
      BY <1>6, Lengths
    <2>2. dst \o Pending(w) = Sort!SizeOf(w) \o Sort!ArrayOf(w)
      BY <1>6 DEF ReadSoFar, Stream
    <2>3. dst = Sort!SizeOf(w) /\ Pending(w) = Sort!ArrayOf(w)
      BY <1>1, <1>2, <2>1, <2>2, ConcatCancel
    <2>4. reader' = "array" /\ size' = [size EXCEPT ![w] = dst[1][1]] /\ array' = array
      BY <1>6 DEF Sort!MessageRead
    <2>5. size' = [size EXCEPT ![w] = file[w]]
      BY <1>2, <2>3, <2>4
    <2>6. <<>> \o Sort!ArrayOf(w) = Sort!ArrayOf(w)
      BY <1>2, ConcatEmptySeq
    <2>7. dst' \o Pending(w)' = Sort!ArrayOf(w)'
      BY <1>1, <1>3, <1>4, <2>3, <2>6
    <2>8. size'[w] = file[w] /\ size' \in [Sort!Workers -> Nat]
      BY <1>1, <1>2, <2>5 DEF SortTypes
    <2>9. ReadSoFar'
      BY <1>1, <1>3, <1>5, <1>6, <2>4, <2>7, <2>8 DEF ReadSoFar
    <2> QED BY <1>1, <1>4, <1>6, <2>4, <2>8, <2>9 DEF SortTypes
  <1>7. CASE reader = "array"
    <2>1. Len(dst) = file[w]
      BY <1>7, Lengths
    <2>2. dst \o Pending(w) = Sort!ArrayOf(w) \o <<>>
      BY <1>2, <1>7, ConcatEmptySeq DEF ReadSoFar
    <2>3. dst = Sort!ArrayOf(w)
      BY <1>1, <1>2, <1>4, <2>1, <2>2, ConcatCancel
    <2>4. reader' = "wait" /\ size' = size /\ array' = [array EXCEPT ![w] = dst]
      BY <1>7 DEF Sort!MessageRead
    <2>5. DOMAIN array' = Sort!Workers /\ array'[w] = Sort!ArrayOf(w)
          /\ \A u \in Sort!Workers : u < w => array'[u] = array[u]
      BY <1>1, <2>3, <2>4 DEF SortTypes
    <2>6. \A u \in Sort!Workers : u < w \/ u = w => array'[u] = Sort!ArrayOf(u)'
      BY <1>3, <2>5 DEF ReadSoFar
    <2>7. ReadSoFar'
      <3>1. reader' # "size" /\ reader' # "array" /\ w' = w
        BY <1>1, <2>4
      <3>2. \A u \in Sort!Workers : w' < u => Pending(u)' = Stream(u)'
        BY <1>1, <1>5
      <3> QED BY <1>1, <1>4, <2>6, <3>1, <3>2 DEF ReadSoFar
    <2> QED BY <1>1, <1>4, <1>7, <2>4, <2>5, <2>7 DEF SortTypes
  <1> QED BY <1>6, <1>7 DEF Sort!Reading

LEMMA ReadChunkStep ==
  ASSUME SortInv, Sort!ReadChunk
  PROVE  SortInv'
  <1> DEFINE want == Sort!Expected - Len(dst)
             b == Sort!FirstBytes(mem[w], want)
  <1>1. /\ kind = "mem" /\ Sort!Reading /\ Sort!Main \notin handing /\ w \in is_readable
        /\ dst' = dst \o b
        /\ is_readable' = is_readable \ {w} /\ handing' = handing \cup {Sort!Main}
        /\ UNCHANGED <<kind, file, message, src, mem, is_writable, reader, w, size, array>>
    BY DEF Sort!ReadChunk, Sort!TakeReadable, Sort!sorterVars
  <1>2. SortTypes /\ ReadSoFar
    BY DEF SortInv
  <1>3. w \in Sort!Workers /\ w # Sort!Main /\ dst \in Seq(Byte) /\ mem[w] \in Seq(Byte)
    BY <1>2 DEF SortTypes, Sort!Workers, Sort!Main
  <1>4. Phase(w) = reader /\ reader # "past" /\ \A u : Phase(u)' = Phase(u)
    BY <1>1, <1>3 DEF Phase, Sort!Reading, Sort!Workers
  <1>5. PartSent(w, reader) /\ w \notin handing /\ w \notin is_writable
    BY <1>1, <1>3, <1>4 DEF SortInv, Turn
  <1>6. Unread(w) = mem[w] /\ Unread(w)' = <<>>
    BY <1>1, <1>3, <1>5 DEF Unread
  <1>7. \A u \in Sort!Workers : Left(u)' = Left(u)
    BY <1>1 DEF Left, Sort!ArrayOf
  <1>8. \A u \in Sort!Workers : u # w => Pending(u)' = Pending(u)
    <2>1. ASSUME NEW u \in Sort!Workers, u # w PROVE Unread(u)' = Unread(u)
      <3>1. u # Sort!Main
        BY DEF Sort!Workers, Sort!Main
      <3> QED BY <1>1, <2>1, <3>1 DEF Unread
    <2> QED BY <1>7, <2>1 DEF Pending
  \* The chunk belongs to the message that main() reads.
  <1>9. want \in Nat /\ Len(mem[w]) <= want
    <2>0. /\ Len(dst) \in Nat /\ Len(mem[w]) \in Nat /\ Len(src[w]) \in Nat /\ file[w] \in Nat
          /\ SIZE_BYTES \in Nat
      BY <1>1, <1>2, <1>6, Lengths, ProgramsAssumption
    <2>1. CASE reader = "size"
      <3>1. message[w] = "size" \/ (message[w] = "array" /\ src[w] = Sort!ArrayOf(w))
        BY <1>5, <2>1 DEF PartSent
      <3>2. Len(Sort!ArrayOf(w)) = file[w]
        BY <1>2, <1>3, Messages
      <3>3. /\ Sort!Expected = SIZE_BYTES
            /\ Len(dst) + Len(mem[w]) + Len(Left(w)) = SIZE_BYTES + file[w]
        BY <1>1, <1>2, <1>6, <2>1, Lengths
      <3>4. Len(Left(w)) = file[w] \/ Len(Left(w)) = Len(src[w]) + file[w]
        <4>1. CASE message[w] = "size"
          BY <1>1, <1>2, <4>1, Lengths
        <4>2. CASE message[w] = "array" /\ src[w] = Sort!ArrayOf(w)
          BY <1>1, <1>2, <3>2, <4>2, Lengths
        <4> QED BY <3>1, <4>1, <4>2
      <3>5. \A m, d, s, f, z, x \in Nat :
              d + m + x = z + f /\ (x = f \/ x = s + f) => z - d \in Nat /\ m <= z - d
        OBVIOUS
      <3>6. Len(Left(w)) \in Nat
        BY <1>1, <1>2, Lengths
      <3>7. SIZE_BYTES - Len(dst) \in Nat /\ Len(mem[w]) <= SIZE_BYTES - Len(dst)
        BY <2>0, <3>3, <3>4, <3>5, <3>6
      <3> QED BY <3>3, <3>7
    <2>2. CASE reader = "array"
      <3>1. Sort!Expected = file[w] /\ Len(dst) + Len(mem[w]) + Len(Left(w)) = file[w]
            /\ Len(Left(w)) \in Nat
        BY <1>1, <1>2, <1>6, <2>2, Lengths
      <3> QED BY <2>0, <3>1
    <2> QED BY <1>1, <2>1, <2>2 DEF Sort!Reading
  <1>10. b = mem[w]
    BY <1>3, <1>9, SplitBytes
  <1> HIDE DEF b, want
  <1>11. dst' \in Seq(Byte)
    BY <1>1, <1>3, <1>10, ConcatProperties
  <1>12. SortTypes'
    BY <1>1, <1>2, <1>11 DEF SortTypes
  <1>13. Left(w) \in Seq(Byte)
    BY <1>2, <1>3, PendingBytes
  <1>14. Pending(w) = b \o Pending(w)'
    <2>1. Left(w)' = Left(w)
      BY <1>1, <1>3, <1>7
    <2>2. Pending(w)' = <<>> \o Left(w)
      BY <1>6, <2>1 DEF Pending
    <2>3. <<>> \o Left(w) = Left(w)
      BY <1>13, ConcatEmptySeq
    <2>4. Pending(w) = b \o Left(w)
      BY <1>6, <1>10 DEF Pending
    <2> QED BY <2>2, <2>3, <2>4
  <1>15. Len(b) <= Sort!Expected - Len(dst)
    BY <1>9, <1>10 DEF want
  <1>16. ReadSoFar'
    BY <1>1, <1>2, <1>3, <1>8, <1>10, <1>12, <1>14, <1>15, PartRead
  <1>17. \A u \in Sort!Workers : Turn(u)'
    <2>1. ASSUME NEW u \in Sort!Workers, NEW m PROVE PartSent(u, m)' <=> PartSent(u, m)
      BY <1>1 DEF PartSent, Sort!ArrayOf
    <2> SUFFICES ASSUME NEW u \in Sort!Workers PROVE Turn(u)'
      OBVIOUS
    <2>2. u # Sort!Main /\ w' = w /\ Phase(u)' = Phase(u)
      BY <1>1, <1>4 DEF Sort!Workers, Sort!Main
    <2>3. /\ u \in handing' <=> u \in handing
          /\ u \in is_readable' <=> u \in is_readable /\ u # w
          /\ u \in is_writable' <=> u \in is_writable
          /\ message'[u] = message[u] /\ Sort!Main \in handing'
      BY <1>1, <2>2
    <2>4. PartSent(u, Phase(u))' <=> PartSent(u, Phase(u))
      BY <2>1, <2>2
    <2>5. CASE u = w
      <3>1. PartSent(u, Phase(u))' /\ u \notin handing /\ u \notin is_writable
        BY <1>4, <1>5, <2>4, <2>5
      <3> QED BY <2>2, <2>3, <2>5, <3>1 DEF Turn
    <2>6. CASE u # w
      <3>1. Turn(u)
        BY <1>1 DEF SortInv
      <3> QED BY <2>2, <2>3, <2>4, <2>6, <3>1 DEF Turn
    <2> QED BY <2>5, <2>6
  <1>18. Reaped' = Reaped
    BY <1>1 DEF Reaped
  <1> QED BY <1>1, <1>12, <1>16, <1>17, <1>18 DEF SortInv, Sort!Reading, Sort!Sending

LEMMA ReadWritableStep ==
  ASSUME SortInv, Sort!ReadWritable
  PROVE  SortInv'
  <1>1. /\ Sort!Main \in handing
        /\ is_writable' = is_writable \cup {w} /\ handing' = handing \ {Sort!Main}
        /\ IF Len(dst) = Sort!Expected THEN Sort!MessageRead ELSE UNCHANGED Sort!mainVars
        /\ UNCHANGED <<kind, file, message, src, mem, is_readable>>
    BY DEF Sort!ReadWritable, Sort!sorterVars
  <1>2. SortTypes /\ ReadSoFar /\ Sort!Reading /\ kind = "mem"
    BY <1>1 DEF SortInv
  <1>3. w \in Sort!Workers /\ \A u \in Sort!Workers : u # Sort!Main /\ u \in Int
    BY <1>2 DEF SortTypes, Sort!Workers, Sort!Main
  <1>4. Phase(w) = reader /\ reader # "past"
    BY <1>2, <1>3 DEF Phase, Sort!Reading
  <1>5. PartSent(w, reader) /\ w \notin handing /\ w \notin is_readable
    BY <1>1, <1>2, <1>3, <1>4 DEF SortInv, Turn
  <1>6. \A u \in Sort!Workers : Pending(u)' = Pending(u)
    BY <1>1, <1>3 DEF Pending, Unread, Left, Sort!ArrayOf
  <1>7. Unread(w) = <<>> /\ Len(<<>>) = 0
    BY <1>2, <1>5 DEF Unread
  \* The worker is at the next message if this one has been read whole.
  <1>8. IF Len(dst) = Sort!Expected
        THEN \/ (reader = "size" /\ message[w] = "array")
             \/ (reader = "array" /\ message[w] = "exit")
        ELSE message[w] = reader
    <2>1. src[w] # <<>> => Len(src[w]) > 0
      BY <1>2, <1>3, EmptySeq DEF SortTypes
    <2>2. CASE reader = "size"
      <3>1. Len(Sort!ArrayOf(w)) = file[w]
        BY <1>2, <1>3, Messages
      <3>2. CASE message[w] = "size" /\ src[w] # <<>>
        BY <1>2, <1>7, <2>1, <2>2, <3>2, Lengths
      <3>3. CASE message[w] = "array" /\ src[w] = Sort!ArrayOf(w)
        BY <1>2, <1>7, <2>2, <3>1, <3>3, Lengths, ProgramsAssumption
      <3> QED BY <1>5, <2>2, <3>2, <3>3 DEF PartSent
    <2>3. CASE reader = "array"
      <3>1. CASE message[w] = "array" /\ src[w] # <<>>
        BY <1>2, <1>7, <2>1, <2>3, <3>1, Lengths
      <3>2. CASE message[w] = "exit"
        BY <1>2, <1>7, <2>3, <3>2, Lengths
      <3> QED BY <1>5, <2>3, <3>1, <3>2 DEF PartSent
    <2> QED BY <1>2, <2>2, <2>3 DEF Sort!Reading
  <1>9. /\ ReadSoFar' /\ w' = w /\ dst' \in Seq(Byte)
        /\ size' \in [Sort!Workers -> Nat] /\ DOMAIN array' = Sort!Workers
        /\ reader' \in {"size", "array", "wait"}
        /\ reader' # "wait" => message[w] = reader'
    <2>1. CASE Len(dst) = Sort!Expected
      BY <1>1, <1>2, <1>6, <1>8, <2>1, WholeRead
    <2>2. CASE Len(dst) # Sort!Expected
      <3>1. UNCHANGED <<reader, w, dst, size, array, file>>
        BY <1>1, <2>2 DEF Sort!mainVars
      <3>2. ReadSoFar'
        BY <1>2, <1>3, <1>6, <3>1 DEF ReadSoFar, Stream, Sort!SizeOf, Sort!ArrayOf
      <3> QED BY <1>2, <1>8, <2>2, <3>1, <3>2 DEF SortTypes, Sort!Reading
    <2> QED BY <2>1, <2>2
  <1>10. SortTypes'
    BY <1>1, <1>2, <1>3, <1>9 DEF SortTypes
  <1>11. \A u \in Sort!Workers : Turn(u)'
    <2>1. ASSUME NEW u \in Sort!Workers, NEW m PROVE PartSent(u, m)' <=> PartSent(u, m)
      BY <1>1 DEF PartSent, Sort!ArrayOf
    <2> SUFFICES ASSUME NEW u \in Sort!Workers PROVE Turn(u)'
      OBVIOUS
    <2>2. /\ u # Sort!Main /\ w' = w
          /\ u \in handing' <=> u \in handing
          /\ u \in is_readable' <=> u \in is_readable
          /\ u \in is_writable' <=> u \in is_writable \/ u = w
          /\ message'[u] = message[u] /\ Sort!Main \notin handing'
      BY <1>1, <1>3, <1>9
    <2>3. CASE u = w
      <3>1. Phase(u)' # "past" => message[u] = Phase(u)'
        BY <1>3, <1>9, <2>2, <2>3 DEF Phase, Sort!Reading
      <3> QED BY <1>5, <2>2, <2>3, <3>1 DEF Turn
    <2>4. CASE u # w
      <3>1. Turn(u)
        BY <1>2 DEF SortInv
      <3>2. Phase(u)' = Phase(u)
        BY <1>9, <2>4 DEF Phase
      <3>3. PartSent(u, Phase(u))' <=> PartSent(u, Phase(u))
        BY <2>1, <3>2
      <3> QED BY <2>2, <2>4, <3>1, <3>2, <3>3 DEF Turn
    <2> QED BY <2>3, <2>4
  <1>12. Reaped' = Reaped /\ Cardinality(Reaped) = w - 1
    BY <1>1, <1>2 DEF Reaped, SortInv, Sort!Reading
  <1> QED BY <1>1, <1>2, <1>9, <1>10, <1>11, <1>12 DEF SortInv, Sort!Sending

LEMMA PipeReadStep ==
  ASSUME SortInv, Sort!PipeRead
  PROVE  SortInv'
  <1> DEFINE want == Sort!Expected - Len(dst)
  <1>1. /\ kind = "pipe" /\ Sort!Reading
        /\ IF want = 0 THEN Sort!MessageRead /\ UNCHANGED mem
           ELSE /\ dst' = dst \o Sort!FirstBytes(mem[w], want)
                /\ mem' = [mem EXCEPT ![w] = Sort!Without(mem[w], want)]
                /\ UNCHANGED <<reader, w, size, array>>
        /\ UNCHANGED <<kind, file, message, src, is_readable, is_writable, handing>>
    BY DEF Sort!PipeRead, Sort!sorterVars, Sort!flagVars
  <1>2. SortTypes /\ ReadSoFar /\ handing = {}
    BY <1>1 DEF SortInv
  <1>3. w \in Sort!Workers /\ dst \in Seq(Byte) /\ mem[w] \in Seq(Byte)
    BY <1>2 DEF SortTypes
  <1>4. want \in Nat /\ Len(dst) \in Nat /\ Sort!Expected \in Nat
    <2>1. CASE reader = "size"
      <3>1. Len(dst) <= SIZE_BYTES
        BY <1>2, <2>1 DEF ReadSoFar
      <3> QED BY <1>1, <1>2, <2>1, <3>1, Lengths, ProgramsAssumption
    <2>2. CASE reader = "array"
      BY <1>1, <1>2, <2>2, Lengths
    <2> QED BY <1>1, <2>1, <2>2 DEF Sort!Reading
  <1>5. \A u \in Sort!Workers : Left(u)' = Left(u) /\ Unread(u) = mem[u] /\ Unread(u)' = mem'[u]
    BY <1>1 DEF Left, Unread, Sort!ArrayOf
  <1>6. /\ ReadSoFar' /\ SortTypes' /\ w' = w
        /\ reader' \in {"size", "array", "wait"}
    <2>1. CASE want = 0
      <3>1. Len(dst) = Sort!Expected
        BY <1>4, <2>1
      <3>2. \A u \in Sort!Workers : Pending(u)' = Pending(u)
        BY <1>1, <1>5, <2>1 DEF Pending
      <3>3. /\ ReadSoFar' /\ w' = w /\ dst' \in Seq(Byte)
            /\ size' \in [Sort!Workers -> Nat] /\ DOMAIN array' = Sort!Workers
            /\ reader' \in {"array", "wait"}
        BY <1>1, <1>2, <2>1, <3>1, <3>2, WholeRead DEF Sort!Reading
      <3> QED BY <1>1, <1>2, <2>1, <3>3 DEF SortTypes
    <2>2. CASE want # 0
      <3>0. PICK n \in Nat : n = want
        BY <1>4
      <3>1. PICK b \in Seq(Byte), r \in Seq(Byte) :
              /\ b = Sort!FirstBytes(mem[w], n) /\ r = Sort!Without(mem[w], n)
              /\ b \o r = mem[w] /\ Len(b) <= n
        <4>1. /\ Sort!FirstBytes(mem[w], n) \in Seq(Byte) /\ Sort!Without(mem[w], n) \in Seq(Byte)
              /\ Sort!FirstBytes(mem[w], n) \o Sort!Without(mem[w], n) = mem[w]
              /\ Len(Sort!FirstBytes(mem[w], n)) <= n
          BY <1>3, SplitBytes
        <4> QED BY <4>1
      <3>2. /\ dst' = dst \o b /\ mem' = [mem EXCEPT ![w] = r]
            /\ UNCHANGED <<reader, w, size, array>>
        BY <1>1, <2>2, <3>0, <3>1
      <3> HIDE DEF want
      <3>3. dst' \in Seq(Byte)
        BY <1>3, <3>2, ConcatProperties
      <3>4. SortTypes'
        BY <1>1, <1>2, <3>2, <3>3 DEF SortTypes
      <3>5. \A u \in Sort!Workers : u # w => Pending(u)' = Pending(u)
        BY <1>2, <1>5, <3>2 DEF Pending, SortTypes
      <3>6. Pending(w) = b \o Pending(w)'
        <4>1. Left(w) \in Seq(Byte)
          BY <1>2, <1>3, PendingBytes
        <4>2. PICK l \in Seq(Byte) : l = Left(w)
          BY <4>1
        <4>3. mem'[w] = r /\ w' = w /\ Left(w)' = Left(w)
          BY <1>2, <1>3, <1>5, <3>2 DEF SortTypes
        <4>4. Unread(w)' = r
          BY <1>3, <1>5, <4>3
        <4>5. Pending(w)' = r \o l
          BY <4>2, <4>3, <4>4 DEF Pending
        <4>6. Pending(w) = (b \o r) \o l
          BY <1>3, <1>5, <3>1, <4>2 DEF Pending
        <4>7. (b \o r) \o l = b \o (r \o l)
          BY ConcatAssociative
        <4> QED BY <4>5, <4>6, <4>7
      <3>7. Len(b) <= Sort!Expected - Len(dst)
        BY <3>0, <3>1 DEF want
      <3>8. ReadSoFar'
        BY <1>1, <1>2, <3>2, <3>4, <3>5, <3>6, <3>7, PartRead
      <3> QED BY <1>1, <3>2, <3>4, <3>8 DEF Sort!Reading
    <2> QED BY <2>1, <2>2
  <1>7. Reaped' = Reaped /\ Cardinality(Reaped) = w - 1
    BY <1>1, <1>2 DEF Reaped, SortInv, Sort!Reading
  <1> QED BY <1>1, <1>2, <1>6, <1>7 DEF SortInv

\* A child that has ended is reaped, and main() turns to the next worker.
LEMMA WaitChild ==
  ASSUME SortInv, Sort!Wait
  PROVE  SortInv'
  <1>1. PICK v \in Sort!Workers : message[v] = "exit" /\ message' = [message EXCEPT ![v] = "reaped"]
    BY DEF Sort!Wait
  <1>2. /\ reader = "wait"
        /\ IF w = nfiles THEN reader' = "done" /\ w' = w ELSE reader' = "size" /\ w' = w + 1
        /\ UNCHANGED <<kind, file, src, mem, is_readable, is_writable, handing, dst, size, array>>
    BY DEF Sort!Wait, Sort!flagVars
  <1>3. SortTypes /\ ReadSoFar /\ Sort!Main \notin handing /\ dst = <<>>
    BY <1>2 DEF SortInv, Sort!Reading, ReadSoFar
  <1>4. w \in 1..nfiles /\ w' \in 1..nfiles /\ Sort!Workers = 1..nfiles /\ nfiles \in Nat
    BY <1>2, <1>3, ProgramsAssumption DEF SortTypes, Sort!Workers
  <1>5. \A u \in Sort!Workers : u # v => message'[u] = message[u]
    BY <1>1, <1>3 DEF SortTypes
  <1>6. message'[v] = "reaped"
    BY <1>1, <1>3 DEF SortTypes
  <1>7. SortTypes'
    BY <1>1, <1>2, <1>3, <1>4 DEF SortTypes
  <1>8. \A u \in Sort!Workers : Pending(u)' = Pending(u)
    BY <1>1, <1>2, <1>5, <1>6 DEF Pending, Unread, Left, Sort!ArrayOf
  <1>9. \A u \in Sort!Workers : Stream(u)' = Stream(u) /\ Sort!ArrayOf(u)' = Sort!ArrayOf(u)
    BY <1>2 DEF Stream, Sort!SizeOf, Sort!ArrayOf
  <1>10. ReadSoFar'
    <2>1. \A u \in Sort!Workers : w < u => Pending(u)' = Stream(u)'
      BY <1>3, <1>8, <1>9 DEF ReadSoFar
    <2>2. \A u \in Sort!Workers : u <= w => array[u] = Sort!ArrayOf(u)'
      BY <1>2, <1>3, <1>4, <1>9 DEF ReadSoFar
    <2>3. CASE w = nfiles
      BY <1>2, <1>4, <2>1, <2>2, <2>3 DEF ReadSoFar
    <2>4. CASE w # nfiles
      <3>1. reader' = "size" /\ w' = w + 1 /\ w < w' /\ w' \in Sort!Workers /\ array' = array
        BY <1>2, <1>4, <2>4
      <3>2. dst' \o Pending(w)' = Stream(w)' /\ Len(dst') <= SIZE_BYTES
        <4>1. PICK n \in Sort!Workers : n = w'
          BY <3>1
        <4>2. PICK p : p = Pending(n)'
          OBVIOUS
        <4>3. Pending(w)' = p /\ Stream(w)' = Stream(n)'
          BY <4>1, <4>2 DEF Pending, Unread, Left, Stream, Sort!SizeOf, Sort!ArrayOf
        <4>4. p = Stream(n) /\ Stream(n)' = Stream(n) /\ Stream(n) \in Seq(Byte)
          BY <1>3, <1>9, <2>1, <3>1, <4>1, <4>2, Messages
        <4>5. <<>> \o p = p
          BY <4>4, ConcatEmptySeq
        <4>6. dst' = <<>> /\ Len(<<>>) = 0
          BY <1>2, <1>3
        <4> QED BY <4>3, <4>4, <4>5, <4>6, ProgramsAssumption
      <3>3. \A u \in Sort!Workers : w' < u => Pending(u)' = Stream(u)'
        BY <1>4, <2>1, <3>1
      <3>4. \A u \in Sort!Workers : u < w' => array[u] = Sort!ArrayOf(u)'
        BY <1>4, <2>2, <3>1
      <3> QED BY <3>1, <3>2, <3>3, <3>4 DEF ReadSoFar
    <2> QED BY <2>3, <2>4
  <1>11. kind = "mem" => \A u \in Sort!Workers : Turn(u)'
    <2> SUFFICES ASSUME kind = "mem", NEW u \in Sort!Workers PROVE Turn(u)'
      BY <1>2
    <2>1. Phase(u)' = Phase(u) /\ Phase(u) \in {"size", "past"}
      BY <1>2, <1>4 DEF Phase, Sort!Reading
    <2>2. Turn(u)
      BY DEF SortInv
    <2>3. CASE u = v
      <3>1. Phase(u) # "past" => u \notin is_writable /\ u \notin handing /\ u \notin is_readable
        BY <1>1, <2>1, <2>2, <2>3 DEF Turn, PartSent
      <3> QED BY <1>2, <1>3, <2>1, <3>1 DEF Turn
    <2>4. CASE u # v
      <3>1. message'[u] = message[u] /\ src'[u] = src[u] /\ Sort!ArrayOf(u)' = Sort!ArrayOf(u)
        BY <1>2, <1>5, <1>9, <2>4
      <3>2. PartSent(u, Phase(u))' <=> PartSent(u, Phase(u))
        BY <2>1, <3>1 DEF PartSent
      <3> QED BY <1>2, <1>3, <2>1, <2>2, <3>1, <3>2 DEF Turn
    <2> QED BY <2>3, <2>4
  <1>12. Cardinality(Reaped') = Cardinality(Reaped) + 1
    <2>1. Reaped' = Reaped \cup {v} /\ v \notin Reaped /\ Reaped \subseteq 1..nfiles
      BY <1>1, <1>4, <1>5, <1>6 DEF Reaped
    <2>2. IsFiniteSet(1..nfiles)
      BY <1>4, FS_Interval
    <2>3. IsFiniteSet(Reaped)
      BY <2>1, <2>2, FS_Subset
    <2> QED BY <2>1, <2>3, FS_AddElement
  <1>13. Cardinality(Reaped') = IF reader' = "done" THEN w' ELSE w' - 1
    <2>1. Cardinality(Reaped) = w - 1
      BY <1>2 DEF SortInv
    <2>2. Cardinality(Reaped') = w
      BY <1>4, <1>12, <2>1
    <2>3. CASE w = nfiles
      BY <1>2, <2>2, <2>3
    <2>4. CASE w # nfiles
      <3>1. reader' = "size" /\ w' - 1 = w
        BY <1>2, <1>4, <2>4
      <3> QED BY <2>2, <3>1
    <2> QED BY <2>3, <2>4
  <1>14. \A u \in handing' \ {Sort!Main} : Sort!Sending(u)'
    <2>1. \A u \in handing \ {Sort!Main} : u \in Sort!Workers /\ Sort!Sending(u)
      BY DEF SortInv, SortTypes
    <2> QED BY <1>1, <1>2, <1>5, <2>1 DEF Sort!Sending
  <1>15. kind' # "mem" => handing' = {}
    BY <1>2 DEF SortInv
  <1> QED BY <1>2, <1>3, <1>7, <1>10, <1>11, <1>13, <1>14, <1>15 DEF SortInv

LEMMA SortOnly == [Next]_vars => Sort!Next \/ UNCHANGED sortVars
  BY DEF Next, InCoro, InSort, InEcho, InLock, NextThread, NextCond, NextOrder, NextEvent

LEMMA NextSort == SortInv /\ [Next]_vars => SortInv'
  <1> SUFFICES ASSUME SortInv, [Next]_vars PROVE SortInv'
    OBVIOUS
  <1>1. CASE UNCHANGED sortVars
    <2>1. \A u : Sort!ArrayOf(u)' = Sort!ArrayOf(u) /\ Stream(u)' = Stream(u) /\ Pending(u)' = Pending(u)
      BY <1>1 DEF sortVars, Sort!ArrayOf, Sort!SizeOf, Stream, Pending, Unread, Left
    <2>2. SortTypes'
      BY <1>1 DEF sortVars, SortInv, SortTypes
    <2>3. ReadSoFar'
      <3>1. Pending(w)' = Pending(w) /\ Stream(w)' = Stream(w)
        BY <1>1 DEF sortVars, Sort!ArrayOf, Sort!SizeOf, Stream, Pending, Unread, Left
      <3>2. Sort!ArrayOf(w)' = Sort!ArrayOf(w)
        BY <1>1 DEF sortVars, Sort!ArrayOf
      <3> QED BY <1>1, <2>1, <3>1, <3>2 DEF sortVars, SortInv, ReadSoFar
    <2>4. \A u : Turn(u)' <=> Turn(u)
      BY <1>1, <2>1 DEF sortVars, Turn, Phase, PartSent, Sort!Reading, Sort!ArrayOf
    <2>5. Reaped' = Reaped /\ \A u : Sort!Sending(u)' <=> Sort!Sending(u)
      BY <1>1 DEF sortVars, Reaped, Sort!Sending
    <2> QED BY <1>1, <2>2, <2>3, <2>4, <2>5 DEF sortVars, SortInv, Sort!Reading
  <1>2. CASE Sort!Next
    BY <1>2, WriteChunkStep, WriteReadableStep, PipeWriteStep, ReadChunkStep, ReadWritableStep,
       PipeReadStep, WaitChild DEF Sort!Next, Sort!MainStep, Sort!WorkerStep
  <1> QED BY <1>1, <1>2, SortOnly

\* Whatever the sizes of the arrays are to the size of the pipe or of the memory, and
\* however the processes interleave: main() has of each worker it is done with the
\* worker's own array, whole and in order, and when it ends it has waited for each child.
THEOREM ArraysArrive == Spec => []ArraysDelivered
  <1>1. ASSUME SortInv PROVE ArraysDelivered
    <2>1. \A u \in Sort!Workers :
            u < w \/ (u = w /\ reader \in {"wait", "done"}) => array[u] = Sort!ArrayOf(u)
      BY <1>1 DEF SortInv, ReadSoFar
    <2>2. ASSUME Sort!Done PROVE \A u \in Sort!Workers : message[u] = "reaped"
      <3>1. Cardinality(Reaped) = nfiles /\ Reaped \subseteq 1..nfiles /\ nfiles \in Nat
        BY <1>1, <2>2, ProgramsAssumption DEF SortInv, Sort!Done, Reaped, Sort!Workers
      <3>2. IsFiniteSet(1..nfiles) /\ Cardinality(1..nfiles) = nfiles
        BY <3>1, FS_Interval
      <3>3. Reaped = 1..nfiles
        BY <3>1, <3>2, FS_Subset
      <3> QED BY <3>3 DEF Reaped, Sort!Workers
    <2> QED BY <2>1, <2>2 DEF ArraysDelivered, Sort!ArraysDelivered
  <1>2. SortInv => ArraysDelivered
    BY <1>1
  <1> QED BY InitSort, NextSort, <1>2, PTL DEF Spec
=============================================================================
