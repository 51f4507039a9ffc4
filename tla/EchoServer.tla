----------------------------- MODULE EchoServer -----------------------------
(***************************************************************************)
(* lecture_examples/9_aio: a server in one thread that answers each number *)
(* with the next one, in four versions that learn from select, poll, epoll *)
(* or kqueue which socket can be read (4_server_select.c,                  *)
(* 5_server_poll.c, 7_server_epoll.c, 6_server_kqueue.c), and its client   *)
(* 4_client.c.                                                             *)
(*                                                                         *)
(* Sockets carry one number at a time in each direction: a client waits    *)
(* for the answer.  Calls of the network do not fail, and clients close    *)
(* their connection once it is accepted and only between two numbers.      *)
(* A wait that times out is repeated and changes nothing.                  *)
(***************************************************************************)
EXTENDS Integers, Sequences, SequencesExt, FiniteSets

CONSTANTS
  APIS,         \* the versions: "select", "poll", "epoll", "kqueue"
  Clients,
  Server,       \* the listening socket
  NUMBERS       \* bound: a client sends the numbers 1..NUMBERS at most

VARIABLES
  api,
  conn,         \* each connection: "none", "backlog", "open", "closed" (by the client),
                \* "gone" (closed by the server)
  request, answer,   \* the number on its way in each direction, or 0
  sent,         \* how many numbers the client has sent
  client,       \* where it is: "idle" or waiting to "recv"
  fds,          \* the server's array of sockets, or the interest list of the kernel
  ready, nfds, i,    \* the result of the last wait, what is left of it, the loop
  serving       \* where the server is: "wait", "accept", "loop"

clientVars == <<conn, request, answer, sent, client>>
vars == <<api, clientVars, fds, ready, nfds, i, serving>>

Array == api \in {"select", "poll"}

\* poll has the listening socket in its array, and the kernel in its list; select
\* sets its bit apart.
Init ==
  /\ api \in APIS
  /\ conn = [c \in Clients |-> "none"]
  /\ request = [c \in Clients |-> 0] /\ answer = [c \in Clients |-> 0]
  /\ sent = [c \in Clients |-> 0]
  /\ client = [c \in Clients |-> "idle"]
  /\ fds = IF api = "select" THEN <<>> ELSE <<Server>>
  /\ ready = {} /\ nfds = 0 /\ i = 1
  /\ serving = "wait"

-----------------------------------------------------------------------------
(***************************************************************************)
(* Clients                                                                 *)
(***************************************************************************)

serverVars == <<api, fds, ready, nfds, i, serving>>

Connect(c) ==
  /\ conn[c] = "none"
  /\ conn' = [conn EXCEPT ![c] = "backlog"]
  /\ UNCHANGED <<request, answer, sent, client, serverVars>>

\* A connection may be used before the server has accepted it.
Send(c) ==
  /\ conn[c] \in {"backlog", "open"} /\ client[c] = "idle" /\ sent[c] < NUMBERS
  /\ request' = [request EXCEPT ![c] = sent[c] + 1]
  /\ sent' = [sent EXCEPT ![c] = @ + 1]
  /\ client' = [client EXCEPT ![c] = "recv"]
  /\ UNCHANGED <<conn, answer, serverVars>>

Receive(c) ==
  /\ client[c] = "recv" /\ answer[c] # 0
  /\ answer' = [answer EXCEPT ![c] = 0]
  /\ client' = [client EXCEPT ![c] = "idle"]
  /\ UNCHANGED <<conn, request, sent, serverVars>>

Close(c) ==
  /\ conn[c] = "open" /\ client[c] = "idle"
  /\ conn' = [conn EXCEPT ![c] = "closed"]
  /\ UNCHANGED <<request, answer, sent, client, serverVars>>

-----------------------------------------------------------------------------
(***************************************************************************)
(* The server                                                              *)
(***************************************************************************)

\* What the kernel reports as readable: a number, the end of the connection, a
\* connection to accept.
Readable(s) ==
  IF s = Server THEN \E c \in Clients : conn[c] = "backlog"
  ELSE request[s] # 0 \/ conn[s] = "closed"

\* fill_fdset, the array of poll, the interest list.
Watched == ToSet(fds) \cup {Server}

Interesting == {s \in Watched : Readable(s)}

\* select and poll report every readable socket, epoll_wait and kevent one.
WaitReady ==
  /\ serving = "wait"
  /\ Interesting # {}
  /\ ready' \in IF Array THEN {Interesting} ELSE {{s} : s \in Interesting}
  /\ nfds' = Cardinality(ready')
  /\ i' = 1
  /\ serving' = IF Server \in ready' THEN "accept" ELSE "loop"
  /\ UNCHANGED <<api, clientVars, fds>>

\* The bits of a new entry of poll's array are what realloc finds in memory.
Accept ==
  /\ serving = "accept"
  /\ \E c \in Clients :
       /\ conn[c] = "backlog"
       /\ conn' = [conn EXCEPT ![c] = "open"]
       /\ fds' = Append(fds, c)
       /\ ready' \in IF api = "poll" THEN {ready, ready \cup {c}} ELSE {ready}
  /\ nfds' = nfds - 1
  /\ serving' = IF Array THEN "loop" ELSE "wait"
  /\ UNCHANGED <<api, request, answer, sent, client, i>>

\* A mistake to be caught: the number that was received is sent back as it is.
AnswerSame(s) ==
  /\ request[s] # 0
  /\ answer' = [answer EXCEPT ![s] = request[s]]
  /\ request' = [request EXCEPT ![s] = 0]

\* interact, when recv has data: the next number is sent.
Answer(s) ==
  /\ request[s] # 0
  /\ answer' = [answer EXCEPT ![s] = request[s] + 1]
  /\ request' = [request EXCEPT ![s] = 0]

\* remove_client, EPOLL_CTL_DEL, or close, which takes the socket out of the list.
remove_client(k) == RemoveAt(fds, k)

\* Line 106 of select, 90 of poll: the next round of the loop, or none.
LoopTo(k, count) ==
  /\ i' = k
  /\ serving' = IF Array /\ k <= count /\ nfds' > 0 THEN "loop" ELSE "wait"

Skip ==
  /\ Array /\ serving = "loop"
  /\ i <= Len(fds) /\ nfds > 0
  /\ fds[i] \notin ready
  /\ UNCHANGED nfds
  /\ LoopTo(i + 1, Len(fds))
  /\ UNCHANGED <<api, clientVars, fds, ready>>

\* The socket the server turns to.
Chosen == IF Array THEN {k \in {i} : k <= Len(fds) /\ nfds > 0 /\ fds[k] \in ready}
          ELSE {k \in DOMAIN fds : fds[k] \in ready}

\* recv fails on the listening socket of poll's array, which leaves the loop.
InteractServer ==
  /\ serving = "loop"
  /\ \E k \in Chosen : fds[k] = Server
  /\ serving' = "wait"
  /\ nfds' = nfds - 1
  /\ UNCHANGED <<api, clientVars, fds, ready, i>>

Interact ==
  /\ serving = "loop"
  /\ \E k \in Chosen :
       /\ fds[k] # Server
       /\ \/ Answer(fds[k]) /\ UNCHANGED <<conn, fds>>
          \/ /\ request[fds[k]] = 0 /\ conn[fds[k]] = "closed"
             /\ conn' = [conn EXCEPT ![fds[k]] = IF Array THEN @ ELSE "gone"]
             /\ fds' = remove_client(k)
             /\ UNCHANGED <<request, answer>>
  /\ nfds' = nfds - 1
  /\ LoopTo(i + 1, Len(fds'))
  /\ UNCHANGED <<api, sent, client, ready>>

\* The loop of a version with an array that finds nothing to do.
LeaveLoop ==
  /\ Array /\ serving = "loop"
  /\ i > Len(fds) \/ nfds <= 0
  /\ serving' = "wait"
  /\ UNCHANGED <<api, clientVars, fds, ready, nfds, i>>

ServerStep == WaitReady \/ Accept \/ Skip \/ InteractServer \/ Interact \/ LeaveLoop

Next == ServerStep \/ \E c \in Clients : Connect(c) \/ Send(c) \/ Receive(c) \/ Close(c)

-----------------------------------------------------------------------------

\* The server turns only to sockets that can be read: it has one thread, and recv
\* on another would keep every client waiting.
NeverBlocks ==
  serving = "loop" => \A k \in Chosen : fds[k] = Server \/ Readable(fds[k])

\* Each number is answered with the next one, to the client that sent it, while
\* the client waits.
AnswersMatch == \A c \in Clients : answer[c] # 0 =>
  /\ answer[c] = sent[c] + 1
  /\ client[c] = "recv" /\ request[c] = 0

\* Every number is answered.
Answered == \A c \in Clients : client[c] = "recv" ~> answer[c] # 0
=============================================================================
