----------------------------- MODULE SemEvents -----------------------------
(***************************************************************************)
(* lecture_examples/7_ipc/9_sem_event_source.c and 9_sem_event_cons.c:     *)
(* sources 1 to 3 send messages of their own type through one queue and    *)
(* count them in a semaphore each; a consumer waits until all three have   *)
(* an event, and takes one message of each type.  A fourth semaphore lets  *)
(* one consumer in at a time.                                              *)
(*                                                                         *)
(* The system undoes the operations of a process on the semaphores when it *)
(* ends.  Consumers start when the semaphores and the queue have been      *)
(* made, and are not killed.  Source 1 removes the queue and then, in a    *)
(* second call, the semaphores.  In between the calls on the removed queue *)
(* fail, unchecked, those on the semaphores succeed, and a source that     *)
(* starts late makes a second queue.  The model ends when the semaphores   *)
(* are removed: then every call on them fails.                             *)
(***************************************************************************)
EXTENDS Integers, FiniteSets, FiniteSetsExt, Functions

CONSTANTS
  Consumers,
  MAX_EVENTS,      \* bound: how many lines each source reads
  MAX_MESSAGES     \* how many messages a queue has room for

Sources == 1..3
Events == 4        \* lock and unlock of the consumers, sem_num 3
Queues == 1..2     \* the first, and the one made when it has been removed

VARIABLES
  semaphores,      \* "none", "created", "removed"
  sem,             \* their values
  undo,            \* of each source, what its end will take from its semaphore
  queue,           \* the queue that the key names, or 0
  queued,          \* how many messages of each type are in each queue
  queueid,         \* of each source, its queue, or 0
  source,          \* where each source is
  lines,           \* how many lines each has read
  connected,       \* of each consumer, its queue, -1 if there was none, 0 if not started
  consumer         \* the type each consumer reads next, or 0

queueVars == <<queue, queued, queueid, connected>>
vars == <<semaphores, sem, undo, queueVars, source, lines, consumer>>

Init ==
  /\ semaphores = "none"
  /\ sem = [k \in 1..4 |-> 0]
  /\ undo = [i \in Sources |-> 0]
  /\ queue = 0
  /\ queued = [q \in Queues |-> [i \in Sources |-> 0]]
  /\ queueid = [i \in Sources |-> 0]
  /\ source = [i \in Sources |-> "semget"]
  /\ lines = [i \in Sources |-> 0]
  /\ connected = [c \in Consumers |-> 0]
  /\ consumer = [c \in Consumers |-> 0]

Alive == semaphores # "removed"
QueueRemoved == source[1] \in {"semctl", "exited"}
Goto(i, step) == source' = [source EXCEPT ![i] = step]

sem_get_or_create(i) ==
  /\ source[i] = "semget" /\ Alive
  /\ IF semaphores = "none"
     THEN semaphores' = "created" /\ Goto(i, "SETALL")
     ELSE UNCHANGED semaphores /\ Goto(i, "msgget")
  /\ UNCHANGED <<sem, undo, queueVars, lines, consumer>>

\* Another source may have counted an event in between; what is to be undone is
\* cleared with the values.
SetAll(i) ==
  /\ source[i] = "SETALL" /\ Alive
  /\ sem' = [k \in 1..4 |-> IF k = Events THEN 1 ELSE 0]
  /\ undo' = [j \in Sources |-> 0]
  /\ Goto(i, "msgget")
  /\ UNCHANGED <<semaphores, queueVars, lines, consumer>>

msg_queue_get_or_create(i) ==
  /\ source[i] = "msgget" /\ Alive
  /\ \/ queue # 0 /\ UNCHANGED queue
     \/ queue = 0 /\ queue' = IF QueueRemoved THEN 2 ELSE 1
  /\ queueid' = [queueid EXCEPT ![i] = queue']
  /\ Goto(i, "getline")
  /\ UNCHANGED <<semaphores, sem, undo, queued, connected, lines, consumer>>

AllQueued(q) == FoldFunction(+, 0, queued[q])

\* msgsnd blocks while the queue is full, and fails when it has been removed.
send_msg(i) ==
  /\ source[i] = "getline" /\ Alive
  /\ lines[i] < MAX_EVENTS
  /\ \/ /\ queueid[i] = queue /\ AllQueued(queue) < MAX_MESSAGES
        /\ queued' = [queued EXCEPT ![queue][i] = @ + 1]
     \/ queueid[i] # queue /\ UNCHANGED queued
  /\ lines' = [lines EXCEPT ![i] = @ + 1]
  /\ Goto(i, "semop")
  /\ UNCHANGED <<semaphores, sem, undo, queue, queueid, connected, consumer>>

sem_inc(i) ==
  /\ source[i] = "semop" /\ Alive
  /\ sem' = [sem EXCEPT ![i] = @ + 1]
  /\ undo' = [undo EXCEPT ![i] = @ + 1]
  /\ Goto(i, "getline")
  /\ UNCHANGED <<semaphores, queueVars, lines, consumer>>

\* The input of source 1 has ended; the messages go with the queue.
RemoveQueue ==
  /\ source[1] = "getline" /\ Alive
  /\ queue' = 0
  /\ queued' = [queued EXCEPT ![queue] = [i \in Sources |-> 0]]
  /\ Goto(1, "semctl")
  /\ UNCHANGED <<semaphores, sem, undo, queueid, connected, lines, consumer>>

RemoveSemaphores ==
  /\ source[1] = "semctl" /\ Alive
  /\ semaphores' = "removed"
  /\ sem' = [k \in 1..4 |-> 0]
  /\ undo' = [i \in Sources |-> 0]
  /\ Goto(1, "exited")
  /\ UNCHANGED <<queueVars, lines, consumer>>

\* The input of another source has ended.  A value does not become negative by what
\* is undone.
Exit(i) ==
  /\ i # 1 /\ source[i] = "getline" /\ Alive
  /\ sem' = [sem EXCEPT ![i] = Max({@ - undo[i], 0})]
  /\ undo' = [undo EXCEPT ![i] = 0]
  /\ Goto(i, "exited")
  /\ UNCHANGED <<semaphores, queueVars, lines, consumer>>

-----------------------------------------------------------------------------

\* A consumer looks up the semaphores and the queue.
Start(c) ==
  /\ connected[c] = 0 /\ semaphores = "created" /\ (queue # 0 \/ QueueRemoved)
  /\ connected' = [connected EXCEPT ![c] = IF queue = 0 THEN -1 ELSE queue]
  /\ UNCHANGED <<semaphores, sem, undo, queue, queued, queueid, source, lines, consumer>>

\* A mistake to be caught: one event is enough.
AnyEvent == sem[Events] > 0 /\ \E i \in Sources : sem[i] > 0

\* semop takes all four or none.
AllEvents == \A k \in 1..4 : sem[k] > 0

lock_events(c) ==
  /\ consumer[c] = 0 /\ Alive /\ connected[c] # 0
  /\ AllEvents
  /\ sem' = [k \in 1..4 |-> Max({sem[k] - 1, 0})]
  /\ consumer' = [consumer EXCEPT ![c] = 1]
  /\ UNCHANGED <<semaphores, undo, queueVars, source, lines>>

\* msgrcv blocks while there is no such message, and fails when there is no queue: what
\* is unpacked then was not received, and the next type is read.
read_data(c) ==
  /\ consumer[c] \in Sources /\ Alive
  /\ \/ /\ connected[c] = queue /\ queued[queue][consumer[c]] > 0
        /\ queued' = [queued EXCEPT ![queue][consumer[c]] = @ - 1]
     \/ connected[c] # queue /\ UNCHANGED queued
  /\ consumer' = [consumer EXCEPT ![c] = @ + 1]
  /\ UNCHANGED <<semaphores, sem, undo, queue, queueid, connected, source, lines>>

unlock_events(c) ==
  /\ consumer[c] = 4 /\ Alive
  /\ sem' = [sem EXCEPT ![Events] = @ + 1]
  /\ consumer' = [consumer EXCEPT ![c] = 0]
  /\ UNCHANGED <<semaphores, undo, queueVars, source, lines>>

Next ==
  \/ \E i \in Sources : \/ sem_get_or_create(i) \/ SetAll(i) \/ msg_queue_get_or_create(i)
                        \/ send_msg(i) \/ sem_inc(i) \/ Exit(i)
  \/ RemoveQueue \/ RemoveSemaphores
  \/ \E c \in Consumers : Start(c) \/ lock_events(c) \/ read_data(c) \/ unlock_events(c)

\* One consumer is in at a time, the queue removed or not.  Until source 1 removes
\* the queue, a consumer that was let in finds the messages it was promised, so that
\* its msgrcv neither fails nor waits while it keeps the others out; whenever the
\* semaphores were set and whichever sources have ended.  Between the two removals
\* nothing of this is promised.
EventsReadable ==
  /\ Cardinality({c \in Consumers : consumer[c] # 0}) + sem[Events] <= 1
  /\ ~ QueueRemoved =>
       /\ \A c \in Consumers : consumer[c] # 0 => connected[c] = queue
       /\ queue # 0 => \A i \in Sources :
            sem[i] + Cardinality({c \in Consumers : consumer[c] \in 1..i})
              <= queued[queue][i]
=============================================================================
