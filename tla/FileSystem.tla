----------------------------- MODULE FileSystem -----------------------------
(***************************************************************************)
(* What 3/userfs.h promises, without blocks, reference counts or error     *)
(* codes: a file is a sequence of bytes, a name leads to at most one file, *)
(* a descriptor is a position in a file, and a deleted file lives until    *)
(* its last descriptor is closed.                                          *)
(***************************************************************************)
EXTENDS Integers, Sequences, FiniteSets

CONSTANTS Names, Files, Cell, GARBAGE, NULL, MAX_FILE_SIZE, Slots

VARIABLES
  exists,     \* the files that have not gone
  directory,  \* name -> file, for the names in use; NULL for the others
  content,    \* file -> its bytes
  table,      \* descriptor -> [file, pos], or NULL
  buf         \* the byte a call moved last; GARBAGE between calls

vars == <<exists, directory, content, table, buf>>

InUse == {i \in Slots : table[i] # NULL}

Holding(f) == {i \in InUse : table[i].file = f}

Named == {f \in Files : \E n \in Names : directory[n] = f}

Init ==
  /\ exists = {}
  /\ directory = [n \in Names |-> NULL]
  /\ content = [f \in Files |-> <<>>]
  /\ table = [i \in Slots |-> NULL]
  /\ buf = GARBAGE

Open(n, i) ==
  /\ i \notin InUse
  /\ \/ /\ directory[n] # NULL
        /\ table' = [table EXCEPT ![i] = [file |-> directory[n], pos |-> 0]]
        /\ UNCHANGED <<exists, directory, content>>
     \/ /\ directory[n] = NULL
        /\ \E f \in Files \ exists :
             /\ exists' = exists \cup {f}
             /\ directory' = [directory EXCEPT ![n] = f]
             /\ table' = [table EXCEPT ![i] = [file |-> f, pos |-> 0]]
        /\ UNCHANGED content
  /\ UNCHANGED buf

\* A byte replaces the one at the position, or makes the file longer by one.
Write(i, b) ==
  LET f == table[i].file
      p == table[i].pos
  IN  /\ i \in InUse
      /\ p < MAX_FILE_SIZE
      /\ p <= Len(content[f])
      /\ content' = [content EXCEPT ![f] = SubSeq(@, 1, p) \o <<b>> \o SubSeq(@, p + 2, Len(@))]
      /\ table' = [table EXCEPT ![i].pos = p + 1]
      /\ buf' = b
      /\ UNCHANGED <<exists, directory>>

Read(i) ==
  LET f == table[i].file
      p == table[i].pos
  IN  /\ i \in InUse
      /\ p < Len(content[f])
      /\ buf' = content[f][p + 1]
      /\ table' = [table EXCEPT ![i].pos = p + 1]
      /\ UNCHANGED <<exists, directory, content>>

Return == buf' = GARBAGE /\ UNCHANGED <<exists, directory, content, table>>

\* The files of S are gone for good.
Forget(S) ==
  /\ exists' = exists \ S
  /\ content' = [f \in Files |-> IF f \in S THEN <<>> ELSE content[f]]

Close(i) ==
  /\ i \in InUse
  /\ Forget({f \in {table[i].file} : f \notin Named /\ Holding(f) = {i}})
  /\ table' = [table EXCEPT ![i] = NULL]
  /\ UNCHANGED <<directory, buf>>

Delete(n) ==
  /\ directory[n] # NULL
  /\ Forget({f \in {directory[n]} : Holding(f) = {}})
  /\ directory' = [directory EXCEPT ![n] = NULL]
  /\ UNCHANGED <<table, buf>>

Prefix(bytes, n) == SubSeq(bytes, 1, IF n < Len(bytes) THEN n ELSE Len(bytes))

\* A longer file gets bytes of any value; a shorter one draws the descriptors
\* behind its new end back to it.
Resize(f, size) ==
  /\ f \in exists
  /\ \E tail \in [1..(size - Len(Prefix(content[f], size))) -> Cell] :
       content' = [content EXCEPT ![f] = Prefix(@, size) \o tail]
  /\ table' = [i \in Slots |->
       IF i \in Holding(f) /\ table[i].pos > size
       THEN [table[i] EXCEPT !.pos = size] ELSE table[i]]
  /\ UNCHANGED <<exists, directory, buf>>

Destroy ==
  /\ Forget(exists)
  /\ directory' = [n \in Names |-> NULL]
  /\ table' = [i \in Slots |-> NULL]
  /\ UNCHANGED buf

Next ==
  \/ \E n \in Names : Delete(n) \/ \E i \in Slots : Open(n, i)
  \/ \E i \in Slots : Read(i) \/ Close(i) \/ \E b \in Cell : Write(i, b)
  \/ \E f \in Files, size \in 0..(MAX_FILE_SIZE - 1) : Resize(f, size)
  \/ Return
  \/ Destroy

Spec == Init /\ [][Next]_vars
=============================================================================
