------------------------------- MODULE UserFS -------------------------------
(***************************************************************************)
(* The in-memory file system of 3/userfs.c: file objects made of a list of *)
(* blocks, the table of descriptors, and the calls of 3/userfs.h made by   *)
(* one thread.                                                             *)
(*                                                                         *)
(* A call is one step, but for ufs_read and ufs_write: their loop over the *)
(* bytes of the caller's buffer is one step per byte, and no other call    *)
(* starts before it ends.                                                  *)
(***************************************************************************)
EXTENDS Integers, Sequences, FiniteSets

CONSTANTS
  Names,          \* file names
  Files,          \* addresses malloc may return for a struct file
  Byte,           \* values of a written byte
  GARBAGE,        \* what uninitialised memory reads as
  NULL,           \* the null pointer
  BLOCK_SIZE,
  MAX_FILE_SIZE,
  INT_MAX,
  FlagSets,       \* the combinations of flags the callers pass to ufs_open
  Sizes,          \* the size_t values the callers pass
  Grow,           \* may ufs_resize be asked for more than the last block holds?
  FD_BOUND        \* bound: descriptors open at the same time

ASSUME UserFSAssumption ==
  /\ GARBAGE \notin Byte
  /\ BLOCK_SIZE \in Nat \ {0}
  /\ MAX_FILE_SIZE \in Nat \ {0}
  /\ INT_MAX \in Nat /\ MAX_FILE_SIZE <= INT_MAX
  /\ FlagSets \subseteq SUBSET {"UFS_CREATE", "UFS_READ_ONLY", "UFS_WRITE_ONLY",
                                "UFS_READ_WRITE"}
  /\ Sizes \subseteq Nat
  /\ Grow \in BOOLEAN
  /\ FD_BOUND \in Nat

VARIABLES
  files,                     \* the struct files that exist
  file_list,                 \* those a name still leads to
  name,
  refs,
  marked_for_deletion,       \* the files whose field of that name is true
  blocks,                    \* of each file: the memory of its blocks, in list order
  occupied,                  \* of each file: occupied of its last block, the only
                             \* one the code ever reads
  file_descriptors,          \* the table: index -> struct filedesc or NULL
  file_descriptor_count,
  file_descriptor_capacity,
  ufs_error_code,
  pc,                        \* "idle", "write", "read": the loop under way; "destroyed"
  io_fd, io_size, io_left,   \* its descriptor, its return value, the bytes to go
  buf                        \* the byte it moved last

fileVars == <<files, file_list, name, refs, marked_for_deletion>>
dataVars == <<blocks, occupied>>
descVars == <<file_descriptors, file_descriptor_count, file_descriptor_capacity>>
ioVars   == <<pc, io_fd, io_size, io_left, buf>>

vars == <<fileVars, dataVars, descVars, ioVars, ufs_error_code>>

Cell == Byte \cup {GARBAGE}

Offsets == 0..(BLOCK_SIZE - 1)

Slots == 0..(FD_BOUND - 1)

Descriptor == [file : Files, current_block : Nat, block_offset : Nat,
               flags : SUBSET {"UFS_CREATE", "UFS_READ_ONLY", "UFS_WRITE_ONLY",
                               "UFS_READ_WRITE"}]

ASSUME NullAssumption ==
  /\ NULL \notin Names /\ NULL \notin Files
  /\ NULL \notin Descriptor /\ NULL \notin [file : Files, pos : Nat]

-----------------------------------------------------------------------------
(***************************************************************************)
(* Initial state and helpers                                               *)
(***************************************************************************)

Init ==
  /\ files = {}
  /\ file_list = {}
  /\ name = [f \in Files |-> NULL]
  /\ refs = [f \in Files |-> 0]
  /\ marked_for_deletion = {}
  /\ blocks = [f \in Files |-> <<>>]
  /\ occupied = [f \in Files |-> 0]
  /\ file_descriptors = [i \in Slots |-> NULL]
  /\ file_descriptor_count = 0
  /\ file_descriptor_capacity = 0
  /\ ufs_error_code = "UFS_ERR_NO_ERR"
  /\ pc = "idle"
  /\ io_fd = 0
  /\ io_size = 0
  /\ io_left = 0
  /\ buf = GARBAGE

\* A block as malloc returns it.
NewBlock == [o \in Offsets |-> GARBAGE]

LastBlock(f) == Len(blocks[f]) - 1

Size(f) == LastBlock(f) * BLOCK_SIZE + occupied[f]

\* (int) of a size_t or of a sum, as the build computes it.
ToInt(n) == IF n > INT_MAX THEN n - 2 * (INT_MAX + 1) ELSE n

\* The descriptors in use.
OpenSlots == {i \in Slots : file_descriptors[i] # NULL}

\* try_get_file_descriptor: a number outside the table is no descriptor.
Valid(fd) ==
  /\ fd >= 0 /\ fd < file_descriptor_count
  /\ file_descriptors[fd] # NULL

Position(d) == d.current_block * BLOCK_SIZE + d.block_offset

throw_error(specific_error) == ufs_error_code' = specific_error

\* A call that succeeds leaves the error code alone.
Success == UNCHANGED ufs_error_code

-----------------------------------------------------------------------------
(***************************************************************************)
(* Opening                                                                 *)
(***************************************************************************)

\* A mistake to be caught: a file that is open is not found.
FindClosed(n) == {f \in file_list : name[f] = n /\ refs[f] = 0}

try_get_file_by_filename(n) == {f \in file_list : name[f] = n}

\* try_get_empty_file_descriptor_slot: the first hole below the end.
Holes == {i \in 0..(file_descriptor_count - 1) : file_descriptors[i] = NULL}

FirstHole == CHOOSE i \in Holes : \A j \in Holes : i <= j

\* A mistake to be caught: the table is not extended when it is full.
GrowTableNever == UNCHANGED file_descriptor_capacity

\* Lines 117-125: the table is created with one place and doubled when full.
GrowTable ==
  LET capacity == IF file_descriptor_capacity = 0 THEN 1 ELSE file_descriptor_capacity
  IN  file_descriptor_capacity' =
        IF capacity = file_descriptor_count THEN capacity * 2 ELSE capacity

add_file_descriptor(d) ==
  \/ /\ Holes # {}
     /\ file_descriptors' = [file_descriptors EXCEPT ![FirstHole] = d]
     /\ UNCHANGED <<file_descriptor_count, file_descriptor_capacity>>
  \/ /\ Holes = {}
     /\ file_descriptor_count < FD_BOUND
     /\ GrowTable
     /\ file_descriptors' = [file_descriptors EXCEPT ![file_descriptor_count] = d]
     /\ file_descriptor_count' = file_descriptor_count + 1

create_file(n, f) ==
  /\ f \notin files
  /\ files' = files \cup {f}
  /\ file_list' = file_list \cup {f}
  /\ name' = [name EXCEPT ![f] = n]
  /\ blocks' = [blocks EXCEPT ![f] = <<NewBlock>>]
  /\ occupied' = [occupied EXCEPT ![f] = 0]

AddRef(f) == refs' = [refs EXCEPT ![f] = @ + 1]

ufs_open(n, flags) ==
  /\ pc = "idle"
  /\ \/ /\ try_get_file_by_filename(n) = {}
        /\ "UFS_CREATE" \notin flags
        /\ throw_error("UFS_ERR_NO_FILE")
        /\ UNCHANGED <<fileVars, dataVars, descVars>>
     \/ \E f \in Files :
          /\ \/ /\ f \in try_get_file_by_filename(n)
                /\ UNCHANGED <<files, file_list, name, dataVars>>
             \/ /\ try_get_file_by_filename(n) = {}
                /\ "UFS_CREATE" \in flags
                /\ create_file(n, f)
          /\ AddRef(f)
          /\ add_file_descriptor([file |-> f, current_block |-> 0, block_offset |-> 0,
                                  flags |-> flags])
          /\ Success
          /\ UNCHANGED marked_for_deletion
  /\ UNCHANGED ioVars

-----------------------------------------------------------------------------
(***************************************************************************)
(* Reading and writing                                                     *)
(***************************************************************************)

StartLoop(call, fd, count) ==
  /\ pc' = call
  /\ io_fd' = fd
  /\ io_size' = count
  /\ io_left' = count
  /\ Success
  /\ UNCHANGED buf

\* Lines 283-285, in int arithmetic.
WriteOverLimit(d, size) == ToInt(Position(d) + size) > MAX_FILE_SIZE

specific_flag_is_present(flags, flag) == flag \in flags

ufs_write(fd, size) ==
  /\ pc = "idle"
  /\ \/ /\ ~ Valid(fd)
        /\ throw_error("UFS_ERR_NO_FILE")
        /\ UNCHANGED ioVars
     \/ /\ Valid(fd)
        /\ LET d == file_descriptors[fd]
           IN  \/ /\ specific_flag_is_present(d.flags, "UFS_READ_ONLY")
                  /\ throw_error("UFS_ERR_NO_PERMISSION")
                  /\ UNCHANGED ioVars
               \/ /\ ~ specific_flag_is_present(d.flags, "UFS_READ_ONLY")
                  /\ WriteOverLimit(d, ToInt(size))
                  /\ throw_error("UFS_ERR_NO_MEM")
                  /\ UNCHANGED ioVars
               \/ /\ ~ specific_flag_is_present(d.flags, "UFS_READ_ONLY")
                  /\ ~ WriteOverLimit(d, ToInt(size))
                  /\ StartLoop("write", fd, ToInt(size))
  /\ UNCHANGED <<fileVars, dataVars, descVars>>

\* read_via_descriptor: what is left of the file, or what was asked for.
ReadCount(d, size) ==
  LET left == Size(d.file) - Position(d)
  IN  IF size > left THEN left ELSE size

ufs_read(fd, size) ==
  /\ pc = "idle"
  /\ \/ /\ ~ Valid(fd)
        /\ throw_error("UFS_ERR_NO_FILE")
        /\ UNCHANGED ioVars
     \/ /\ Valid(fd)
        /\ LET d == file_descriptors[fd]
           IN  \/ /\ specific_flag_is_present(d.flags, "UFS_WRITE_ONLY")
                  /\ throw_error("UFS_ERR_NO_PERMISSION")
                  /\ UNCHANGED ioVars
               \/ /\ ~ specific_flag_is_present(d.flags, "UFS_WRITE_ONLY")
                  /\ StartLoop("read", fd, ReadCount(d, ToInt(size)))
  /\ UNCHANGED <<fileVars, dataVars, descVars>>

\* advance_descriptor: the next byte, in the next block if this one is done,
\* in a new block if it was the last.  mem and occ are the file's blocks and
\* occupied count by now.
AdvanceDescriptor(fd, mem, occ) ==
  LET d == file_descriptors[fd]
      f == d.file
      Moved(block, offset) ==
        file_descriptors' = [file_descriptors EXCEPT
          ![fd].current_block = block, ![fd].block_offset = offset]
  IN  \/ /\ d.block_offset + 1 # BLOCK_SIZE
         /\ Moved(d.current_block, d.block_offset + 1)
         /\ blocks' = [blocks EXCEPT ![f] = mem]
         /\ occupied' = [occupied EXCEPT ![f] = occ]
      \/ /\ d.block_offset + 1 = BLOCK_SIZE
         /\ d.current_block # LastBlock(f)
         /\ Moved(d.current_block + 1, 0)
         /\ blocks' = [blocks EXCEPT ![f] = mem]
         /\ occupied' = [occupied EXCEPT ![f] = occ]
      \/ /\ d.block_offset + 1 = BLOCK_SIZE
         /\ d.current_block = LastBlock(f)
         /\ Moved(d.current_block + 1, 0)
         /\ blocks' = [blocks EXCEPT ![f] = Append(mem, NewBlock)]
         /\ occupied' = [occupied EXCEPT ![f] = 0]

\* A mistake to be caught: a byte written past the end does not count.
OccupiedUncounted(d) == occupied[d.file]

\* write_single_byte: only a byte at the very end makes the file longer.
OccupiedAfterWrite(d) ==
  LET f == d.file
  IN  IF d.current_block = LastBlock(f) /\ d.block_offset = occupied[f]
      THEN occupied[f] + 1 ELSE occupied[f]

WriteByte(b) ==
  LET d == file_descriptors[io_fd]
  IN  /\ pc = "write"
      /\ io_left > 0
      /\ AdvanceDescriptor(io_fd,
           [blocks[d.file] EXCEPT ![d.current_block + 1][d.block_offset] = b],
           OccupiedAfterWrite(d))
      /\ buf' = b
      /\ io_left' = io_left - 1
      /\ UNCHANGED <<fileVars, file_descriptor_count, file_descriptor_capacity,
                     ufs_error_code, pc, io_fd, io_size>>

ReadByte ==
  LET d == file_descriptors[io_fd]
  IN  /\ pc = "read"
      /\ io_left > 0
      /\ AdvanceDescriptor(io_fd, blocks[d.file], occupied[d.file])
      /\ buf' = blocks[d.file][d.current_block + 1][d.block_offset]
      /\ io_left' = io_left - 1
      /\ UNCHANGED <<fileVars, file_descriptor_count, file_descriptor_capacity,
                     ufs_error_code, pc, io_fd, io_size>>

\* The loop is over: the call returns its count.
EndLoop ==
  /\ pc \in {"write", "read"}
  /\ io_left <= 0
  /\ pc' = "idle"
  /\ Success
  /\ io_fd' = 0 /\ io_size' = 0 /\ io_left' = 0 /\ buf' = GARBAGE
  /\ UNCHANGED <<fileVars, dataVars, descVars>>

-----------------------------------------------------------------------------
(***************************************************************************)
(* Closing, deleting, resizing                                             *)
(***************************************************************************)

\* delete_file for every file of S; the fields of a freed file take one fixed
\* value each.
FreeFiles(S) ==
  /\ files' = files \ S
  /\ marked_for_deletion' = marked_for_deletion \ S
  /\ name' = [f \in Files |-> IF f \in S THEN NULL ELSE name[f]]
  /\ blocks' = [f \in Files |-> IF f \in S THEN <<>> ELSE blocks[f]]
  /\ occupied' = [f \in Files |-> IF f \in S THEN 0 ELSE occupied[f]]

\* A mistake to be caught: a deleted file is not reclaimed by the last close.
ReclaimNever(f) == FALSE

\* Line 157, with the reference already given back.
Reclaim(f) == f \in marked_for_deletion /\ refs[f] - 1 = 0

ufs_close(fd) ==
  /\ pc = "idle"
  /\ \/ /\ ~ Valid(fd)
        /\ throw_error("UFS_ERR_NO_FILE")
        /\ UNCHANGED <<fileVars, dataVars, descVars>>
     \/ /\ Valid(fd)
        /\ LET f == file_descriptors[fd].file
           IN  /\ refs' = [refs EXCEPT ![f] = @ - 1]
               /\ FreeFiles({g \in {f} : Reclaim(g)})
        /\ file_descriptors' = [file_descriptors EXCEPT ![fd] = NULL]
        /\ Success
        /\ UNCHANGED <<file_list, file_descriptor_count, file_descriptor_capacity>>
  /\ UNCHANGED ioVars

FreeOnDelete(f) == refs[f] = 0

ufs_delete(n) ==
  /\ pc = "idle"
  /\ \/ /\ try_get_file_by_filename(n) = {}
        /\ throw_error("UFS_ERR_NO_FILE")
        /\ UNCHANGED <<fileVars, dataVars>>
     \/ \E f \in try_get_file_by_filename(n) :
          /\ file_list' = file_list \ {f}
          /\ \/ /\ FreeOnDelete(f)
                /\ FreeFiles({f})
             \/ /\ ~ FreeOnDelete(f)
                /\ marked_for_deletion' = marked_for_deletion \cup {f}
                /\ UNCHANGED <<files, name, dataVars>>
          /\ Success
          /\ UNCHANGED refs
  /\ UNCHANGED <<descVars, ioVars>>

\* Every descriptor is closed, which frees the files that were deleted before,
\* then every file of the list is.
ufs_destroy ==
  /\ pc = "idle"
  /\ pc' = "destroyed"
  /\ refs' = [f \in Files |-> refs[f] - Cardinality({i \in OpenSlots :
                                                      file_descriptors[i].file = f})]
  /\ FreeFiles({f \in files : f \in file_list \/ (f \in marked_for_deletion /\ refs[f] > 0
                                                  /\ refs'[f] = 0)})
  /\ file_list' = {}
  /\ file_descriptors' = [i \in Slots |-> NULL]
  /\ UNCHANGED <<file_descriptor_count, file_descriptor_capacity, ufs_error_code,
                 io_fd, io_size, io_left, buf>>

\* A mistake to be caught: only descriptors in removed blocks are moved.
BehindByBlock(d, block, offset) == d.current_block > block

\* Lines 382-386: is the descriptor behind the new end of the file?
Behind(d, block, offset) ==
  \/ d.current_block > block
  \/ d.current_block = block /\ d.block_offset > offset

\* reduce_file_size, which serves to grow as well: the last block is the one
\* that holds byte new_size, or the one that was.
reduce_file_size(f, new_size) ==
  LET block  == IF new_size \div BLOCK_SIZE < LastBlock(f)
                THEN new_size \div BLOCK_SIZE ELSE LastBlock(f)
      offset == new_size - block * BLOCK_SIZE
  IN  /\ blocks' = [blocks EXCEPT ![f] = SubSeq(@, 1, block + 1)]
      /\ occupied' = [occupied EXCEPT ![f] = offset]
      /\ file_descriptors' = [i \in Slots |->
           IF i \in OpenSlots /\ file_descriptors[i].file = f
              /\ Behind(file_descriptors[i], block, offset)
           THEN [file_descriptors[i] EXCEPT !.current_block = block,
                                           !.block_offset = offset]
           ELSE file_descriptors[i]]

ufs_resize(fd, new_size) ==
  /\ pc = "idle"
  /\ \/ /\ ~ Valid(fd)
        /\ throw_error("UFS_ERR_NO_FILE")
        /\ UNCHANGED <<dataVars, file_descriptors>>
     \/ /\ Valid(fd)
        /\ new_size >= MAX_FILE_SIZE
        /\ throw_error("UFS_ERR_NO_MEM")
        /\ UNCHANGED <<dataVars, file_descriptors>>
     \/ /\ Valid(fd)
        /\ new_size < MAX_FILE_SIZE
        /\ Grow \/ new_size < Len(blocks[file_descriptors[fd].file]) * BLOCK_SIZE
        /\ reduce_file_size(file_descriptors[fd].file, new_size)
        /\ Success
  /\ UNCHANGED <<fileVars, file_descriptor_count, file_descriptor_capacity, ioVars>>

-----------------------------------------------------------------------------
(***************************************************************************)
(* Specification                                                           *)
(***************************************************************************)

IOStep == (\E b \in Byte : WriteByte(b)) \/ ReadByte \/ EndLoop

Next ==
  \/ \E n \in Names, flags \in FlagSets : ufs_open(n, flags)
  \/ \E fd \in -1..FD_BOUND, size \in Sizes :
       ufs_write(fd, size) \/ ufs_read(fd, size) \/ ufs_resize(fd, size)
  \/ \E fd \in -1..FD_BOUND : ufs_close(fd)
  \/ \E n \in Names : ufs_delete(n)
  \/ ufs_destroy
  \/ IOStep

Spec == Init /\ [][Next]_vars

-----------------------------------------------------------------------------
(***************************************************************************)
(* Invariants                                                              *)
(***************************************************************************)

\* The variables have the types of the fields they model.
TypeOK ==
  /\ files \subseteq Files
  /\ file_list \subseteq files
  /\ name \in [Files -> Names \cup {NULL}]
  /\ refs \in [Files -> 0..FD_BOUND]
  /\ marked_for_deletion \subseteq files
  /\ blocks \in [Files -> Seq([Offsets -> Cell])]
  /\ occupied \in [Files -> Nat]
  /\ file_descriptors \in [Slots -> Descriptor \cup {NULL}]
  /\ file_descriptor_count \in 0..FD_BOUND
  /\ file_descriptor_capacity \in 0..(2 * FD_BOUND)
  /\ ufs_error_code \in {"UFS_ERR_NO_ERR", "UFS_ERR_NO_FILE", "UFS_ERR_NO_MEM",
                         "UFS_ERR_NO_PERMISSION"}
  /\ pc \in {"idle", "write", "read", "destroyed"}
  /\ io_fd \in Slots \cup {0} /\ io_size \in Int /\ io_left \in Int

\* The table never outgrows the memory allocated for it, and add_file_descriptor
\* finds every free place below its end: nothing is open beyond it.
TableInBounds ==
  /\ file_descriptor_count <= file_descriptor_capacity
  /\ \A i \in OpenSlots : i < file_descriptor_count

\* refs counts the open descriptors of a file, so a file that descriptors still
\* lead to is never freed, by ufs_delete or by the close of another descriptor.
RefsExact ==
  /\ \A f \in files : refs[f] = Cardinality({i \in OpenSlots : file_descriptors[i].file = f})
  /\ \A i \in OpenSlots : file_descriptors[i].file \in files

\* A file that no name leads to is held by a descriptor, and ufs_destroy leaves
\* neither files nor descriptors: no struct file is leaked.
NoLeakedFile ==
  /\ \A f \in files \ file_list : refs[f] > 0 /\ f \in marked_for_deletion
  /\ pc = "destroyed" => files = {} /\ OpenSlots = {}

\* A name leads to one file, also when files of that name were deleted while
\* open; so the order of file_list does not matter.
UniqueNames ==
  /\ \A f, g \in file_list : name[f] = name[g] => f = g
  /\ file_list \cap marked_for_deletion = {}

\* Every descriptor is inside its file's block list and not behind its end:
\* truncation by one descriptor never leaves another on a freed block, and the
\* last block always has room for the next byte.
PositionInFile ==
  /\ \A f \in files : Len(blocks[f]) > 0 /\ occupied[f] < BLOCK_SIZE
  /\ \A i \in OpenSlots :
       LET d == file_descriptors[i]
       IN  /\ d.current_block \in 0..LastBlock(d.file)
           /\ d.block_offset \in Offsets
           /\ Position(d) <= Size(d.file)

\* No sequence of writes and resizes makes a file longer than MAX_FILE_SIZE.
SizeLimit == \A f \in files : Size(f) <= MAX_FILE_SIZE

\* A loop ends where its check said: a write at MAX_FILE_SIZE at most, a read
\* at the end of the file, so that reading never creates blocks; and every byte
\* moved is one of a block.
LoopInBounds ==
  LET d == file_descriptors[io_fd]
  IN  /\ pc \in {"write", "read"} => Valid(io_fd) /\ io_left >= 0
      /\ pc = "write" => Position(d) + io_left <= MAX_FILE_SIZE
      /\ pc = "read" => Position(d) + io_left <= Size(d.file)
      /\ buf \in Cell

\* Where descriptors point, how far files grow and where loops stop fit together
\* at every boundary of a block and of a file, and every field keeps its type.
WithinLimits == TypeOK /\ PositionInFile /\ SizeLimit /\ LoopInBounds

\* A struct file is kept exactly as long as a name or a descriptor leads to it.
FilesHeldExactly == RefsExact /\ NoLeakedFile

-----------------------------------------------------------------------------
(***************************************************************************)
(* Refinement: blocks, reference counts and marks implement FileSystem.    *)
(***************************************************************************)

\* The bytes of a file, read off its block list.
Bytes(f) ==
  IF f \in files
  THEN [k \in 1..Size(f) |-> blocks[f][(k - 1) \div BLOCK_SIZE + 1][(k - 1) % BLOCK_SIZE]]
  ELSE <<>>

\* The file a name leads to, if there is one.
Lookup(n) ==
  IF try_get_file_by_filename(n) = {} THEN NULL
  ELSE CHOOSE f \in try_get_file_by_filename(n) : TRUE

Promise == INSTANCE FileSystem WITH
  exists <- files,
  directory <- [n \in Names |-> Lookup(n)],
  content <- [f \in Files |-> Bytes(f)],
  table <- [i \in Slots |->
             IF file_descriptors[i] = NULL THEN NULL
             ELSE [file |-> file_descriptors[i].file,
                   pos |-> Position(file_descriptors[i])]]

\* Every step of the file system is one that userfs.h allows: each byte goes
\* where the position says, nobody else's bytes or positions change, and a
\* deleted file keeps its content until its last descriptor is closed.
ImplementsFileSystem == Promise!Spec

-----------------------------------------------------------------------------
(***************************************************************************)
(* What the documentation promises and the code does not keep              *)
(***************************************************************************)

\* userfs.h: a resize that grows a file creates the blocks it needs, so the
\* bytes a file counts are in its blocks.
GrownBlocksExist == \A f \in files : occupied[f] <= BLOCK_SIZE
=============================================================================
