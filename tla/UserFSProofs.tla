---------------------------- MODULE UserFSProofs ----------------------------
(***************************************************************************)
(* Proofs about module UserFS, for any number of names, files, descriptors *)
(* and bytes, any block size and any limit on the size of a file.          *)
(***************************************************************************)
EXTENDS UserFS, TLAPS, FiniteSetTheorems, SequenceTheorems

-----------------------------------------------------------------------------
(***************************************************************************)
(* Helpers                                                                 *)
(***************************************************************************)

\* A set of natural numbers that is not empty has a least element.
LEMMA LeastElement ==
  ASSUME NEW S, S \subseteq Nat, S # {}
  PROVE  \E i \in S : \A j \in S : i <= j
  <1> DEFINE R == OpToRel(<, Nat)
  <1>1. IsWellFoundedOn(R, Nat)
    BY NatLessThanWellFounded
  <1>2. \A i, j \in Nat : j < i => <<j, i>> \in R
    BY Zenon DEF OpToRel
  <1> HIDE DEF R
  <1>3. PICK i \in S : \A j \in S : ~ (<<j, i>> \in R)
    BY <1>1, WFMin
  <1>4. \A j \in S : ~ (j < i)
    BY Zenon, <1>2, <1>3
  <1>5. \A j \in S : i <= j
    BY <1>4
  <1> QED BY <1>5

\* try_get_empty_file_descriptor_slot finds a hole if there is one.
LEMMA FirstHoleIsHole ==
  ASSUME file_descriptor_count \in Nat, Holes # {}
  PROVE  FirstHole \in Holes
  <1>1. Holes \subseteq Nat
    BY DEF Holes
  <1>2. \E i \in Holes : \A j \in Holes : i <= j
    BY <1>1, LeastElement
  <1> QED BY <1>2 DEF FirstHole

\* The descriptors of a table that lead to file f.
Holders(table, f) == {i \in Slots : table[i] # NULL /\ table[i].file = f}

\* There are at most as many as the table has places.
LEMMA HoldersFinite ==
  ASSUME NEW table, NEW f
  PROVE  IsFiniteSet(Holders(table, f)) /\ Cardinality(Holders(table, f)) \in 0..FD_BOUND
  <1>1. IsFiniteSet(Slots) /\ Cardinality(Slots) = FD_BOUND
    BY FS_Interval, UserFSAssumption DEF Slots
  <1>2. Holders(table, f) \in SUBSET Slots
    BY DEF Holders
  <1>3. IsFiniteSet(Holders(table, f)) /\ Cardinality(Holders(table, f)) <= FD_BOUND
    BY <1>1, <1>2, FS_Subset
  <1>4. Cardinality(Holders(table, f)) \in Nat
    BY <1>3, FS_CardinalityType
  <1> QED BY <1>3, <1>4, UserFSAssumption

\* Filling a place gives one file a holder more.
LEMMA HoldersAdd ==
  ASSUME NEW table \in [Slots -> Descriptor \cup {NULL}],
         NEW i \in Slots, table[i] = NULL, NEW d \in Descriptor, NEW f
  PROVE  Cardinality(Holders([table EXCEPT ![i] = d], f))
           = Cardinality(Holders(table, f)) + (IF d.file = f THEN 1 ELSE 0)
  <1> DEFINE H == Holders(table, f)
  <1>1. d # NULL
    BY NullAssumption
  <1>2. i \notin H
    BY DEF Holders
  <1>3. Holders([table EXCEPT ![i] = d], f) = IF d.file = f THEN H \cup {i} ELSE H
    BY <1>1 DEF Holders
  <1>4. IsFiniteSet(H) /\ Cardinality(H) \in Int
    BY HoldersFinite
  <1> HIDE DEF H
  <1>5. Cardinality(H \cup {i}) = Cardinality(H) + 1
    BY <1>2, <1>4, FS_AddElement
  <1>6. CASE d.file = f
    BY <1>3, <1>5, <1>6 DEF H
  <1>7. CASE d.file # f
    BY <1>3, <1>4, <1>7 DEF H
  <1> QED BY <1>6, <1>7

\* Clearing a place takes one away.
LEMMA HoldersRemove ==
  ASSUME NEW table \in [Slots -> Descriptor \cup {NULL}],
         NEW i \in Slots, table[i] # NULL, NEW f
  PROVE  Cardinality(Holders([table EXCEPT ![i] = NULL], f))
           = Cardinality(Holders(table, f)) - (IF table[i].file = f THEN 1 ELSE 0)
  <1> DEFINE H == Holders(table, f)
  <1>1. Holders([table EXCEPT ![i] = NULL], f) = IF table[i].file = f THEN H \ {i} ELSE H
    BY DEF Holders
  <1>2. i \in H <=> table[i].file = f
    BY DEF Holders
  <1>3. IsFiniteSet(H) /\ Cardinality(H) \in Int
    BY HoldersFinite
  <1> HIDE DEF H
  <1>4. i \in H => Cardinality(H \ {i}) = Cardinality(H) - 1
    BY <1>3, FS_RemoveElement
  <1>5. CASE table[i].file = f
    BY <1>1, <1>2, <1>4, <1>5 DEF H
  <1>6. CASE table[i].file # f
    BY <1>1, <1>3, <1>6 DEF H
  <1> QED BY <1>5, <1>6

\* Moving a descriptor inside its file changes no holder.
LEMMA HoldersSame ==
  ASSUME NEW table, NEW table2, NEW f,
         \A i \in Slots : table2[i] # NULL <=> table[i] # NULL,
         \A i \in Slots : table[i] # NULL => table2[i].file = table[i].file
  PROVE  Holders(table2, f) = Holders(table, f)
  BY DEF Holders

\* A file nobody holds has no holders to count.
LEMMA NoHolders ==
  ASSUME NEW table, NEW f, Cardinality(Holders(table, f)) = 0
  PROVE  \A i \in Slots : table[i] # NULL => table[i].file # f
  <1>1. Holders(table, f) = {}
    BY HoldersFinite, FS_EmptySet
  <1> QED BY <1>1 DEF Holders

-----------------------------------------------------------------------------
(***************************************************************************)
(* The invariant about files and descriptors, whatever the sizes           *)
(***************************************************************************)

\* refs counts the holders of every address, also of those that hold no file.
RefsCounted ==
  /\ \A f \in Files : refs[f] = Cardinality(Holders(file_descriptors, f))
  /\ \A i \in Slots : file_descriptors[i] # NULL => file_descriptors[i].file \in files

HasBlocks == \A f \in files : Len(blocks[f]) > 0

\* A loop has its descriptor.
LoopHasDescriptor == pc \in {"write", "read"} => Valid(io_fd)

FInv ==
  /\ TypeOK
  /\ TableInBounds
  /\ RefsCounted
  /\ NoLeakedFile
  /\ UniqueNames
  /\ HasBlocks
  /\ LoopHasDescriptor

USE DEF vars, fileVars, dataVars, descVars, ioVars

\* What the rest of the proofs need of the constants.
LEMMA Constants ==
  /\ BLOCK_SIZE \in Nat /\ BLOCK_SIZE > 0 /\ FD_BOUND \in Nat
  /\ INT_MAX \in Nat /\ MAX_FILE_SIZE \in Nat
  BY UserFSAssumption

\* A fresh block is memory of the right size.
LEMMA NewBlockType == NewBlock \in [Offsets -> Cell]
  BY DEF NewBlock, Cell

\* At the start there is nothing.
LEMMA InitFInv == Init => FInv
  <1> SUFFICES ASSUME Init PROVE FInv
    OBVIOUS
  <1>1. TypeOK
    BY Constants, EmptySeq DEF Init, TypeOK, Cell
  <1>2. RefsCounted
    <2>1. \A f \in Files : Holders(file_descriptors, f) = {}
      BY DEF Init, Holders
    <2> QED BY <2>1, FS_EmptySet DEF Init, RefsCounted
  <1> QED BY <1>1, <1>2 DEF Init, FInv, TableInBounds, OpenSlots, NoLeakedFile, UniqueNames,
                            HasBlocks, LoopHasDescriptor

-----------------------------------------------------------------------------
(***************************************************************************)
(* Every step keeps it                                                     *)
(***************************************************************************)

\* Steps that change nothing but the error code and an idle loop.
LEMMA QuietFInv ==
  ASSUME FInv, UNCHANGED <<fileVars, dataVars, descVars>>,
         ufs_error_code' \in {"UFS_ERR_NO_ERR", "UFS_ERR_NO_FILE", "UFS_ERR_NO_MEM",
                              "UFS_ERR_NO_PERMISSION"},
         pc' \in {"idle", "write", "read", "destroyed"},
         pc' = "destroyed" => pc = "destroyed",
         pc' \in {"write", "read"} => Valid(io_fd'),
         io_fd' \in Slots \cup {0}, io_size' \in Int, io_left' \in Int
  PROVE  FInv'
  <1> USE DEF FInv
  <1>1. TypeOK'
    BY DEF TypeOK
  <1>2. TableInBounds' /\ UniqueNames' /\ HasBlocks'
    BY DEF TableInBounds, OpenSlots, UniqueNames, try_get_file_by_filename, HasBlocks
  <1>3. RefsCounted' /\ NoLeakedFile'
    BY DEF RefsCounted, Holders, NoLeakedFile, OpenSlots
  <1>4. LoopHasDescriptor'
    BY DEF LoopHasDescriptor, Valid
  <1> QED BY <1>1, <1>2, <1>3, <1>4

\* A valid descriptor number is an index of the table in use.
LEMMA ValidSlot ==
  ASSUME FInv, NEW fd \in Int, Valid(fd)
  PROVE  /\ fd \in Slots /\ file_descriptors[fd] \in Descriptor
         /\ file_descriptors[fd].file \in files
  BY Constants DEF Valid, FInv, TypeOK, Slots, RefsCounted

\* (int) of a size is an integer.
LEMMA ToIntType == \A n \in Int : ToInt(n) \in Int
  BY Constants DEF ToInt

\* The size of a file and the position of a descriptor are integers.
LEMMA SizeType ==
  ASSUME TypeOK
  PROVE  /\ \A f \in Files : LastBlock(f) \in Int /\ Size(f) \in Int
         /\ \A d \in Descriptor : Position(d) \in Int
  <1>1. \A f \in Files : LastBlock(f) \in Int
    BY LenProperties DEF TypeOK, LastBlock
  <1>2. \A f \in Files : Size(f) \in Int
    BY <1>1, Constants DEF TypeOK, Size
  <1>3. \A d \in Descriptor : Position(d) \in Int
    BY Constants DEF Position, Descriptor
  <1> QED BY <1>1, <1>2, <1>3

\* ufs_write and ufs_read up to the loop, and the end of the loop.
LEMMA StartFInv ==
  ASSUME FInv, NEW fd \in -1..FD_BOUND, NEW size \in Sizes,
         ufs_write(fd, size) \/ ufs_read(fd, size)
  PROVE  FInv'
  <1>0. fd \in Int /\ size \in Int
    BY Constants, UserFSAssumption
  <1>1. ToInt(size) \in Int
    BY <1>0, ToIntType
  <1>2. UNCHANGED <<fileVars, dataVars, descVars>>
    BY DEF ufs_write, ufs_read
  <1>3. ufs_error_code' \in {"UFS_ERR_NO_ERR", "UFS_ERR_NO_FILE", "UFS_ERR_NO_MEM",
                             "UFS_ERR_NO_PERMISSION"}
    BY DEF ufs_write, ufs_read, StartLoop, Success, throw_error, FInv, TypeOK
  <1>4. CASE UNCHANGED ioVars
    BY <1>2, <1>3, <1>4, QuietFInv DEF FInv, TypeOK, LoopHasDescriptor, Valid
  <1>5. CASE ufs_write(fd, size) /\ ~ UNCHANGED ioVars
    <2>1. Valid(fd) /\ StartLoop("write", fd, ToInt(size))
      BY <1>5 DEF ufs_write
    <2>2. fd \in Slots
      BY <1>0, <2>1, ValidSlot
    <2> QED BY <1>1, <1>2, <1>3, <2>1, <2>2, QuietFInv DEF StartLoop
  <1>6. CASE ufs_read(fd, size) /\ ~ UNCHANGED ioVars
    <2> DEFINE n == ReadCount(file_descriptors[fd], ToInt(size))
    <2>1. Valid(fd) /\ StartLoop("read", fd, n)
      BY <1>6 DEF ufs_read
    <2>2. fd \in Slots /\ file_descriptors[fd] \in Descriptor
      BY <1>0, <2>1, ValidSlot
    <2>3. n \in Int
      BY <1>1, <2>2, SizeType DEF ReadCount, FInv, Descriptor
    <2> HIDE DEF n
    <2> QED BY <1>2, <1>3, <2>1, <2>2, <2>3, QuietFInv DEF StartLoop
  <1> QED BY <1>4, <1>5, <1>6

\* The loop returns.
LEMMA EndLoopFInv == FInv /\ EndLoop => FInv'
  <1> SUFFICES ASSUME FInv, EndLoop PROVE FInv'
    OBVIOUS
  <1> QED BY QuietFInv DEF EndLoop, Success, FInv, TypeOK

\* add_file_descriptor fills a free place of a table that has room for it.
LEMMA AddDescriptor ==
  ASSUME FInv, NEW d \in Descriptor, add_file_descriptor(d)
  PROVE  \E s \in Slots :
           /\ file_descriptors[s] = NULL
           /\ file_descriptors' = [file_descriptors EXCEPT ![s] = d]
           /\ s < file_descriptor_count'
           /\ file_descriptor_count <= file_descriptor_count'
           /\ file_descriptor_count' \in 0..FD_BOUND
           /\ file_descriptor_capacity' \in 0..(2 * FD_BOUND)
           /\ file_descriptor_count' <= file_descriptor_capacity'
  <1>1. /\ file_descriptor_count \in 0..FD_BOUND
        /\ file_descriptor_capacity \in 0..(2 * FD_BOUND)
        /\ file_descriptor_count <= file_descriptor_capacity
        /\ FD_BOUND \in Nat
    BY Constants DEF FInv, TypeOK, TableInBounds
  <1>2. CASE Holes # {}
    <2>1. FirstHole \in Holes
      BY <1>1, <1>2, FirstHoleIsHole
    <2>2. FirstHole \in Slots /\ FirstHole < file_descriptor_count
          /\ file_descriptors[FirstHole] = NULL
      BY <1>1, <2>1 DEF Holes, Slots
    <2>3. /\ file_descriptors' = [file_descriptors EXCEPT ![FirstHole] = d]
          /\ UNCHANGED <<file_descriptor_count, file_descriptor_capacity>>
      BY <1>2 DEF add_file_descriptor
    <2>4. /\ file_descriptors[FirstHole] = NULL
          /\ file_descriptors' = [file_descriptors EXCEPT ![FirstHole] = d]
          /\ FirstHole < file_descriptor_count'
          /\ file_descriptor_count <= file_descriptor_count'
          /\ file_descriptor_count' \in 0..FD_BOUND
          /\ file_descriptor_capacity' \in 0..(2 * FD_BOUND)
          /\ file_descriptor_count' <= file_descriptor_capacity'
      BY <1>1, <2>1, <2>2, <2>3
    <2> QED BY <2>2, <2>4, Zenon
  <1>3. CASE Holes = {}
    <2>1. /\ file_descriptor_count < FD_BOUND
          /\ GrowTable
          /\ file_descriptors' = [file_descriptors EXCEPT ![file_descriptor_count] = d]
          /\ file_descriptor_count' = file_descriptor_count + 1
      BY <1>3 DEF add_file_descriptor
    <2>2. file_descriptor_count \in Slots /\ file_descriptors[file_descriptor_count] = NULL
      <3>1. file_descriptor_count \in Slots
        BY <1>1, <2>1 DEF Slots
      <3> QED BY <1>1, <3>1 DEF FInv, TableInBounds, OpenSlots
    <2>3. /\ file_descriptor_capacity' \in 0..(2 * FD_BOUND)
          /\ file_descriptor_count + 1 <= file_descriptor_capacity'
      BY <1>1, <2>1 DEF GrowTable
    <2>4. /\ file_descriptors[file_descriptor_count] = NULL
          /\ file_descriptors' = [file_descriptors EXCEPT ![file_descriptor_count] = d]
          /\ file_descriptor_count < file_descriptor_count'
          /\ file_descriptor_count <= file_descriptor_count'
          /\ file_descriptor_count' \in 0..FD_BOUND
          /\ file_descriptor_capacity' \in 0..(2 * FD_BOUND)
          /\ file_descriptor_count' <= file_descriptor_capacity'
      BY <1>1, <2>1, <2>2, <2>3
    <2> QED BY <2>2, <2>4, Zenon
  <1> QED BY <1>2, <1>3

\* ufs_open: an old file gets one holder more, a new one its first.
LEMMA OpenFInv ==
  ASSUME FInv, NEW n \in Names, NEW flags \in FlagSets, ufs_open(n, flags)
  PROVE  FInv'
  <1> DEFINE found == try_get_file_by_filename(n)
  <1>1. pc = "idle" /\ UNCHANGED ioVars
    BY DEF ufs_open
  <1>2. CASE throw_error("UFS_ERR_NO_FILE") /\ UNCHANGED <<fileVars, dataVars, descVars>>
    BY <1>1, <1>2, QuietFInv DEF throw_error, FInv, TypeOK
  <1>3. CASE \E f \in Files :
               /\ \/ f \in found /\ UNCHANGED <<files, file_list, name, dataVars>>
                  \/ found = {} /\ create_file(n, f)
               /\ AddRef(f)
               /\ add_file_descriptor([file |-> f, current_block |-> 0,
                                       block_offset |-> 0, flags |-> flags])
               /\ Success
               /\ UNCHANGED marked_for_deletion
    <2>1. PICK f \in Files :
               /\ \/ f \in found /\ UNCHANGED <<files, file_list, name, dataVars>>
                  \/ found = {} /\ create_file(n, f)
               /\ AddRef(f)
               /\ add_file_descriptor([file |-> f, current_block |-> 0,
                                       block_offset |-> 0, flags |-> flags])
               /\ Success
               /\ UNCHANGED marked_for_deletion
      BY <1>3
    <2> DEFINE d == [file |-> f, current_block |-> 0, block_offset |-> 0, flags |-> flags]
    <2>2. d \in Descriptor /\ d.file = f
      BY UserFSAssumption DEF Descriptor
    <2> HIDE DEF d
    <2>3. PICK s \in Slots :
           /\ file_descriptors[s] = NULL
           /\ file_descriptors' = [file_descriptors EXCEPT ![s] = d]
           /\ s < file_descriptor_count'
           /\ file_descriptor_count <= file_descriptor_count'
           /\ file_descriptor_count' \in 0..FD_BOUND
           /\ file_descriptor_capacity' \in 0..(2 * FD_BOUND)
           /\ file_descriptor_count' <= file_descriptor_capacity'
      BY <2>1, <2>2, AddDescriptor DEF d
    <2>4. /\ files \subseteq files' /\ f \in files' /\ files' \subseteq files \cup {f}
          /\ file_list' \subseteq files' /\ marked_for_deletion' = marked_for_deletion
          /\ files' \ file_list' = files \ file_list
      BY <2>1 DEF create_file, try_get_file_by_filename, FInv, TypeOK
    <2>5. refs' = [refs EXCEPT ![f] = @ + 1]
      BY <2>1 DEF AddRef
    <2>6. RefsCounted'
      <3>1. ASSUME NEW g \in Files
            PROVE  refs'[g] = Cardinality(Holders(file_descriptors', g))
        <4>1. refs'[g] = refs[g] + (IF f = g THEN 1 ELSE 0)
          BY <2>5 DEF FInv, TypeOK
        <4>2. file_descriptors \in [Slots -> Descriptor \cup {NULL}]
          BY DEF FInv, TypeOK
        <4>3. Cardinality(Holders(file_descriptors', g))
                = Cardinality(Holders(file_descriptors, g)) + (IF f = g THEN 1 ELSE 0)
          <5>1. s \in Slots /\ file_descriptors[s] = NULL /\ d \in Descriptor
            BY <2>2, <2>3
          <5>2. Cardinality(Holders([file_descriptors EXCEPT ![s] = d], g))
                  = Cardinality(Holders(file_descriptors, g)) + (IF d.file = g THEN 1 ELSE 0)
            <6>1. PICK table \in [Slots -> Descriptor \cup {NULL}] : table = file_descriptors
              BY <4>2
            <6>2. table[s] = NULL
              BY <5>1, <6>1
            <6>3. Cardinality(Holders([table EXCEPT ![s] = d], g))
                    = Cardinality(Holders(table, g)) + (IF d.file = g THEN 1 ELSE 0)
              BY <5>1, <6>2, HoldersAdd
            <6> QED BY <6>1, <6>3
          <5> QED BY <2>2, <2>3, <5>2
        <4> QED BY <4>1, <4>3 DEF FInv, RefsCounted
      <3>2. \A i \in Slots : file_descriptors'[i] # NULL => file_descriptors'[i].file \in files'
        BY <2>2, <2>3, <2>4 DEF FInv, TypeOK, RefsCounted
      <3> QED BY <3>1, <3>2 DEF RefsCounted
    <2>7. TypeOK'
      <3>1. refs' \in [Files -> 0..FD_BOUND]
        BY <2>5, <2>6, HoldersFinite DEF FInv, TypeOK, RefsCounted
      <3>2. /\ name' \in [Files -> Names \cup {NULL}]
            /\ blocks' \in [Files -> Seq([Offsets -> Cell])]
            /\ occupied' \in [Files -> Nat]
        <4>1. <<NewBlock>> \in Seq([Offsets -> Cell])
          BY NewBlockType
        <4>2. CASE UNCHANGED <<name, dataVars>>
          BY <4>2 DEF FInv, TypeOK
        <4>3. CASE create_file(n, f)
          BY <4>1, <4>3 DEF create_file, FInv, TypeOK
        <4> QED BY <2>1, <4>2, <4>3
      <3>3. file_descriptors' \in [Slots -> Descriptor \cup {NULL}]
        BY <2>2, <2>3 DEF FInv, TypeOK
      <3> QED BY <1>1, <2>1, <2>3, <2>4, <3>1, <3>2, <3>3 DEF FInv, TypeOK, Success
    <2>8. TableInBounds'
      BY <1>1, <2>3, Constants DEF FInv, TypeOK, TableInBounds, OpenSlots, Slots
    <2>9. NoLeakedFile'
      <3>1. \A g \in files' \ file_list' : refs'[g] > 0 /\ g \in marked_for_deletion'
        BY <2>4, <2>5 DEF FInv, TypeOK, NoLeakedFile
      <3> QED BY <1>1, <3>1 DEF NoLeakedFile
    <2>10. UniqueNames' /\ HasBlocks'
      <3>1. CASE UNCHANGED <<files, file_list, name, dataVars>>
        BY <2>1, <3>1 DEF FInv, UniqueNames, HasBlocks
      <3>2. CASE found = {} /\ create_file(n, f)
        <4>1. \A g \in file_list : name[g] # n
          BY <3>2 DEF try_get_file_by_filename
        <4>2. f \notin files /\ file_list \subseteq files /\ marked_for_deletion \subseteq files
          BY <3>2 DEF create_file, FInv, TypeOK
        <4>3. /\ name' = [name EXCEPT ![f] = n] /\ file_list' = file_list \cup {f}
              /\ files' = files \cup {f} /\ blocks' = [blocks EXCEPT ![f] = <<NewBlock>>]
          BY <3>2 DEF create_file
        <4>4. \A g \in file_list' : name'[g] = IF g = f THEN n ELSE name[g]
          BY <4>2, <4>3 DEF FInv, TypeOK
        <4>5. UniqueNames'
          BY <2>4, <4>1, <4>2, <4>3, <4>4 DEF FInv, UniqueNames
        <4>6. \A g \in files' : blocks'[g] = IF g = f THEN <<NewBlock>> ELSE blocks[g]
          BY <4>2, <4>3 DEF FInv, TypeOK
        <4>7. HasBlocks'
          BY <4>3, <4>6 DEF FInv, HasBlocks
        <4> QED BY <4>5, <4>7
      <3> QED BY <2>1, <3>1, <3>2
    <2>11. LoopHasDescriptor'
      BY <1>1 DEF LoopHasDescriptor
    <2> QED BY <2>6, <2>7, <2>8, <2>9, <2>10, <2>11 DEF FInv
  <1> QED BY <1>2, <1>3 DEF ufs_open

\* Freeing files that neither a name nor a descriptor leads to.
LEMMA FreeFilesTypes ==
  ASSUME FInv, NEW S \in SUBSET files, FreeFiles(S), file_list' \subseteq files \ S,
         file_list' \subseteq file_list
  PROVE  /\ files' \subseteq Files /\ file_list' \subseteq files'
         /\ marked_for_deletion' \subseteq files'
         /\ name' \in [Files -> Names \cup {NULL}]
         /\ blocks' \in [Files -> Seq([Offsets -> Cell])]
         /\ occupied' \in [Files -> Nat]
         /\ UniqueNames' /\ HasBlocks'
  <1>1. <<>> \in Seq([Offsets -> Cell])
    BY EmptySeq
  <1>2. /\ files \subseteq Files /\ file_list \subseteq files
        /\ marked_for_deletion \subseteq files
        /\ name \in [Files -> Names \cup {NULL}]
        /\ blocks \in [Files -> Seq([Offsets -> Cell])]
        /\ occupied \in [Files -> Nat]
    BY DEF FInv, TypeOK
  <1>3. /\ files' = files \ S /\ marked_for_deletion' = marked_for_deletion \ S
        /\ name' = [f \in Files |-> IF f \in S THEN NULL ELSE name[f]]
        /\ blocks' = [f \in Files |-> IF f \in S THEN <<>> ELSE blocks[f]]
        /\ occupied' = [f \in Files |-> IF f \in S THEN 0 ELSE occupied[f]]
    BY DEF FreeFiles
  <1>4. name' \in [Files -> Names \cup {NULL}] /\ occupied' \in [Files -> Nat]
    BY <1>2, <1>3
  <1>5. blocks' \in [Files -> Seq([Offsets -> Cell])]
    BY <1>1, <1>2, <1>3
  <1>6. \A f \in file_list' : f \in file_list /\ name'[f] = name[f]
    BY <1>2, <1>3
  <1>7. UniqueNames'
    BY <1>3, <1>6 DEF FInv, UniqueNames
  <1>8. \A f \in files' : f \in files /\ blocks'[f] = blocks[f]
    BY <1>2, <1>3
  <1>9. HasBlocks'
    BY <1>8 DEF FInv, HasBlocks
  <1> QED BY <1>2, <1>3, <1>4, <1>5, <1>7, <1>9

\* ufs_close: the last close of a deleted file frees it.
LEMMA CloseFInv ==
  ASSUME FInv, NEW fd \in -1..FD_BOUND, ufs_close(fd)
  PROVE  FInv'
  <1>0. fd \in Int
    BY Constants
  <1>1. pc = "idle" /\ UNCHANGED ioVars
    BY DEF ufs_close
  <1>2. CASE ~ Valid(fd)
    BY <1>1, <1>2, QuietFInv DEF ufs_close, throw_error, FInv, TypeOK
  <1>3. CASE Valid(fd)
    <2> DEFINE f == file_descriptors[fd].file
               S == {g \in {f} : Reclaim(g)}
    <2>1. /\ refs' = [refs EXCEPT ![f] = @ - 1]
          /\ FreeFiles(S)
          /\ file_descriptors' = [file_descriptors EXCEPT ![fd] = NULL]
          /\ UNCHANGED <<ufs_error_code, file_list, file_descriptor_count,
                         file_descriptor_capacity>>
      BY <1>3 DEF ufs_close, Success
    <2>2. fd \in Slots /\ file_descriptors[fd] # NULL /\ f \in files
      BY <1>0, <1>3, ValidSlot DEF Valid
    <2>3. file_descriptors \in [Slots -> Descriptor \cup {NULL}]
      BY DEF FInv, TypeOK
    <2>4. /\ S \subseteq files /\ S \cap file_list = {} /\ S \subseteq {f}
          /\ S # {} => refs[f] - 1 = 0
          /\ f \in marked_for_deletion /\ refs[f] - 1 = 0 => f \in S
      BY <2>2 DEF Reclaim, FInv, UniqueNames
    <2> HIDE DEF f, S
    <2>5. \A g \in Files : refs'[g] = Cardinality(Holders(file_descriptors', g))
      <3> SUFFICES ASSUME NEW g \in Files
                   PROVE  refs'[g] = Cardinality(Holders(file_descriptors', g))
        OBVIOUS
      <3>1. refs'[g] = refs[g] - (IF f = g THEN 1 ELSE 0)
        BY <2>1 DEF FInv, TypeOK
      <3>2. Cardinality(Holders([file_descriptors EXCEPT ![fd] = NULL], g))
              = Cardinality(Holders(file_descriptors, g))
                  - (IF file_descriptors[fd].file = g THEN 1 ELSE 0)
        BY Zenon, <2>2, <2>3, HoldersRemove
      <3> QED BY <2>1, <3>1, <3>2 DEF FInv, RefsCounted, f
    <2>6. files' = files \ S /\ marked_for_deletion' = marked_for_deletion \ S
      BY <2>1 DEF FreeFiles
    <2>7. RefsCounted'
      <3>1. S # {} => refs'[f] = 0
        BY <2>1, <2>2, <2>4 DEF FInv, TypeOK
      <3>2. S # {} => \A i \in Slots : file_descriptors'[i] # NULL =>
                                       file_descriptors'[i].file # f
        BY <2>2, <2>5, <3>1, NoHolders DEF FInv, TypeOK
      <3>3. \A i \in Slots : file_descriptors'[i] # NULL => file_descriptors'[i].file \in files
        BY <2>1, <2>2, <2>3 DEF FInv, RefsCounted
      <3> QED BY <2>4, <2>5, <2>6, <3>2, <3>3 DEF RefsCounted
    <2>8. /\ files' \subseteq Files /\ file_list' \subseteq files'
          /\ marked_for_deletion' \subseteq files'
          /\ name' \in [Files -> Names \cup {NULL}]
          /\ blocks' \in [Files -> Seq([Offsets -> Cell])]
          /\ occupied' \in [Files -> Nat]
          /\ UniqueNames' /\ HasBlocks'
      <3>1. file_list' \subseteq files \ S /\ file_list' \subseteq file_list
        BY <2>1, <2>4 DEF FInv, TypeOK
      <3> QED BY <2>1, <2>4, <3>1, FreeFilesTypes
    <2>9. TypeOK'
      <3>1. refs' \in [Files -> 0..FD_BOUND]
        <4>1. \A g \in Files : refs'[g] \in 0..FD_BOUND
          BY <2>5, HoldersFinite
        <4> QED BY <2>1, <4>1 DEF FInv, TypeOK
      <3>2. file_descriptors' \in [Slots -> Descriptor \cup {NULL}]
        BY <2>1, <2>3
      <3> QED BY <1>1, <2>1, <2>8, <3>1, <3>2 DEF FInv, TypeOK
    <2>10. TableInBounds'
      BY <2>1, <2>3 DEF FInv, TableInBounds, OpenSlots
    <2>11. NoLeakedFile'
      <3>1. \A g \in files' \ file_list' : refs'[g] > 0 /\ g \in marked_for_deletion'
        BY <2>1, <2>2, <2>4, <2>6 DEF FInv, TypeOK, NoLeakedFile
      <3> QED BY <1>1, <3>1 DEF NoLeakedFile
    <2>12. LoopHasDescriptor'
      BY <1>1 DEF LoopHasDescriptor
    <2> QED BY <2>7, <2>8, <2>9, <2>10, <2>11, <2>12 DEF FInv
  <1> QED BY <1>2, <1>3

\* ufs_delete: the name goes; the file stays as long as a descriptor holds it.
LEMMA DeleteFInv ==
  ASSUME FInv, NEW n \in Names, ufs_delete(n)
  PROVE  FInv'
  <1>1. pc = "idle" /\ UNCHANGED <<descVars, ioVars>>
    BY DEF ufs_delete
  <1>2. CASE try_get_file_by_filename(n) = {}
    BY <1>1, <1>2, QuietFInv DEF ufs_delete, throw_error, FInv, TypeOK
  <1>3. CASE \E f \in try_get_file_by_filename(n) :
               /\ file_list' = file_list \ {f}
               /\ \/ FreeOnDelete(f) /\ FreeFiles({f})
                  \/ /\ ~ FreeOnDelete(f)
                     /\ marked_for_deletion' = marked_for_deletion \cup {f}
                     /\ UNCHANGED <<files, name, dataVars>>
               /\ Success
               /\ UNCHANGED refs
    <2>1. PICK f \in file_list :
               /\ file_list' = file_list \ {f}
               /\ \/ FreeOnDelete(f) /\ FreeFiles({f})
                  \/ /\ ~ FreeOnDelete(f)
                     /\ marked_for_deletion' = marked_for_deletion \cup {f}
                     /\ UNCHANGED <<files, name, dataVars>>
               /\ UNCHANGED <<refs, ufs_error_code>>
      BY <1>3 DEF try_get_file_by_filename, Success
    <2>2. f \in files /\ f \in Files /\ f \notin marked_for_deletion
      BY DEF FInv, TypeOK, UniqueNames
    <2>3. TableInBounds' /\ LoopHasDescriptor'
      BY <1>1 DEF FInv, TableInBounds, OpenSlots, LoopHasDescriptor
    <2>4. CASE refs[f] = 0 /\ FreeFiles({f})
      <3>1. files' = files \ {f} /\ marked_for_deletion' = marked_for_deletion \ {f}
        BY <2>4 DEF FreeFiles
      <3>2. /\ files' \subseteq Files /\ file_list' \subseteq files'
            /\ marked_for_deletion' \subseteq files'
            /\ name' \in [Files -> Names \cup {NULL}]
            /\ blocks' \in [Files -> Seq([Offsets -> Cell])]
            /\ occupied' \in [Files -> Nat]
            /\ UniqueNames' /\ HasBlocks'
        <4>1. /\ {f} \in SUBSET files /\ file_list' \subseteq files \ {f}
              /\ file_list' \subseteq file_list
          BY <2>1, <2>2 DEF FInv, TypeOK
        <4> QED BY <2>4, <4>1, FreeFilesTypes
      <3>3. TypeOK'
        BY <1>1, <2>1, <3>2 DEF FInv, TypeOK
      <3>4. RefsCounted'
        <4>1. \A i \in Slots : file_descriptors[i] # NULL => file_descriptors[i].file # f
          BY <2>2, <2>4, NoHolders DEF FInv, RefsCounted
        <4> QED BY <1>1, <2>1, <3>1, <4>1 DEF FInv, RefsCounted, Holders
      <3>5. NoLeakedFile'
        BY <1>1, <2>1, <3>1 DEF FInv, NoLeakedFile
      <3> QED BY <2>3, <3>2, <3>3, <3>4, <3>5 DEF FInv
    <2>5. CASE /\ refs[f] # 0
               /\ marked_for_deletion' = marked_for_deletion \cup {f}
               /\ UNCHANGED <<files, name, dataVars>>
      <3>1. TypeOK'
        BY <1>1, <2>1, <2>2, <2>5 DEF FInv, TypeOK
      <3>2. RefsCounted'
        BY <1>1, <2>1, <2>5 DEF FInv, RefsCounted, Holders
      <3>3. NoLeakedFile'
        BY <1>1, <2>1, <2>2, <2>5 DEF FInv, TypeOK, NoLeakedFile
      <3>4. UniqueNames' /\ HasBlocks'
        BY <2>1, <2>5 DEF FInv, UniqueNames, HasBlocks
      <3> QED BY <2>3, <3>1, <3>2, <3>3, <3>4 DEF FInv
    <2> QED BY <2>1, <2>4, <2>5 DEF FreeOnDelete
  <1> QED BY <1>2, <1>3 DEF ufs_delete

\* ufs_destroy: nothing is left of files and descriptors.
LEMMA DestroyFInv ==
  ASSUME FInv, ufs_destroy
  PROVE  FInv'
  <1> DEFINE S == {f \in files : f \in file_list \/ (f \in marked_for_deletion /\ refs[f] > 0
                                                    /\ refs'[f] = 0)}
  <1>1. /\ pc' = "destroyed" /\ file_list' = {} /\ FreeFiles(S)
        /\ refs' = [f \in Files |-> refs[f] - Cardinality(Holders(file_descriptors, f))]
        /\ file_descriptors' = [i \in Slots |-> NULL]
        /\ UNCHANGED <<file_descriptor_count, file_descriptor_capacity, ufs_error_code,
                       io_fd, io_size, io_left, buf>>
    <2>1. \A f : {i \in OpenSlots : file_descriptors[i].file = f} = Holders(file_descriptors, f)
      BY DEF OpenSlots, Holders
    <2> QED BY <2>1 DEF ufs_destroy
  <1>2. refs' = [f \in Files |-> 0]
    <2>1. \A f \in Files : refs[f] \in Int /\ refs[f] = Cardinality(Holders(file_descriptors, f))
      BY DEF FInv, TypeOK, RefsCounted
    <2> QED BY <1>1, <2>1
  <1>3. S = files
    BY <1>2 DEF FInv, TypeOK, NoLeakedFile
  <1> HIDE DEF S
  <1>4. files' = {}
    BY <1>1, <1>3 DEF FreeFiles
  <1>5. /\ files' \subseteq Files /\ file_list' \subseteq files'
        /\ marked_for_deletion' \subseteq files'
        /\ name' \in [Files -> Names \cup {NULL}]
        /\ blocks' \in [Files -> Seq([Offsets -> Cell])]
        /\ occupied' \in [Files -> Nat]
        /\ UniqueNames' /\ HasBlocks'
    BY <1>1, <1>3, FreeFilesTypes
  <1>6. TypeOK'
    BY <1>1, <1>2, <1>5, Constants DEF FInv, TypeOK
  <1>7. RefsCounted'
    <2>1. \A f : Holders(file_descriptors', f) = {}
      BY <1>1 DEF Holders
    <2> QED BY <1>1, <1>2, <2>1, FS_EmptySet DEF RefsCounted
  <1>8. TableInBounds' /\ NoLeakedFile' /\ LoopHasDescriptor'
    BY <1>1, <1>4 DEF FInv, TableInBounds, NoLeakedFile, OpenSlots, LoopHasDescriptor
  <1> QED BY <1>5, <1>6, <1>7, <1>8 DEF FInv

\* A quotient, its product and the next one.
LEMMA DivBounds ==
  ASSUME NEW n \in Nat, NEW b \in Nat, b > 0
  PROVE  n \div b \in Nat /\ (n \div b) * b <= n /\ n < (n \div b + 1) * b
  OBVIOUS

\* Multiplication is monotonic.
LEMMA MulMono ==
  ASSUME NEW x \in Nat, NEW y \in Nat, NEW b \in Nat, x <= y
  PROVE  x * b <= y * b
  OBVIOUS

\* Where reduce_file_size puts the end of a file: in one of its blocks, at a
\* number of bytes that is not negative.
LEMMA NewEnd ==
  ASSUME NEW last \in Nat, NEW new_size \in Nat
  PROVE  LET block  == IF new_size \div BLOCK_SIZE < last THEN new_size \div BLOCK_SIZE ELSE last
             offset == new_size - block * BLOCK_SIZE
         IN  /\ block \in 0..last /\ offset \in Nat
             /\ new_size < (last + 1) * BLOCK_SIZE => offset < BLOCK_SIZE
  <1> DEFINE q == new_size \div BLOCK_SIZE
             block == IF q < last THEN q ELSE last
  <1>1. q \in Nat /\ q * BLOCK_SIZE <= new_size /\ new_size < (q + 1) * BLOCK_SIZE
    BY DivBounds, Constants
  <1> HIDE DEF q
  <1>2. CASE q < last
    BY <1>1, <1>2, Constants
  <1>3. CASE ~ (q < last)
    <2>1. last * BLOCK_SIZE <= q * BLOCK_SIZE
      BY <1>1, <1>3, MulMono, Constants
    <2> QED BY <1>1, <1>3, <2>1, Constants
  <1> QED BY <1>2, <1>3 DEF q

\* What a table keeps when its descriptors only move: who holds what.
SameHolders ==
  /\ file_descriptors' \in [Slots -> Descriptor \cup {NULL}]
  /\ \A i \in Slots : file_descriptors'[i] # NULL <=> file_descriptors[i] # NULL
  /\ \A i \in Slots : file_descriptors[i] # NULL =>
                      file_descriptors'[i].file = file_descriptors[i].file

\* A descriptor that is put elsewhere in its file.
Moved(d, block, offset) == [d EXCEPT !.current_block = block, !.block_offset = offset]

\* It is a descriptor of the same file.
LEMMA MovedDescriptor ==
  ASSUME NEW d \in Descriptor, NEW block \in Nat, NEW offset \in Nat
  PROVE  /\ Moved(d, block, offset) \in Descriptor
         /\ Moved(d, block, offset).file = d.file
         /\ Moved(d, block, offset).current_block = block
         /\ Moved(d, block, offset).block_offset = offset
  BY DEF Descriptor, Moved

\* Steps that move descriptors and change the content of files.
LEMMA MoveFInv ==
  ASSUME FInv, SameHolders,
         blocks' \in [Files -> Seq([Offsets -> Cell])], occupied' \in [Files -> Nat],
         \A f \in files : Len(blocks'[f]) > 0,
         io_left' \in Int,
         ufs_error_code' = ufs_error_code,
         UNCHANGED <<fileVars, file_descriptor_count, file_descriptor_capacity, pc, io_fd,
                     io_size>>
  PROVE  FInv'
  <1> USE DEF SameHolders
  <1>1. TypeOK'
    BY DEF FInv, TypeOK
  <1>2. OpenSlots' = OpenSlots
    BY DEF OpenSlots
  <1>3. TableInBounds' /\ NoLeakedFile'
    BY <1>2 DEF FInv, TableInBounds, NoLeakedFile
  <1>4. UniqueNames' /\ HasBlocks'
    BY DEF FInv, UniqueNames, HasBlocks
  <1>5. RefsCounted'
    <2>1. \A f \in Files : Holders(file_descriptors', f) = Holders(file_descriptors, f)
      BY HoldersSame
    <2> QED BY <2>1 DEF FInv, RefsCounted
  <1>6. LoopHasDescriptor'
    <2>1. CASE pc \in {"write", "read"}
      <3>1. Valid(io_fd) /\ io_fd \in Int
        BY <2>1, Constants DEF FInv, LoopHasDescriptor, TypeOK, Slots
      <3> QED BY <3>1, ValidSlot DEF Valid, LoopHasDescriptor
    <2> QED BY <2>1 DEF LoopHasDescriptor
  <1> QED BY <1>1, <1>3, <1>4, <1>5, <1>6 DEF FInv

\* ufs_resize: the descriptors behind the new end are moved to it.
LEMMA ResizeFInv ==
  ASSUME FInv, NEW fd \in -1..FD_BOUND, NEW new_size \in Sizes, ufs_resize(fd, new_size)
  PROVE  FInv'
  <1>0. fd \in Int /\ new_size \in Nat
    BY Constants, UserFSAssumption
  <1>1. /\ pc = "idle"
        /\ UNCHANGED <<fileVars, file_descriptor_count, file_descriptor_capacity, ioVars>>
    BY DEF ufs_resize
  <1>2. CASE UNCHANGED <<dataVars, file_descriptors>>
    <2>1. ufs_error_code' \in {"UFS_ERR_NO_ERR", "UFS_ERR_NO_FILE", "UFS_ERR_NO_MEM",
                               "UFS_ERR_NO_PERMISSION"}
      BY DEF ufs_resize, throw_error, Success, FInv, TypeOK
    <2> QED BY <1>1, <1>2, <2>1, QuietFInv DEF FInv, TypeOK
  <1>3. CASE Valid(fd) /\ Success /\ reduce_file_size(file_descriptors[fd].file, new_size)
    <2> DEFINE f == file_descriptors[fd].file
               last == LastBlock(f)
               block == IF new_size \div BLOCK_SIZE < last
                        THEN new_size \div BLOCK_SIZE ELSE last
               offset == new_size - block * BLOCK_SIZE
    <2>1. f \in files /\ f \in Files /\ blocks[f] \in Seq([Offsets -> Cell])
          /\ Len(blocks[f]) > 0
      BY <1>0, <1>3, ValidSlot DEF FInv, TypeOK, HasBlocks
    <2>2. last \in Nat /\ last + 1 = Len(blocks[f])
      BY <2>1, LenProperties DEF LastBlock
    <2>3. block \in 0..last /\ offset \in Nat
      <3> HIDE DEF last
      <3> QED BY <1>0, <2>2, NewEnd
    <2>4. /\ blocks' = [blocks EXCEPT ![f] = SubSeq(@, 1, block + 1)]
          /\ occupied' = [occupied EXCEPT ![f] = offset]
          /\ file_descriptors' = [i \in Slots |->
               IF i \in OpenSlots /\ file_descriptors[i].file = f
                  /\ Behind(file_descriptors[i], block, offset)
               THEN [file_descriptors[i] EXCEPT !.current_block = block,
                                               !.block_offset = offset]
               ELSE file_descriptors[i]]
      BY <1>3 DEF reduce_file_size
    <2> HIDE DEF f, last, block, offset
    <2>5. SubSeq(blocks[f], 1, block + 1) \in Seq([Offsets -> Cell])
          /\ Len(SubSeq(blocks[f], 1, block + 1)) = block + 1
      <3>1. \A i \in 1..(block + 1) : blocks[f][i] \in [Offsets -> Cell]
        BY <2>1, <2>2, <2>3, ElementOfSeq
      <3> QED BY <2>3, <3>1, SubSeqProperties
    <2>6. /\ blocks' \in [Files -> Seq([Offsets -> Cell])] /\ occupied' \in [Files -> Nat]
          /\ \A g \in files : Len(blocks'[g]) > 0
      <3> DEFINE rest == SubSeq(blocks[f], 1, block + 1)
      <3>1. Len(rest) > 0
        BY <2>3, <2>5
      <3> HIDE DEF rest
      <3>2. blocks' = [blocks EXCEPT ![f] = rest] /\ rest \in Seq([Offsets -> Cell])
        BY <2>1, <2>4, <2>5 DEF rest, FInv, TypeOK
      <3> QED BY <2>1, <2>3, <2>4, <3>1, <3>2 DEF FInv, TypeOK, HasBlocks
    <2>7. SameHolders
      <3>1. ASSUME NEW i \in Slots, file_descriptors[i] # NULL
            PROVE  /\ file_descriptors'[i] \in Descriptor
                   /\ file_descriptors'[i].file = file_descriptors[i].file
        <4>1. file_descriptors[i] \in Descriptor
          BY <3>1 DEF FInv, TypeOK
        <4>2. file_descriptors'[i] =
                IF file_descriptors[i].file = f /\ Behind(file_descriptors[i], block, offset)
                THEN Moved(file_descriptors[i], block, offset)
                ELSE file_descriptors[i]
          BY <2>4, <3>1 DEF OpenSlots, Moved
        <4>3. block \in Nat
          BY <2>2, <2>3
        <4> QED BY <2>3, <4>1, <4>2, <4>3, MovedDescriptor
      <3>2. \A i \in Slots : file_descriptors[i] = NULL => file_descriptors'[i] = NULL
        BY <2>4 DEF OpenSlots
      <3> QED BY <2>4, <3>1, <3>2, NullAssumption DEF SameHolders
    <2> QED BY <1>1, <1>3, <2>6, <2>7, MoveFInv DEF Success, FInv, TypeOK
  <1> QED BY <1>2, <1>3 DEF ufs_resize

\* advance_descriptor moves one descriptor inside its file, which may get longer.
LEMMA AdvanceMoves ==
  ASSUME FInv, NEW fd \in Slots, file_descriptors[fd] # NULL,
         NEW mem \in Seq([Offsets -> Cell]), Len(mem) > 0, NEW occ \in Nat,
         AdvanceDescriptor(fd, mem, occ)
  PROVE  /\ SameHolders
         /\ blocks' \in [Files -> Seq([Offsets -> Cell])]
         /\ occupied' \in [Files -> Nat]
         /\ \A f \in files : Len(blocks'[f]) > 0
  <1> DEFINE d == file_descriptors[fd]
             f == d.file
  <1>1. d \in Descriptor /\ f \in files /\ f \in Files
    BY DEF FInv, TypeOK, RefsCounted
  <1>2. \E block, offset \in Nat :
          file_descriptors' = [file_descriptors EXCEPT
            ![fd].current_block = block, ![fd].block_offset = offset]
    <2>1. d.current_block + 1 \in Nat /\ d.block_offset + 1 \in Nat /\ d.current_block \in Nat
      BY <1>1 DEF Descriptor
    <2>2. \/ file_descriptors' = [file_descriptors EXCEPT
               ![fd].current_block = d.current_block, ![fd].block_offset = d.block_offset + 1]
          \/ file_descriptors' = [file_descriptors EXCEPT
               ![fd].current_block = d.current_block + 1, ![fd].block_offset = 0]
      BY DEF AdvanceDescriptor
    <2> QED BY <2>1, <2>2
  <1>3. PICK block \in Nat, offset \in Nat :
          file_descriptors' = [file_descriptors EXCEPT
            ![fd].current_block = block, ![fd].block_offset = offset]
    BY <1>2
  <1>4. /\ file_descriptors'[fd] = Moved(d, block, offset)
        /\ \A i \in Slots \ {fd} : file_descriptors'[i] = file_descriptors[i]
        /\ file_descriptors' \in [Slots -> Descriptor \cup {NULL}]
    <2>1. file_descriptors \in [Slots -> Descriptor \cup {NULL}]
      BY DEF FInv, TypeOK
    <2>2. /\ file_descriptors'[fd] = Moved(d, block, offset)
          /\ \A i \in Slots \ {fd} : file_descriptors'[i] = file_descriptors[i]
          /\ DOMAIN file_descriptors' = Slots
      BY <1>3, <2>1 DEF Moved
    <2>3. file_descriptors'[fd] \in Descriptor
      BY <1>1, <2>2, MovedDescriptor
    <2> QED BY <1>3, <2>1, <2>2, <2>3
  <1>5. SameHolders
    <2>1. Moved(d, block, offset).file = d.file
      BY <1>1 DEF Moved, Descriptor
    <2>2. file_descriptors'[fd] \in Descriptor
      BY <1>1, <1>4, MovedDescriptor
    <2>3. file_descriptors'[fd].file = f
      BY <1>4, <2>1
    <2> QED BY <1>1, <1>4, <2>2, <2>3, NullAssumption DEF SameHolders
  <1>6. \E mem2 \in Seq([Offsets -> Cell]), occ2 \in Nat :
          /\ Len(mem2) > 0
          /\ blocks' = [blocks EXCEPT ![f] = mem2]
          /\ occupied' = [occupied EXCEPT ![f] = occ2]
    <2>1. Append(mem, NewBlock) \in Seq([Offsets -> Cell]) /\ Len(Append(mem, NewBlock)) > 0
      BY NewBlockType, AppendProperties, LenProperties
    <2> QED BY <2>1 DEF AdvanceDescriptor
  <1>7. blocks \in [Files -> Seq([Offsets -> Cell])] /\ occupied \in [Files -> Nat]
        /\ files \subseteq Files
    BY DEF FInv, TypeOK
  <1> HIDE DEF f
  <1> QED BY <1>1, <1>5, <1>6, <1>7 DEF FInv, HasBlocks

\* Byte o of block k written.
Written(mem, k, o, b) == [mem EXCEPT ![k][o] = b]

\* A block keeps its shape when a byte of it is written, and a list of blocks
\* its length.
LEMMA ByteWritten ==
  ASSUME NEW mem \in Seq([Offsets -> Cell]), NEW k, NEW o, NEW b \in Cell
  PROVE  /\ Written(mem, k, o, b) \in Seq([Offsets -> Cell])
         /\ Len(Written(mem, k, o, b)) = Len(mem)
  <1> DEFINE B == [mem[k] EXCEPT ![o] = b]
  <1>1. Written(mem, k, o, b) = [mem EXCEPT ![k] = B]
    BY DEF Written
  <1>2. CASE k \in 1..Len(mem)
    <2>1. mem[k] \in [Offsets -> Cell]
      BY <1>2, ElementOfSeq
    <2>2. B \in [Offsets -> Cell]
      BY <2>1
    <2> DEFINE S == [Offsets -> Cell]
    <2>3. B \in S /\ mem \in Seq(S)
      BY <2>2
    <2> HIDE DEF B, S
    <2>4. [mem EXCEPT ![k] = B] \in Seq(S) /\ Len([mem EXCEPT ![k] = B]) = Len(mem)
      BY <1>2, <2>3, ExceptSeq
    <2> QED BY <1>1, <2>4 DEF S
  <1>3. CASE k \notin 1..Len(mem)
    <2>1. DOMAIN mem = 1..Len(mem) /\ mem = [i \in DOMAIN mem |-> mem[i]]
      BY LenProperties
    <2> HIDE DEF B
    <2>2. [mem EXCEPT ![k] = B] = mem
      BY <1>3, <2>1
    <2> QED BY <1>1, <2>2
  <1> QED BY <1>2, <1>3

\* A step of a loop has a descriptor that is open, in a file that exists.
LEMMA LoopDescriptor ==
  ASSUME FInv, (\E b \in Byte : WriteByte(b)) \/ ReadByte
  PROVE  /\ pc \in {"write", "read"}
         /\ io_fd \in Slots
         /\ file_descriptors[io_fd] # NULL
         /\ file_descriptors[io_fd] \in Descriptor
         /\ file_descriptors[io_fd].file \in files
         /\ file_descriptors[io_fd].file \in Files
  <1>1. pc \in {"write", "read"}
    BY DEF WriteByte, ReadByte
  <1>2. Valid(io_fd) /\ io_fd \in Int
    BY <1>1, Constants DEF FInv, LoopHasDescriptor, TypeOK, Slots
  <1>3. io_fd \in Slots /\ file_descriptors[io_fd] # NULL
    BY <1>2, ValidSlot DEF Valid
  <1> QED BY <1>1, <1>3 DEF FInv, TypeOK, RefsCounted

\* A step of a loop moves its descriptor, and writing may make its file longer.
LEMMA LoopStepFInv ==
  ASSUME FInv, (\E b \in Byte : WriteByte(b)) \/ ReadByte
  PROVE  FInv'
  <1> DEFINE d == file_descriptors[io_fd]
  <1>1. io_fd \in Slots /\ d # NULL /\ d \in Descriptor /\ d.file \in files /\ d.file \in Files
    BY LoopDescriptor
  <1>2. blocks[d.file] \in Seq([Offsets -> Cell]) /\ Len(blocks[d.file]) > 0
        /\ occupied[d.file] \in Nat
    BY <1>1 DEF FInv, TypeOK, HasBlocks
  <1>3. \E mem \in Seq([Offsets -> Cell]), occ \in Nat :
          Len(mem) > 0 /\ AdvanceDescriptor(io_fd, mem, occ)
    <2>1. CASE \E b \in Byte : WriteByte(b)
      <3>1. PICK b \in Byte : WriteByte(b)
        BY <2>1
      <3> DEFINE mem == [blocks[d.file] EXCEPT ![d.current_block + 1][d.block_offset] = b]
      <3>2. mem \in Seq([Offsets -> Cell]) /\ Len(mem) = Len(blocks[d.file])
        <4>1. b \in Cell
          BY DEF Cell
        <4> DEFINE seq == blocks[d.file]
                   k == d.current_block + 1
                   o == d.block_offset
        <4>2. seq \in Seq([Offsets -> Cell])
          BY <1>2
        <4>3. mem = Written(seq, k, o, b)
          BY DEF Written
        <4> HIDE DEF seq, k, o, mem
        <4>4. mem \in Seq([Offsets -> Cell]) /\ Len(mem) = Len(seq)
          BY <4>1, <4>2, <4>3, ByteWritten
        <4> QED BY <4>4 DEF seq
      <3>3. OccupiedAfterWrite(d) \in Nat
        BY <1>2 DEF OccupiedAfterWrite
      <3>4. AdvanceDescriptor(io_fd, mem, OccupiedAfterWrite(d))
        BY <3>1 DEF WriteByte
      <3> HIDE DEF mem
      <3> QED BY <1>2, <3>2, <3>3, <3>4
    <2>2. CASE ReadByte
      BY <1>2, <2>2 DEF ReadByte
    <2> QED BY <2>1, <2>2
  <1>4. /\ SameHolders
        /\ blocks' \in [Files -> Seq([Offsets -> Cell])]
        /\ occupied' \in [Files -> Nat]
        /\ \A f \in files : Len(blocks'[f]) > 0
    BY <1>1, <1>3, AdvanceMoves
  <1>5. /\ io_left' \in Int
        /\ ufs_error_code' = ufs_error_code
        /\ UNCHANGED <<fileVars, file_descriptor_count, file_descriptor_capacity, pc, io_fd,
                       io_size>>
    <2>1. io_left \in Int
      BY DEF FInv, TypeOK
    <2>2. CASE \E b \in Byte : WriteByte(b)
      BY <2>1, <2>2 DEF WriteByte
    <2>3. CASE ReadByte
      BY <2>1, <2>3 DEF ReadByte
    <2> QED BY <2>2, <2>3
  <1> QED BY <1>4, <1>5, MoveFInv

\* Every step of the file system.
LEMMA NextFInv == FInv /\ [Next]_vars => FInv'
  <1> SUFFICES ASSUME FInv, [Next]_vars PROVE FInv'
    OBVIOUS
  <1>1. ASSUME NEW n \in Names, NEW flags \in FlagSets, ufs_open(n, flags)
        PROVE  FInv'
    BY <1>1, OpenFInv
  <1>2. ASSUME NEW fd \in -1..FD_BOUND, NEW size \in Sizes,
               ufs_write(fd, size) \/ ufs_read(fd, size)
        PROVE  FInv'
    BY <1>2, StartFInv
  <1>3. ASSUME NEW fd \in -1..FD_BOUND, NEW size \in Sizes, ufs_resize(fd, size)
        PROVE  FInv'
    BY <1>3, ResizeFInv
  <1>4. ASSUME NEW fd \in -1..FD_BOUND, ufs_close(fd)
        PROVE  FInv'
    BY <1>4, CloseFInv
  <1>5. ASSUME NEW n \in Names, ufs_delete(n)
        PROVE  FInv'
    BY <1>5, DeleteFInv
  <1>6. CASE ufs_destroy
    BY <1>6, DestroyFInv
  <1>7. CASE IOStep
    BY <1>7, LoopStepFInv, EndLoopFInv DEF IOStep
  <1>8. CASE UNCHANGED vars
    BY <1>8, QuietFInv DEF FInv, TypeOK, LoopHasDescriptor, Valid
  <1> QED BY <1>1, <1>2, <1>3, <1>4, <1>5, <1>6, <1>7, <1>8 DEF Next

\* Files and descriptors fit together in every state the calls can reach.
THEOREM FileInvariance == Spec => []FInv
  BY InitFInv, NextFInv, PTL DEF Spec

\* try_get_file_descriptor looks inside the memory of the table, and
\* add_file_descriptor sees every descriptor that is open.
THEOREM TableHolds == Spec => []TableInBounds
  <1>1. FInv => TableInBounds
    BY DEF FInv
  <1> QED BY <1>1, FileInvariance, PTL

\* Neither ufs_delete nor a close frees a file that a descriptor leads to, and
\* none is left that nothing leads to.
THEOREM FilesHeld == Spec => []FilesHeldExactly
  <1>1. ASSUME FInv PROVE FilesHeldExactly
    <2>1. \A f \in Files : Holders(file_descriptors, f)
                             = {i \in OpenSlots : file_descriptors[i].file = f}
      BY DEF Holders, OpenSlots
    <2>2. RefsExact
      BY <1>1, <2>1 DEF FInv, TypeOK, RefsCounted, RefsExact, OpenSlots
    <2> QED BY <1>1, <2>2 DEF FInv, FilesHeldExactly
  <1>2. FInv => FilesHeldExactly
    BY <1>1
  <1> QED BY <1>2, FileInvariance, PTL

\* A name leads to one file at most.
THEOREM NamesUnique == Spec => []UniqueNames
  <1>1. FInv => UniqueNames
    BY DEF FInv
  <1> QED BY <1>1, FileInvariance, PTL

-----------------------------------------------------------------------------
(***************************************************************************)
(* WithinLimits: descriptors stay inside their files, files within their   *)
(* limit and loops within both, at every boundary of a block, for any      *)
(* block size and any limit.                                               *)
(*                                                                         *)
(* Two hypotheses are needed and name what the code leaves to its callers: *)
(* ufs_resize is not asked for more than the last block holds, and a size  *)
(* added to MAX_FILE_SIZE does not overflow an int.                        *)
(***************************************************************************)

USE DEF vars, fileVars, dataVars, descVars, ioVars

SizesFit == ~ Grow /\ \A s \in Sizes : s + MAX_FILE_SIZE <= INT_MAX

-----------------------------------------------------------------------------
(***************************************************************************)
(* Arithmetic of blocks                                                    *)
(***************************************************************************)

At(block, offset) == block * BLOCK_SIZE + offset

\* Byte `offset' of block `block' is one of the first n blocks, and not behind
\* the end of a file whose last block holds occ bytes.
InFile(block, offset, n, occ) ==
  /\ block \in 0..(n - 1)
  /\ offset \in 0..(BLOCK_SIZE - 1)
  /\ At(block, offset) <= At(n - 1, occ)

\* The first byte of a file is inside it, whatever its length.
LEMMA FirstByte ==
  ASSUME NEW n \in Nat, n > 0, NEW occ \in Nat
  PROVE  InFile(0, 0, n, occ) /\ At(n - 1, occ) \in Nat
  <1>1. (n - 1) * BLOCK_SIZE \in Nat
    BY Constants
  <1> QED BY <1>1, Constants DEF InFile, At

\* The end of a file is inside it while its last block has room.
LEMMA LastByte ==
  ASSUME NEW block \in Nat, NEW offset \in Nat, offset < BLOCK_SIZE
  PROVE  InFile(block, offset, block + 1, offset)
  <1>1. (block + 1) - 1 = block
    OBVIOUS
  <1>2. At(block, offset) <= At((block + 1) - 1, offset)
    BY <1>1, Constants DEF At
  <1> QED BY <1>2, Constants DEF InFile

\* A file that gets one byte longer loses nobody: in its last block or, when
\* that is full, in a new one.
LEMMA OneByteMore ==
  ASSUME NEW block, NEW offset, NEW n \in Nat, NEW occ \in Nat,
         InFile(block, offset, n, occ)
  PROVE  /\ InFile(block, offset, n, occ + 1)
         /\ occ + 1 = BLOCK_SIZE => InFile(block, offset, n + 1, 0)
         /\ occ + 1 = BLOCK_SIZE => At(n, 0) = At(n - 1, occ) + 1
  BY Constants DEF InFile, At

\* The byte after one of a file: in the same block or at the start of the next.
LEMMA NextByte ==
  ASSUME NEW block, NEW offset, NEW n \in Nat, NEW occ \in Nat, occ < BLOCK_SIZE,
         InFile(block, offset, n, occ)
  PROVE  /\ offset + 1 # BLOCK_SIZE => At(block, offset + 1) = At(block, offset) + 1
         /\ offset + 1 = BLOCK_SIZE => At(block + 1, 0) = At(block, offset) + 1
         /\ block = n - 1 => offset <= occ
  BY Constants DEF InFile, At

\* Below the end of the file the next byte is inside it, and never in a new
\* block.
LEMMA NextByteInside ==
  ASSUME NEW block, NEW offset, NEW n \in Nat, NEW occ \in Nat, occ < BLOCK_SIZE,
         InFile(block, offset, n, occ), At(block, offset) < At(n - 1, occ)
  PROVE  /\ offset + 1 # BLOCK_SIZE => InFile(block, offset + 1, n, occ)
         /\ offset + 1 = BLOCK_SIZE => block # n - 1 /\ InFile(block + 1, 0, n, occ)
  <1>1. block \in Nat /\ offset \in Nat /\ block <= n - 1 /\ offset < BLOCK_SIZE
    BY Constants DEF InFile
  <1>2. offset + 1 # BLOCK_SIZE => InFile(block, offset + 1, n, occ)
    BY <1>1, Constants DEF InFile, At
  <1>3. offset + 1 = BLOCK_SIZE => block # n - 1
    BY <1>1, Constants DEF At
  <1>4. ASSUME offset + 1 = BLOCK_SIZE PROVE InFile(block + 1, 0, n, occ)
    <2>1. block + 1 \in 0..(n - 1)
      BY <1>1, <1>3, <1>4
    <2>2. (block + 1) * BLOCK_SIZE <= (n - 1) * BLOCK_SIZE
      BY <2>1, MulMono, Constants
    <2>3. (block + 1) * BLOCK_SIZE \in Nat /\ (n - 1) * BLOCK_SIZE \in Nat
      BY <2>1, Constants
    <2> QED BY <2>1, <2>2, <2>3, Constants DEF InFile, At
  <1> QED BY <1>2, <1>3, <1>4

\* What is not behind the new end of a file that is cut is inside what is left.
LEMMA NotBehind ==
  ASSUME NEW block, NEW offset, NEW n \in Nat, NEW occ \in Nat,
         InFile(block, offset, n, occ),
         NEW last \in Nat, NEW rest \in Nat,
         ~ (block > last \/ (block = last /\ offset > rest))
  PROVE  InFile(block, offset, last + 1, rest)
  <1>1. block \in Nat /\ offset \in Nat /\ offset < BLOCK_SIZE /\ block <= last
    BY Constants DEF InFile
  <1>2. CASE block = last
    BY <1>1, <1>2, Constants DEF InFile, At
  <1>3. CASE block < last
    <2>1. (block + 1) * BLOCK_SIZE <= last * BLOCK_SIZE
      BY <1>1, <1>3, MulMono, Constants
    <2>2. At(block, offset) <= last * BLOCK_SIZE
      BY <1>1, <2>1, Constants DEF At
    <2> QED BY <1>1, <1>3, <2>2, Constants DEF InFile, At
  <1> QED BY <1>1, <1>2, <1>3

\* One step of a loop over bytes, from (block, offset) to (block2, offset2), as
\* advance_descriptor and write_single_byte do it: at the end of the file it
\* gets one byte longer, elsewhere it stays as long as it is.
Counts(block, offset, n, occ, occ1) ==
  \/ occ1 = IF block = n - 1 /\ offset = occ THEN occ + 1 ELSE occ
  \/ occ1 = occ /\ At(block, offset) < At(n - 1, occ)

Advances(block, offset, n, occ1, block2, offset2, n2, occ2) ==
  \/ /\ offset + 1 # BLOCK_SIZE
     /\ block2 = block /\ offset2 = offset + 1 /\ n2 = n /\ occ2 = occ1
  \/ /\ offset + 1 = BLOCK_SIZE /\ block # n - 1
     /\ block2 = block + 1 /\ offset2 = 0 /\ n2 = n /\ occ2 = occ1
  \/ /\ offset + 1 = BLOCK_SIZE /\ block = n - 1
     /\ block2 = block + 1 /\ offset2 = 0 /\ n2 = n + 1 /\ occ2 = 0

\* The position after a byte is inside of the file again, one byte further.
LEMMA ByteStep ==
  ASSUME NEW block, NEW offset, NEW n \in Nat, NEW occ \in Nat, occ < BLOCK_SIZE,
         InFile(block, offset, n, occ),
         NEW block2, NEW offset2, NEW n2, NEW occ1, NEW occ2,
         Counts(block, offset, n, occ, occ1),
         Advances(block, offset, n, occ1, block2, offset2, n2, occ2)
  PROVE  /\ InFile(block2, offset2, n2, occ2)
         /\ At(block2, offset2) = At(block, offset) + 1
         /\ occ2 \in Nat /\ occ2 < BLOCK_SIZE
         /\ \/ n2 = n /\ occ2 = occ
            \/ n2 = n /\ occ2 = occ + 1 /\ At(n2 - 1, occ2) = At(block2, offset2)
            \/ /\ n2 = n + 1 /\ occ2 = 0 /\ occ + 1 = BLOCK_SIZE
               /\ At(n2 - 1, occ2) = At(block2, offset2)
  <1> USE DEF Counts, Advances
  <1>1. block \in Nat /\ offset \in Nat /\ block <= n - 1 /\ offset < BLOCK_SIZE
    BY Constants DEF InFile
  <1>2. /\ offset + 1 # BLOCK_SIZE => At(block, offset + 1) = At(block, offset) + 1
        /\ offset + 1 = BLOCK_SIZE => At(block + 1, 0) = At(block, offset) + 1
    BY NextByte
  <1>3. CASE block = n - 1 /\ offset = occ
    <2>1. At(block, offset) = At(n - 1, occ) /\ At(n - 1, occ) \in Nat
      BY <1>1, <1>3, Constants DEF At
    <2>2. occ1 = occ + 1
      BY <1>3, <2>1
    <2>3. CASE offset + 1 # BLOCK_SIZE
      <3>1. block2 = block /\ offset2 = offset + 1 /\ n2 = n /\ occ2 = occ + 1
        BY <2>2, <2>3
      <3>2. n2 = block + 1 /\ offset + 1 < BLOCK_SIZE /\ n2 - 1 = block
        BY <1>1, <1>3, <2>3, <3>1, Constants
      <3>3. InFile(block2, offset2, n2, occ2)
        BY <1>1, <1>3, <3>1, <3>2, LastByte
      <3> QED BY <1>1, <1>2, <1>3, <2>3, <3>1, <3>2, <3>3
    <2>4. CASE offset + 1 = BLOCK_SIZE
      <3>1. block2 = block + 1 /\ offset2 = 0 /\ n2 = n + 1 /\ occ2 = 0
        BY <1>3, <2>4
      <3>2. n2 = block2 + 1 /\ n2 - 1 = block2 /\ block2 \in Nat
        BY <1>1, <1>3, <3>1
      <3>3. InFile(block2, offset2, n2, occ2)
        BY <3>1, <3>2, LastByte, Constants
      <3> QED BY <1>2, <1>3, <2>4, <3>1, <3>2, <3>3, Constants
    <2> QED BY <2>3, <2>4
  <1>4. CASE ~ (block = n - 1 /\ offset = occ)
    <2>1. occ1 = occ
      BY <1>4
    <2>2. At(block, offset) < At(n - 1, occ)
      <3>1. CASE block = n - 1
        <4>1. offset <= occ
          BY <3>1, NextByte
        <4> QED BY <1>1, <1>4, <3>1, <4>1, Constants DEF At
      <3>2. CASE block < n - 1
        <4>1. (block + 1) * BLOCK_SIZE <= (n - 1) * BLOCK_SIZE
          BY <1>1, <3>2, MulMono, Constants
        <4>2. At(block, offset) < (n - 1) * BLOCK_SIZE
          BY <1>1, <4>1, Constants DEF At
        <4>3. (n - 1) * BLOCK_SIZE \in Nat /\ At(block, offset) \in Nat
          BY <1>1, <3>2, Constants DEF At
        <4> QED BY <4>2, <4>3, Constants DEF At
      <3> QED BY <1>1, <3>1, <3>2
    <2>3. /\ offset + 1 # BLOCK_SIZE => InFile(block, offset + 1, n, occ)
          /\ offset + 1 = BLOCK_SIZE => block # n - 1 /\ InFile(block + 1, 0, n, occ)
      BY <2>2, NextByteInside
    <2> QED BY <1>2, <2>1, <2>3
  <1> QED BY <1>3, <1>4

-----------------------------------------------------------------------------
(***************************************************************************)
(* The invariant                                                           *)
(***************************************************************************)

LInv == FInv /\ PositionInFile /\ SizeLimit /\ LoopInBounds

\* PositionInFile and SizeLimit in terms of InFile.
Inside(d, mem, occ) ==
  InFile(d.current_block, d.block_offset, Len(mem[d.file]), occ[d.file])

Fitting ==
  /\ \A f \in files : occupied[f] < BLOCK_SIZE
                      /\ At(Len(blocks[f]) - 1, occupied[f]) <= MAX_FILE_SIZE
  /\ \A i \in Slots : file_descriptors[i] # NULL => Inside(file_descriptors[i], blocks, occupied)

\* It says what PositionInFile and SizeLimit say, before a step,
LEMMA FittingIs == FInv => (PositionInFile /\ SizeLimit <=> Fitting)
  <1> SUFFICES ASSUME FInv PROVE PositionInFile /\ SizeLimit <=> Fitting
    OBVIOUS
  <1>1. \A f \in Files : Size(f) = At(Len(blocks[f]) - 1, occupied[f])
    BY DEF Size, LastBlock, At
  <1>2. \A i \in Slots : file_descriptors[i] # NULL => file_descriptors[i].file \in files
    BY DEF FInv, RefsCounted
  <1>3. files \subseteq Files /\ \A f \in files : Len(blocks[f]) > 0
    BY DEF FInv, TypeOK, HasBlocks
  <1>4. \A i \in OpenSlots :
          LET d == file_descriptors[i]
          IN  (/\ d.current_block \in 0..LastBlock(d.file)
               /\ d.block_offset \in Offsets
               /\ Position(d) <= Size(d.file)) <=> Inside(d, blocks, occupied)
    BY <1>1, <1>2, <1>3 DEF OpenSlots, Inside, InFile, LastBlock, Offsets, Position, At
  <1> QED BY <1>1, <1>3, <1>4 DEF PositionInFile, SizeLimit, Fitting, OpenSlots

\* and after one.
LEMMA FittingAfter == FInv' /\ Fitting' => PositionInFile' /\ SizeLimit'
  BY FittingIs, PTL

\* At the start there is nothing that could be out of bounds.
LEMMA InitLInv == Init => LInv
  <1> SUFFICES ASSUME Init PROVE LInv
    OBVIOUS
  <1>1. FInv
    BY InitFInv
  <1>2. Fitting
    BY DEF Init, Fitting
  <1>3. LoopInBounds
    BY DEF Init, LoopInBounds, Cell
  <1> QED BY <1>1, <1>2, <1>3, FittingIs DEF LInv

\* Steps that close descriptors and free files, or touch neither.
LEMMA KeepLimits ==
  ASSUME FInv, Fitting, files' \subseteq files,
         \A f \in files' : blocks'[f] = blocks[f] /\ occupied'[f] = occupied[f],
         \A i \in Slots : file_descriptors'[i] # NULL =>
                            /\ file_descriptors'[i] = file_descriptors[i]
                            /\ file_descriptors[i].file \in files'
  PROVE  Fitting'
  <1>1. \A i \in Slots : file_descriptors'[i] # NULL => Inside(file_descriptors'[i], blocks', occupied')
    BY DEF Fitting, Inside
  <1> QED BY <1>1 DEF Fitting

\* Steps outside of loops leave nothing to say about them.
LEMMA NoLoop ==
  ASSUME LoopInBounds, pc' \notin {"write", "read"}, buf' \in {buf, GARBAGE}
  PROVE  LoopInBounds'
  BY DEF LoopInBounds, Cell

\* ufs_open starts at the first byte.
LEMMA OpenLInv ==
  ASSUME LInv, NEW n \in Names, NEW flags \in FlagSets, ufs_open(n, flags)
  PROVE  LInv'
  <1>1. FInv /\ FInv' /\ Fitting /\ LoopInBounds
    BY OpenFInv, FittingIs DEF LInv
  <1>2. LoopInBounds'
    BY <1>1, NoLoop DEF ufs_open
  <1>3. Fitting'
    <2>1. CASE UNCHANGED <<fileVars, dataVars, descVars>>
      <3>1. \A i \in Slots : file_descriptors[i] # NULL => file_descriptors[i].file \in files
        BY <1>1 DEF FInv, RefsCounted
      <3> QED BY <1>1, <2>1, <3>1, KeepLimits
    <2>2. CASE \E f \in Files :
                 /\ \/ /\ f \in try_get_file_by_filename(n)
                       /\ UNCHANGED <<files, file_list, name, dataVars>>
                    \/ create_file(n, f)
                 /\ add_file_descriptor([file |-> f, current_block |-> 0,
                                         block_offset |-> 0, flags |-> flags])
      <3>1. PICK f \in Files :
              /\ \/ /\ f \in try_get_file_by_filename(n)
                    /\ UNCHANGED <<files, file_list, name, dataVars>>
                 \/ create_file(n, f)
              /\ add_file_descriptor([file |-> f, current_block |-> 0,
                                      block_offset |-> 0, flags |-> flags])
        BY <2>2
      <3> DEFINE d == [file |-> f, current_block |-> 0, block_offset |-> 0, flags |-> flags]
      <3>2. d \in Descriptor
        BY UserFSAssumption DEF Descriptor
      <3>3. PICK s \in Slots : file_descriptors[s] = NULL
                               /\ file_descriptors' = [file_descriptors EXCEPT ![s] = d]
        BY <1>1, <3>1, <3>2, AddDescriptor
      <3>4. \A i \in Slots : file_descriptors[i] # NULL => file_descriptors[i].file \in files
        BY <1>1 DEF FInv, RefsCounted
      <3>5. /\ files' = files \cup {f}
            /\ f \in files => blocks'[f] = blocks[f] /\ occupied'[f] = occupied[f]
            /\ f \notin files => Len(blocks'[f]) = 1 /\ occupied'[f] = 0
            /\ \A g \in files : g # f => blocks'[g] = blocks[g] /\ occupied'[g] = occupied[g]
        <4>1. CASE f \in try_get_file_by_filename(n) /\ UNCHANGED <<files, file_list, name, dataVars>>
          BY <1>1, <4>1 DEF try_get_file_by_filename, FInv, TypeOK
        <4>2. CASE create_file(n, f)
          <5>1. Len(<<NewBlock>>) = 1
            OBVIOUS
          <5> HIDE DEF d
          <5> QED BY <1>1, <4>2, <5>1 DEF create_file, FInv, TypeOK
        <4> QED BY <3>1, <4>1, <4>2
      <3>6. \A g \in files' : occupied'[g] < BLOCK_SIZE
                              /\ At(Len(blocks'[g]) - 1, occupied'[g]) <= MAX_FILE_SIZE
        <4>1. CASE f \in files
          BY <1>1, <3>5, <4>1 DEF Fitting
        <4>2. CASE f \notin files
          <5>1. At(Len(blocks'[f]) - 1, occupied'[f]) = 0
            <6>1. Len(blocks'[f]) - 1 = 0 /\ occupied'[f] = 0
              BY <3>5, <4>2
            <6>2. At(0, 0) = 0
              BY Constants DEF At
            <6> QED BY <6>1, <6>2
          <5>2. occupied'[f] < BLOCK_SIZE /\ 0 <= MAX_FILE_SIZE
            BY <3>5, <4>2, Constants
          <5> QED BY <1>1, <3>5, <4>2, <5>1, <5>2 DEF Fitting
        <4> QED BY <4>1, <4>2
      <3>7. Inside(d, blocks', occupied')
        <4>1. Len(blocks'[f]) \in Nat /\ Len(blocks'[f]) > 0 /\ occupied'[f] \in Nat
          BY <1>1, <3>5, LenProperties DEF FInv, TypeOK, HasBlocks
        <4> QED BY <4>1, FirstByte DEF Inside
      <3>8. ASSUME NEW i \in Slots, file_descriptors'[i] # NULL
            PROVE  Inside(file_descriptors'[i], blocks', occupied')
        <4>1. CASE i = s
          <5>1. file_descriptors'[i] = d
            BY <1>1, <3>3, <4>1 DEF FInv, TypeOK
          <5> QED BY <3>7, <5>1 DEF Inside
        <4>2. CASE i # s
          <5>1. file_descriptors'[i] = file_descriptors[i]
            BY <1>1, <3>3, <4>2 DEF FInv, TypeOK
          <5> HIDE DEF d
          <5> QED BY <1>1, <3>4, <3>5, <3>8, <5>1 DEF Fitting, Inside
        <4> QED BY <4>1, <4>2
      <3> QED BY <3>6, <3>8 DEF Fitting
    <2> QED BY <2>1, <2>2 DEF ufs_open
  <1> QED BY <1>1, <1>2, <1>3, FittingAfter DEF LInv

\* ufs_write and ufs_read check their size and start; ReadCount stops at the
\* end of the file.
LEMMA StartLInv ==
  ASSUME SizesFit, LInv, NEW fd \in -1..FD_BOUND, NEW size \in Sizes,
         ufs_write(fd, size) \/ ufs_read(fd, size)
  PROVE  LInv'
  <1>1. FInv /\ FInv' /\ Fitting /\ LoopInBounds
    BY StartFInv, FittingIs DEF LInv
  <1>2. UNCHANGED <<fileVars, dataVars, descVars>>
    BY DEF ufs_write, ufs_read
  <1>3. Fitting'
    <2>1. \A i \in Slots : file_descriptors[i] # NULL => file_descriptors[i].file \in files
      BY <1>1 DEF FInv, RefsCounted
    <2> QED BY <1>1, <1>2, <2>1, KeepLimits
  <1>4. CASE UNCHANGED ioVars
    <2>1. LoopInBounds'
      BY <1>1, <1>2, <1>4 DEF LoopInBounds, Valid, Position, Size, LastBlock
    <2> QED BY <1>1, <1>3, <2>1, FittingAfter DEF LInv
  <1>5. CASE Valid(fd) /\ ~ UNCHANGED ioVars
    <2> DEFINE d == file_descriptors[fd]
    <2>1. fd \in Slots /\ d \in Descriptor /\ d # NULL /\ d.file \in files
      <3>1. fd \in Int
        BY Constants
      <3> QED BY <1>1, <1>5, <3>1, ValidSlot DEF Valid
    <2>2. Position(d) \in Int /\ Size(d.file) \in Int
      BY <1>1, <2>1, SizeType DEF FInv, TypeOK
    <2>3. 0 <= Position(d) /\ Position(d) <= Size(d.file) /\ Size(d.file) <= MAX_FILE_SIZE
      <3>1. Inside(d, blocks, occupied)
        BY <1>1, <2>1 DEF Fitting
      <3>2. Position(d) = At(d.current_block, d.block_offset)
        BY DEF Position, At
      <3>3. Size(d.file) = At(Len(blocks[d.file]) - 1, occupied[d.file])
        BY DEF Size, LastBlock, At
      <3>4. 0 <= At(d.current_block, d.block_offset)
        BY <2>1, Constants DEF At, Descriptor
      <3> QED BY <1>1, <2>1, <3>1, <3>2, <3>3, <3>4 DEF Inside, InFile, Fitting
    <2>4. ToInt(size) = size /\ size \in Nat
      BY Constants, UserFSAssumption DEF ToInt, SizesFit
    <2>5. ufs_write(fd, size) => /\ StartLoop("write", fd, size)
                                 /\ Position(d) + size <= MAX_FILE_SIZE
      <3>1. ToInt(Position(d) + size) = Position(d) + size
        BY <2>2, <2>3, <2>4, Constants DEF ToInt, SizesFit
      <3>2. ufs_write(fd, size) => StartLoop("write", fd, ToInt(size))
                                   /\ ~ WriteOverLimit(d, ToInt(size))
        BY <1>5 DEF ufs_write
      <3> QED BY <2>2, <2>4, <3>1, <3>2, Constants DEF WriteOverLimit
    <2>6. ufs_read(fd, size) => \E n \in Nat : /\ StartLoop("read", fd, n)
                                              /\ Position(d) + n <= Size(d.file)
      <3>1. ReadCount(d, size) \in Nat /\ Position(d) + ReadCount(d, size) <= Size(d.file)
        BY <2>2, <2>3, <2>4 DEF ReadCount
      <3>2. ufs_read(fd, size) => StartLoop("read", fd, ReadCount(d, size))
        BY <1>5, <2>4 DEF ufs_read
      <3> QED BY <3>1, <3>2
    <2>7. /\ pc' \in {"write", "read"} => Valid(fd) /\ io_fd' = fd /\ io_left' >= 0
          /\ pc' = "write" => Position(d) + io_left' <= MAX_FILE_SIZE
          /\ pc' = "read" => Position(d) + io_left' <= Size(d.file)
          /\ buf' \in Cell
      BY <1>1, <1>5, <2>4, <2>5, <2>6 DEF StartLoop, LoopInBounds
    <2>8. LoopInBounds'
      BY <1>2, <2>7 DEF LoopInBounds, Valid, Position, Size, LastBlock
    <2> QED BY <1>1, <1>3, <2>8, FittingAfter DEF LInv
  <1> QED BY <1>4, <1>5 DEF ufs_write, ufs_read

\* The loop returns; ufs_close, ufs_delete and ufs_destroy free no file that a
\* descriptor still leads to.
LEMMA FreeLInv ==
  ASSUME LInv, FInv', files' \subseteq files,
         \A f \in files' : blocks'[f] = blocks[f] /\ occupied'[f] = occupied[f],
         \A i \in Slots : file_descriptors'[i] # NULL =>
                            file_descriptors'[i] = file_descriptors[i],
         pc' \notin {"write", "read"}, buf' \in {buf, GARBAGE}
  PROVE  LInv'
  <1>1. FInv /\ FInv' /\ Fitting /\ LoopInBounds
    BY FittingIs DEF LInv
  <1>2. \A i \in Slots : file_descriptors'[i] # NULL => file_descriptors[i].file \in files'
    BY <1>1 DEF FInv, RefsCounted
  <1>3. Fitting'
    BY <1>1, <1>2, KeepLimits
  <1> QED BY <1>1, <1>3, NoLoop, FittingAfter DEF LInv

\* ufs_close: the other descriptors and their files are as they were.
LEMMA CloseLInv ==
  ASSUME LInv, NEW fd \in -1..FD_BOUND, ufs_close(fd)
  PROVE  LInv'
  <1>1. FInv /\ FInv'
    BY CloseFInv DEF LInv
  <1>2. CASE UNCHANGED <<fileVars, dataVars, descVars>>
    BY <1>1, <1>2, FreeLInv DEF ufs_close
  <1>3. CASE /\ \E S : FreeFiles(S)
             /\ file_descriptors' = [file_descriptors EXCEPT ![fd] = NULL]
    <2>1. PICK S : FreeFiles(S)
      BY <1>3
    <2>2. files' \subseteq files
          /\ \A f \in files' : blocks'[f] = blocks[f] /\ occupied'[f] = occupied[f]
      BY <1>1, <2>1 DEF FreeFiles, FInv, TypeOK
    <2>3. \A i \in Slots : file_descriptors'[i] # NULL =>
                             file_descriptors'[i] = file_descriptors[i]
      BY <1>1, <1>3 DEF FInv, TypeOK
    <2> QED BY <1>1, <2>2, <2>3, FreeLInv DEF ufs_close
  <1> QED BY <1>2, <1>3 DEF ufs_close

\* ufs_delete: a file with a descriptor stays.
LEMMA DeleteLInv ==
  ASSUME LInv, NEW n \in Names, ufs_delete(n)
  PROVE  LInv'
  <1>1. FInv /\ FInv'
    BY DeleteFInv DEF LInv
  <1>2. UNCHANGED <<descVars, ioVars>> /\ pc = "idle"
    BY DEF ufs_delete
  <1>3. UNCHANGED <<files, dataVars>> \/ \E S : FreeFiles(S)
    BY DEF ufs_delete
  <1>4. files' \subseteq files
        /\ \A f \in files' : blocks'[f] = blocks[f] /\ occupied'[f] = occupied[f]
    BY <1>1, <1>3 DEF FreeFiles, FInv, TypeOK
  <1> QED BY <1>1, <1>2, <1>4, FreeLInv

\* ufs_destroy: there are no descriptors left.
LEMMA DestroyLInv ==
  ASSUME LInv, ufs_destroy
  PROVE  LInv'
  <1>1. FInv /\ FInv'
    BY DestroyFInv DEF LInv
  <1>2. \E S : FreeFiles(S)
    BY DEF ufs_destroy
  <1>3. files' \subseteq files
        /\ \A f \in files' : blocks'[f] = blocks[f] /\ occupied'[f] = occupied[f]
    BY <1>1, <1>2 DEF FreeFiles, FInv, TypeOK
  <1> QED BY <1>1, <1>3, FreeLInv DEF ufs_destroy

\* The end of a loop moves nothing.
LEMMA EndLoopLInv ==
  ASSUME LInv, EndLoop
  PROVE  LInv'
  <1>1. FInv'
    BY EndLoopFInv DEF LInv
  <1> QED BY <1>1, FreeLInv DEF EndLoop

\* ufs_resize: what lies behind the new end is drawn back to it.
LEMMA ResizeLInv ==
  ASSUME SizesFit, LInv, NEW fd \in -1..FD_BOUND, NEW new_size \in Sizes,
         ufs_resize(fd, new_size)
  PROVE  LInv'
  <1>1. FInv /\ FInv' /\ Fitting /\ LoopInBounds
    BY ResizeFInv, FittingIs DEF LInv
  <1>2. CASE UNCHANGED <<dataVars, file_descriptors>>
    BY <1>1, <1>2, FreeLInv DEF ufs_resize
  <1>3. CASE /\ Valid(fd) /\ new_size < MAX_FILE_SIZE
             /\ Grow \/ new_size < Len(blocks[file_descriptors[fd].file]) * BLOCK_SIZE
             /\ reduce_file_size(file_descriptors[fd].file, new_size)
    <2> DEFINE f == file_descriptors[fd].file
               last == LastBlock(f)
               block == IF new_size \div BLOCK_SIZE < last
                        THEN new_size \div BLOCK_SIZE ELSE last
               offset == new_size - block * BLOCK_SIZE
    <2>1. f \in files /\ f \in Files /\ blocks[f] \in Seq([Offsets -> Cell])
          /\ Len(blocks[f]) > 0 /\ new_size \in Nat
      <3>1. fd \in Int
        BY Constants
      <3> QED BY <1>1, <1>3, <3>1, ValidSlot, UserFSAssumption DEF FInv, TypeOK, HasBlocks
    <2>2. last \in Nat /\ last + 1 = Len(blocks[f]) /\ new_size < (last + 1) * BLOCK_SIZE
      BY <1>3, <2>1, LenProperties DEF LastBlock, SizesFit
    <2>3. block \in 0..last /\ offset \in Nat /\ offset < BLOCK_SIZE
      <3> HIDE DEF last
      <3> QED BY <2>1, <2>2, NewEnd
    <2>4. At(block, offset) = new_size
      BY <2>1, <2>3, Constants DEF At
    <2>5. /\ blocks' = [blocks EXCEPT ![f] = SubSeq(@, 1, block + 1)]
          /\ occupied' = [occupied EXCEPT ![f] = offset]
          /\ file_descriptors' = [i \in Slots |->
               IF i \in OpenSlots /\ file_descriptors[i].file = f
                  /\ Behind(file_descriptors[i], block, offset)
               THEN [file_descriptors[i] EXCEPT !.current_block = block,
                                               !.block_offset = offset]
               ELSE file_descriptors[i]]
      BY <1>3 DEF reduce_file_size
    <2> HIDE DEF f, last, block, offset
    <2>6. block \in Nat /\ Len(SubSeq(blocks[f], 1, block + 1)) = block + 1
      <3>1. \A i \in 1..(block + 1) : blocks[f][i] \in [Offsets -> Cell]
        BY <2>1, <2>2, <2>3, ElementOfSeq
      <3> QED BY <2>2, <2>3, <3>1, SubSeqProperties
    <2>7. /\ Len(blocks'[f]) = block + 1 /\ occupied'[f] = offset
          /\ \A g \in files : g # f => blocks'[g] = blocks[g] /\ occupied'[g] = occupied[g]
      BY <1>1, <2>1, <2>5, <2>6 DEF FInv, TypeOK
    <2>8. files' = files /\ \A g \in files : occupied'[g] < BLOCK_SIZE
                         /\ At(Len(blocks'[g]) - 1, occupied'[g]) <= MAX_FILE_SIZE
      <3>1. Len(blocks'[f]) - 1 = block
        BY <2>6, <2>7
      <3>2. At(Len(blocks'[f]) - 1, occupied'[f]) = new_size
        BY <2>4, <2>7, <3>1
      <3>3. At(Len(blocks'[f]) - 1, occupied'[f]) <= MAX_FILE_SIZE
        BY <1>3, <2>1, <3>2, Constants
      <3>4. files' = files
        BY DEF ufs_resize
      <3> QED BY <1>1, <2>3, <2>7, <3>3, <3>4 DEF Fitting
    <2>9. ASSUME NEW i \in Slots, file_descriptors'[i] # NULL
          PROVE  Inside(file_descriptors'[i], blocks', occupied')
      <3> DEFINE d == file_descriptors[i]
      <3>1. d # NULL
        BY <2>5, <2>9 DEF OpenSlots
      <3>2. d \in Descriptor /\ d.file \in files /\ Inside(d, blocks, occupied)
        BY <1>1, <3>1 DEF FInv, TypeOK, RefsCounted, Fitting
      <3>3. file_descriptors'[i] = IF d.file = f /\ Behind(d, block, offset)
                                   THEN Moved(d, block, offset) ELSE d
        BY <2>5, <3>1 DEF OpenSlots, Moved
      <3> HIDE DEF d
      <3>4. CASE d.file # f
        BY <2>7, <3>2, <3>3, <3>4 DEF Inside
      <3>5. CASE d.file = f /\ Behind(d, block, offset)
        <4>1. file_descriptors'[i] = Moved(d, block, offset)
          BY <3>3, <3>5
        <4>2. /\ Moved(d, block, offset).file = f
              /\ Moved(d, block, offset).current_block = block
              /\ Moved(d, block, offset).block_offset = offset
          BY <2>3, <2>6, <3>2, <3>5, MovedDescriptor
        <4>3. InFile(block, offset, block + 1, offset)
          BY <2>3, <2>6, LastByte
        <4> QED BY <2>7, <4>1, <4>2, <4>3 DEF Inside
      <3>6. CASE d.file = f /\ ~ Behind(d, block, offset)
        <4>1. InFile(d.current_block, d.block_offset, last + 1, occupied[f])
              /\ occupied[f] \in Nat
          BY <1>1, <2>1, <2>2, <3>2, <3>6 DEF Inside, FInv, TypeOK
        <4>2. InFile(d.current_block, d.block_offset, block + 1, offset)
          BY <2>2, <2>3, <2>6, <3>6, <4>1, NotBehind DEF Behind
        <4> QED BY <2>7, <3>3, <3>6, <4>2 DEF Inside
      <3> QED BY <3>4, <3>5, <3>6
    <2>10. Fitting'
      BY <2>8, <2>9 DEF Fitting
    <2> QED BY <1>1, <2>10, NoLoop, FittingAfter DEF LInv, ufs_resize
  <1> QED BY <1>2, <1>3 DEF ufs_resize

\* A step of a loop moves its descriptor by one byte inside its file, which gets
\* one byte longer if it was at the end and stays as long as it is if not.
ByteMoved ==
  LET d    == file_descriptors[io_fd]
      d2   == file_descriptors'[io_fd]
      f    == d.file
      n    == Len(blocks[f])
      n2   == Len(blocks'[f])
      occ  == occupied[f]
      occ2 == occupied'[f]
  IN  /\ blocks[f] \in Seq([Offsets -> Cell]) /\ n \in Nat /\ n > 0 /\ occ \in Nat
      /\ occ < BLOCK_SIZE /\ InFile(d.current_block, d.block_offset, n, occ)
      /\ d2.file = f
      /\ \A i \in Slots : i # io_fd => file_descriptors'[i] = file_descriptors[i]
      /\ \A g \in files : g # f => blocks'[g] = blocks[g] /\ occupied'[g] = occupied[g]
      /\ InFile(d2.current_block, d2.block_offset, n2, occ2)
      /\ At(d2.current_block, d2.block_offset) = At(d.current_block, d.block_offset) + 1
      /\ occ2 \in Nat /\ occ2 < BLOCK_SIZE
      /\ \/ n2 = n /\ occ2 = occ
         \/ /\ n2 = n /\ occ2 = occ + 1
            /\ At(n2 - 1, occ2) = At(d2.current_block, d2.block_offset)
         \/ /\ n2 = n + 1 /\ occ2 = 0 /\ occ + 1 = BLOCK_SIZE
            /\ At(n2 - 1, occ2) = At(d2.current_block, d2.block_offset)

\* The step of either loop does that.
LEMMA LoopStepMoves ==
  ASSUME LInv, (\E b \in Byte : WriteByte(b)) \/ ReadByte
  PROVE  ByteMoved
  <1> DEFINE d == file_descriptors[io_fd]
             f == d.file
             d2 == file_descriptors'[io_fd]
             n == Len(blocks[f])
             n2 == Len(blocks'[f])
             occ == occupied[f]
             occ2 == occupied'[f]
  <1>1. FInv /\ FInv' /\ Fitting /\ LoopInBounds
    BY LoopStepFInv, FittingIs DEF LInv
  <1>2. /\ io_fd \in Slots /\ d # NULL /\ d \in Descriptor /\ f \in files /\ f \in Files
        /\ pc \in {"write", "read"}
    BY <1>1, LoopDescriptor
  <1>3. /\ blocks[f] \in Seq([Offsets -> Cell]) /\ n \in Nat /\ n > 0 /\ occ \in Nat
        /\ occ < BLOCK_SIZE /\ InFile(d.current_block, d.block_offset, n, occ)
    BY <1>1, <1>2, LenProperties DEF FInv, TypeOK, HasBlocks, Fitting, Inside
  <1>4. /\ io_left \in Int /\ io_left > 0 /\ io_left' = io_left - 1
        /\ UNCHANGED <<fileVars, file_descriptor_count, pc, io_fd>>
    BY <1>1 DEF WriteByte, ReadByte, FInv, TypeOK
  <1>5. \E mem \in Seq([Offsets -> Cell]), occ1 \in Nat :
          /\ Len(mem) = n
          /\ AdvanceDescriptor(io_fd, mem, occ1)
          /\ \/ occ1 = IF d.current_block = n - 1 /\ d.block_offset = occ THEN occ + 1 ELSE occ
             \/ pc = "read" /\ occ1 = occ
    <2>1. CASE \E b \in Byte : WriteByte(b)
      <3>1. PICK b \in Byte : WriteByte(b)
        BY <2>1
      <3> DEFINE mem == Written(blocks[f], d.current_block + 1, d.block_offset, b)
      <3>2. mem \in Seq([Offsets -> Cell]) /\ Len(mem) = n
        <4>1. b \in Cell
          BY DEF Cell
        <4> HIDE DEF f
        <4> QED BY <1>3, <4>1, ByteWritten
      <3>3. OccupiedAfterWrite(d) \in Nat
            /\ OccupiedAfterWrite(d) =
                 IF d.current_block = n - 1 /\ d.block_offset = occ THEN occ + 1 ELSE occ
        BY <1>3 DEF OccupiedAfterWrite, LastBlock
      <3>4. AdvanceDescriptor(io_fd, mem, OccupiedAfterWrite(d))
        BY <3>1 DEF WriteByte, Written
      <3> HIDE DEF mem
      <3> QED BY <3>2, <3>3, <3>4
    <2>2. CASE ReadByte
      BY <1>3, <2>2 DEF ReadByte
    <2> QED BY <2>1, <2>2
  <1>6. PICK mem \in Seq([Offsets -> Cell]), occ1 \in Nat :
          /\ Len(mem) = n
          /\ AdvanceDescriptor(io_fd, mem, occ1)
          /\ \/ occ1 = IF d.current_block = n - 1 /\ d.block_offset = occ THEN occ + 1 ELSE occ
             \/ pc = "read" /\ occ1 = occ
    BY <1>5
  <1>7. Counts(d.current_block, d.block_offset, n, occ, occ1)
    <2>1. Position(d) = At(d.current_block, d.block_offset) /\ Size(f) = At(n - 1, occ)
      BY DEF Position, Size, LastBlock, At
    <2>2. pc = "read" => Position(d) + io_left <= Size(f)
      BY <1>1 DEF LoopInBounds
    <2>3. Position(d) \in Int /\ Size(f) \in Int
      BY <1>1, <1>2, SizeType DEF FInv, TypeOK
    <2> QED BY <1>4, <1>6, <2>1, <2>2, <2>3 DEF Counts
  <1>8. /\ Advances(d.current_block, d.block_offset, n, occ1,
                    d2.current_block, d2.block_offset, n2, occ2)
        /\ d2.file = f
        /\ \A i \in Slots : i # io_fd => file_descriptors'[i] = file_descriptors[i]
        /\ \A g \in files : g # f => blocks'[g] = blocks[g] /\ occupied'[g] = occupied[g]
    <2>1. /\ blocks \in [Files -> Seq([Offsets -> Cell])] /\ occupied \in [Files -> Nat]
          /\ file_descriptors \in [Slots -> Descriptor \cup {NULL}] /\ files \subseteq Files
      BY <1>1 DEF FInv, TypeOK
    <2>2. Len(Append(mem, NewBlock)) = n + 1
      BY <1>6, NewBlockType, AppendProperties
    <2>3. \E block, offset :
            /\ file_descriptors' = [file_descriptors EXCEPT
                 ![io_fd].current_block = block, ![io_fd].block_offset = offset]
            /\ \/ /\ d.block_offset + 1 # BLOCK_SIZE
                  /\ block = d.current_block /\ offset = d.block_offset + 1
                  /\ blocks' = [blocks EXCEPT ![f] = mem]
                  /\ occupied' = [occupied EXCEPT ![f] = occ1]
               \/ /\ d.block_offset + 1 = BLOCK_SIZE /\ d.current_block # n - 1
                  /\ block = d.current_block + 1 /\ offset = 0
                  /\ blocks' = [blocks EXCEPT ![f] = mem]
                  /\ occupied' = [occupied EXCEPT ![f] = occ1]
               \/ /\ d.block_offset + 1 = BLOCK_SIZE /\ d.current_block = n - 1
                  /\ block = d.current_block + 1 /\ offset = 0
                  /\ blocks' = [blocks EXCEPT ![f] = Append(mem, NewBlock)]
                  /\ occupied' = [occupied EXCEPT ![f] = 0]
      BY <1>6 DEF AdvanceDescriptor, LastBlock
    <2>4. PICK block, offset :
            /\ file_descriptors' = [file_descriptors EXCEPT
                 ![io_fd].current_block = block, ![io_fd].block_offset = offset]
            /\ \/ /\ d.block_offset + 1 # BLOCK_SIZE
                  /\ block = d.current_block /\ offset = d.block_offset + 1
                  /\ blocks' = [blocks EXCEPT ![f] = mem]
                  /\ occupied' = [occupied EXCEPT ![f] = occ1]
               \/ /\ d.block_offset + 1 = BLOCK_SIZE /\ d.current_block # n - 1
                  /\ block = d.current_block + 1 /\ offset = 0
                  /\ blocks' = [blocks EXCEPT ![f] = mem]
                  /\ occupied' = [occupied EXCEPT ![f] = occ1]
               \/ /\ d.block_offset + 1 = BLOCK_SIZE /\ d.current_block = n - 1
                  /\ block = d.current_block + 1 /\ offset = 0
                  /\ blocks' = [blocks EXCEPT ![f] = Append(mem, NewBlock)]
                  /\ occupied' = [occupied EXCEPT ![f] = 0]
      BY <2>3
    <2>5. /\ d2.current_block = block /\ d2.block_offset = offset /\ d2.file = f
          /\ \A i \in Slots : i # io_fd => file_descriptors'[i] = file_descriptors[i]
      BY <1>2, <2>1, <2>4 DEF Descriptor
    <2>6. Advances(d.current_block, d.block_offset, n, occ1, block, offset, n2, occ2)
      BY <1>2, <1>6, <2>1, <2>2, <2>4 DEF Advances
    <2>7. \A g \in files : g # f => blocks'[g] = blocks[g] /\ occupied'[g] = occupied[g]
      BY <2>1, <2>4
    <2> QED BY <2>5, <2>6, <2>7
  <1>9. /\ InFile(d2.current_block, d2.block_offset, n2, occ2)
        /\ At(d2.current_block, d2.block_offset) = At(d.current_block, d.block_offset) + 1
        /\ occ2 \in Nat /\ occ2 < BLOCK_SIZE
        /\ \/ n2 = n /\ occ2 = occ
           \/ /\ n2 = n /\ occ2 = occ + 1
              /\ At(n2 - 1, occ2) = At(d2.current_block, d2.block_offset)
           \/ /\ n2 = n + 1 /\ occ2 = 0 /\ occ + 1 = BLOCK_SIZE
              /\ At(n2 - 1, occ2) = At(d2.current_block, d2.block_offset)
    <2> DEFINE block == d.current_block
               offset == d.block_offset
               block2 == d2.current_block
               offset2 == d2.block_offset
    <2>1. Advances(block, offset, n, occ1, block2, offset2, n2, occ2)
      BY <1>8
    <2>2. Counts(block, offset, n, occ, occ1)
      BY <1>7
    <2>3. n \in Nat /\ occ \in Nat /\ occ < BLOCK_SIZE /\ InFile(block, offset, n, occ)
      BY <1>3
    <2> HIDE DEF block, offset, block2, offset2, n, n2, occ, occ2
    <2>4. /\ InFile(block2, offset2, n2, occ2)
          /\ At(block2, offset2) = At(block, offset) + 1
          /\ occ2 \in Nat /\ occ2 < BLOCK_SIZE
          /\ \/ n2 = n /\ occ2 = occ
             \/ n2 = n /\ occ2 = occ + 1 /\ At(n2 - 1, occ2) = At(block2, offset2)
             \/ /\ n2 = n + 1 /\ occ2 = 0 /\ occ + 1 = BLOCK_SIZE
                /\ At(n2 - 1, occ2) = At(block2, offset2)
      BY <2>1, <2>2, <2>3, ByteStep
    <2> QED BY <2>4 DEF block, offset, block2, offset2
  <1> QED BY <1>3, <1>8, <1>9 DEF ByteMoved

\* A step of a loop moves its descriptor by one byte, and one byte less is left
\* to go.
LEMMA LoopStepLInv ==
  ASSUME LInv, (\E b \in Byte : WriteByte(b)) \/ ReadByte
  PROVE  LInv'
  <1> DEFINE d == file_descriptors[io_fd]
             f == d.file
             d2 == file_descriptors'[io_fd]
             n == Len(blocks[f])
             n2 == Len(blocks'[f])
             occ == occupied[f]
             occ2 == occupied'[f]
  <1>1. FInv /\ FInv' /\ Fitting /\ LoopInBounds
    BY LoopStepFInv, FittingIs DEF LInv
  <1>2. /\ io_fd \in Slots /\ d # NULL /\ d \in Descriptor /\ f \in files /\ f \in Files
        /\ pc \in {"write", "read"}
    BY <1>1, LoopDescriptor
  <1>3. /\ blocks[f] \in Seq([Offsets -> Cell]) /\ n \in Nat /\ n > 0 /\ occ \in Nat
        /\ occ < BLOCK_SIZE /\ InFile(d.current_block, d.block_offset, n, occ)
    BY LoopStepMoves DEF ByteMoved
  <1>4. /\ io_left \in Int /\ io_left > 0 /\ io_left' = io_left - 1
        /\ UNCHANGED <<fileVars, file_descriptor_count, pc, io_fd>>
    BY <1>1 DEF WriteByte, ReadByte, FInv, TypeOK
  <1>5. /\ d2.file = f
        /\ \A i \in Slots : i # io_fd => file_descriptors'[i] = file_descriptors[i]
        /\ \A g \in files : g # f => blocks'[g] = blocks[g] /\ occupied'[g] = occupied[g]
    BY LoopStepMoves DEF ByteMoved
  <1>6. /\ InFile(d2.current_block, d2.block_offset, n2, occ2)
        /\ At(d2.current_block, d2.block_offset) = At(d.current_block, d.block_offset) + 1
        /\ occ2 \in Nat /\ occ2 < BLOCK_SIZE
        /\ \/ n2 = n /\ occ2 = occ
           \/ /\ n2 = n /\ occ2 = occ + 1
              /\ At(n2 - 1, occ2) = At(d2.current_block, d2.block_offset)
           \/ /\ n2 = n + 1 /\ occ2 = 0 /\ occ + 1 = BLOCK_SIZE
              /\ At(n2 - 1, occ2) = At(d2.current_block, d2.block_offset)
    BY LoopStepMoves DEF ByteMoved
  <1> HIDE DEF f, n, n2, occ, occ2
  <1>7. Fitting'
    <2>1. files' = files
      BY <1>4
    <2>2. At(n2 - 1, occ2) <= MAX_FILE_SIZE
      <3>1. CASE n2 = n /\ occ2 = occ
        BY <1>1, <1>2, <3>1 DEF Fitting, n, occ
      <3>2. CASE At(n2 - 1, occ2) = At(d2.current_block, d2.block_offset) /\ ~ (n2 = n /\ occ2 = occ)
        <4>1. pc = "write" => At(d.current_block, d.block_offset) + io_left <= MAX_FILE_SIZE
          BY <1>1 DEF LoopInBounds, Position, At
        <4>2. At(d.current_block, d.block_offset) \in Nat
          BY <1>2, Constants DEF At, Descriptor
        <4>3. CASE pc = "write"
          BY <1>4, <1>6, <3>2, <4>1, <4>2, <4>3, Constants
        <4>4. CASE pc = "read"
          <5>1. At(d.current_block, d.block_offset) + io_left <= At(n - 1, occ)
            BY <1>1, <4>4 DEF LoopInBounds, Position, Size, LastBlock, At, f, n, occ
          <5>2. At(n - 1, occ) <= MAX_FILE_SIZE
            BY <1>1, <1>2 DEF Fitting, n, occ
          <5>3. At(n - 1, occ) \in Int
            BY <1>3, Constants DEF At
          <5> QED BY <1>4, <1>6, <3>2, <4>2, <5>1, <5>2, <5>3, Constants
        <4> QED BY <1>2, <4>3, <4>4
      <3> QED BY <1>6, <3>1, <3>2
    <2>3. \A g \in files : occupied'[g] < BLOCK_SIZE
                           /\ At(Len(blocks'[g]) - 1, occupied'[g]) <= MAX_FILE_SIZE
      BY <1>1, <1>5, <1>6, <2>2 DEF Fitting, n2, occ2
    <2>4. ASSUME NEW i \in Slots, file_descriptors'[i] # NULL
          PROVE  Inside(file_descriptors'[i], blocks', occupied')
      <3>1. CASE i = io_fd
        BY <1>5, <1>6, <3>1 DEF Inside, n2, occ2
      <3>2. CASE i # io_fd
        <4> DEFINE e == file_descriptors[i]
        <4>1. file_descriptors'[i] = e /\ e # NULL
          BY <1>5, <2>4, <3>2
        <4>2. e.file \in files /\ Inside(e, blocks, occupied)
          BY <1>1, <4>1 DEF FInv, RefsCounted, Fitting
        <4> HIDE DEF e
        <4>3. CASE e.file # f
          BY <1>5, <4>1, <4>2, <4>3 DEF Inside
        <4>4. CASE e.file = f
          <5>1. InFile(e.current_block, e.block_offset, n, occ)
            BY <4>2, <4>4 DEF Inside, n, occ
          <5>2. /\ InFile(e.current_block, e.block_offset, n, occ + 1)
                /\ occ + 1 = BLOCK_SIZE => InFile(e.current_block, e.block_offset, n + 1, 0)
            BY <1>3, <5>1, OneByteMore
          <5>3. InFile(e.current_block, e.block_offset, n2, occ2)
            BY <1>6, <5>1, <5>2
          <5> QED BY <4>1, <4>4, <5>3 DEF Inside, n2, occ2
        <4> QED BY <4>3, <4>4
      <3> QED BY <3>1, <3>2
    <2> QED BY <2>1, <2>3, <2>4 DEF Fitting
  <1>8. LoopInBounds'
    <2>1. Valid(io_fd)'
      <3>1. pc' \in {"write", "read"}
        BY <1>2, <1>4
      <3> QED BY <1>1, <3>1 DEF FInv, LoopHasDescriptor
    <2>2. buf' \in Cell
      <3>1. CASE \E b \in Byte : WriteByte(b)
        BY <3>1 DEF WriteByte, Cell
      <3>2. CASE ReadByte
        <4>1. d.current_block + 1 \in 1..n /\ d.block_offset \in Offsets
          BY <1>3 DEF InFile, Offsets
        <4>2. blocks[f][d.current_block + 1] \in [Offsets -> Cell]
          BY <1>3, <4>1, ElementOfSeq DEF n
        <4>3. buf' = blocks[f][d.current_block + 1][d.block_offset]
          BY <3>2 DEF ReadByte, f
        <4> QED BY <4>1, <4>2, <4>3
      <3> QED BY <3>1, <3>2
    <2>3. At(d.current_block, d.block_offset) \in Nat
      BY <1>2, Constants DEF At, Descriptor
    <2>4. pc = "write" => At(d2.current_block, d2.block_offset) + io_left' <= MAX_FILE_SIZE
      <3>1. pc = "write" => At(d.current_block, d.block_offset) + io_left <= MAX_FILE_SIZE
        BY <1>1 DEF LoopInBounds, Position, At
      <3> QED BY <1>4, <1>6, <2>3, <3>1, Constants
    <2>5. pc = "read" => At(d2.current_block, d2.block_offset) + io_left' <= At(n2 - 1, occ2)
      <3>1. pc = "read" => At(d.current_block, d.block_offset) + io_left <= At(n - 1, occ)
        BY <1>1 DEF LoopInBounds, Position, Size, LastBlock, At, f, n, occ
      <3>2. pc = "read" => n2 = n /\ occ2 = occ
        <4>1. At(n - 1, occ + 1) = At(n - 1, occ) + 1 /\ At(n - 1, occ) \in Int
          BY <1>3, Constants DEF At
        <4>2. occ + 1 = BLOCK_SIZE => At(n, 0) = At(n - 1, occ) + 1
          BY <1>3, OneByteMore
        <4>3. (n + 1) - 1 = n
          BY <1>3
        <4> QED BY <1>4, <1>6, <2>3, <3>1, <4>1, <4>2, <4>3
      <3>3. At(n - 1, occ) \in Int
        BY <1>3, Constants DEF At
      <3> QED BY <1>4, <1>6, <2>3, <3>1, <3>2, <3>3
    <2>6. io_left' >= 0
      BY <1>4
    <2> QED BY <1>4, <1>5, <2>1, <2>2, <2>4, <2>5, <2>6
            DEF LoopInBounds, Position, Size, LastBlock, At, f, n2, occ2
  <1> QED BY <1>1, <1>7, <1>8, FittingAfter DEF LInv

\* Every step of the file system.
LEMMA NextLInv ==
  ASSUME SizesFit, LInv, [Next]_vars
  PROVE  LInv'
  <1>1. ASSUME NEW n \in Names, NEW flags \in FlagSets, ufs_open(n, flags)
        PROVE  LInv'
    BY <1>1, OpenLInv
  <1>2. ASSUME NEW fd \in -1..FD_BOUND, NEW size \in Sizes,
               ufs_write(fd, size) \/ ufs_read(fd, size)
        PROVE  LInv'
    BY <1>2, StartLInv
  <1>3. ASSUME NEW fd \in -1..FD_BOUND, NEW size \in Sizes, ufs_resize(fd, size)
        PROVE  LInv'
    BY <1>3, ResizeLInv
  <1>4. ASSUME NEW fd \in -1..FD_BOUND, ufs_close(fd)
        PROVE  LInv'
    BY <1>4, CloseLInv
  <1>5. ASSUME NEW n \in Names, ufs_delete(n)
        PROVE  LInv'
    BY <1>5, DeleteLInv
  <1>6. CASE ufs_destroy
    BY <1>6, DestroyLInv
  <1>7. CASE IOStep
    BY <1>7, LoopStepLInv, EndLoopLInv DEF IOStep
  <1>8. CASE UNCHANGED vars
    <2>1. FInv'
      BY NextFInv DEF LInv
    <2> QED BY <1>8, <2>1 DEF LInv, PositionInFile, SizeLimit, LoopInBounds, OpenSlots,
                              LastBlock, Size, Position, Valid
  <1> QED BY <1>1, <1>2, <1>3, <1>4, <1>5, <1>6, <1>7, <1>8 DEF Next

\* Descriptors, files and loops stay within their limits, whatever the block
\* size: a truncation leaves no descriptor on a freed block, a file is never
\* longer than MAX_FILE_SIZE and no byte is read or written outside of a block.
THEOREM LimitsKept == SizesFit => (Spec => []WithinLimits)
  <1>1. LInv => WithinLimits
    BY DEF LInv, FInv, WithinLimits
  <1>2. SizesFit /\ LInv /\ [Next]_vars => LInv'
    BY NextLInv
  <1> SUFFICES ASSUME SizesFit PROVE Spec => []WithinLimits
    OBVIOUS
  <1>3. LInv /\ [Next]_vars => LInv'
    BY <1>2
  <1> QED BY InitLInv, <1>1, <1>3, PTL DEF Spec

-----------------------------------------------------------------------------
(***************************************************************************)
(* UserFS implements FileSystem. Each step is one of the abstract file     *)
(* system's, or one it does not see: an error, and the start of a loop.    *)
(* LInv and NamesKept are the invariant it needs.                          *)
(***************************************************************************)

\* The file of a name that is in use has that name.
NamesKept == \A f \in file_list : name[f] \in Names

\* What is left of a name when files that no name leads to are freed.
LEMMA NamesKeptNext ==
  ASSUME FInv, NamesKept, [Next]_vars
  PROVE  NamesKept'
  <1> USE DEF NamesKept
  <1>0. file_list \subseteq files /\ files \subseteq Files /\ name \in [Files -> Names \cup {NULL}]
    BY DEF FInv, TypeOK
  <1>1. CASE \E n \in Names, flags \in FlagSets : ufs_open(n, flags)
    BY <1>0, <1>1 DEF ufs_open, create_file
  <1>2. CASE \E fd \in -1..FD_BOUND : ufs_close(fd)
    <2>1. PICK fd \in -1..FD_BOUND : ufs_close(fd)
      BY <1>2
    <2>2. CASE UNCHANGED fileVars
      BY <2>2
    <2>3. CASE /\ FreeFiles({g \in {file_descriptors[fd].file} : Reclaim(g)})
               /\ UNCHANGED file_list
      <3>1. \A f \in file_list : ~ Reclaim(f)
        BY DEF FInv, UniqueNames, Reclaim
      <3> QED BY <1>0, <2>3, <3>1 DEF FreeFiles
    <2> QED BY <2>1, <2>2, <2>3 DEF ufs_close
  <1>3. CASE \E n \in Names : ufs_delete(n)
    BY <1>0, <1>3 DEF ufs_delete, FreeFiles
  <1>4. CASE ufs_destroy
    BY <1>4 DEF ufs_destroy
  <1>5. CASE UNCHANGED fileVars
    BY <1>5
  <1> QED BY <1>1, <1>2, <1>3, <1>4, <1>5
          DEF Next, ufs_write, ufs_read, ufs_resize, IOStep, WriteByte, ReadByte, EndLoop

-----------------------------------------------------------------------------
\* What the abstract file system sees.
Directory == [n \in Names |-> Lookup(n)]

Content == [f \in Files |-> Bytes(f)]

Entry(d) == [file |-> d.file, pos |-> Position(d)]

Table == [i \in Slots |->
           IF file_descriptors[i] = NULL THEN NULL ELSE Entry(file_descriptors[i])]

\* A name leads to the file that has it.
LEMMA LookupIs ==
  ASSUME FInv, NEW n \in Names
  PROVE  /\ Lookup(n) = NULL <=> try_get_file_by_filename(n) = {}
         /\ \A f \in file_list : name[f] = n <=> Lookup(n) = f
  <1>1. \A f \in file_list : f # NULL
    BY NullAssumption DEF FInv, TypeOK
  <1>2. CASE try_get_file_by_filename(n) = {}
    BY <1>1, <1>2 DEF Lookup, try_get_file_by_filename
  <1>3. CASE try_get_file_by_filename(n) # {}
    <2>1. PICK f \in file_list : name[f] = n
      BY <1>3 DEF try_get_file_by_filename
    <2>2. try_get_file_by_filename(n) = {f}
      BY <2>1 DEF try_get_file_by_filename, FInv, UniqueNames
    <2>3. Lookup(n) = f
      BY <2>2 DEF Lookup
    <2> QED BY <1>1, <1>3, <2>1, <2>2, <2>3 DEF try_get_file_by_filename
  <1> QED BY <1>2, <1>3

\* An entry of the table is no null record, and its file and position are those
\* of the descriptor.
LEMMA EntryIs ==
  ASSUME NEW d \in Descriptor
  PROVE  /\ Position(d) \in Nat
         /\ Entry(d) \in [file : Files, pos : Nat] /\ Entry(d) # NULL
         /\ Entry(d).file = d.file /\ Entry(d).pos = Position(d)
  <1>1. Position(d) \in Nat
    BY Constants DEF Position, Descriptor
  <1>2. Entry(d) \in [file : Files, pos : Nat]
    BY <1>1 DEF Entry, Descriptor
  <1> QED BY <1>1, <1>2, NullAssumption DEF Entry

\* The table has an entry wherever there is a descriptor.
LEMMA TableIs ==
  ASSUME FInv
  PROVE  \A i \in Slots :
           /\ Table[i] = NULL <=> file_descriptors[i] = NULL
           /\ file_descriptors[i] # NULL =>
                /\ file_descriptors[i] \in Descriptor
                /\ Table[i] = Entry(file_descriptors[i])
                /\ Table[i].file = file_descriptors[i].file
                /\ Table[i].pos = Position(file_descriptors[i])
  <1> SUFFICES ASSUME NEW i \in Slots
               PROVE  /\ Table[i] = NULL <=> file_descriptors[i] = NULL
                      /\ file_descriptors[i] # NULL =>
                           /\ file_descriptors[i] \in Descriptor
                           /\ Table[i] = Entry(file_descriptors[i])
                           /\ Table[i].file = file_descriptors[i].file
                           /\ Table[i].pos = Position(file_descriptors[i])
    OBVIOUS
  <1>1. file_descriptors[i] # NULL => file_descriptors[i] \in Descriptor
    BY DEF FInv, TypeOK
  <1>2. Table[i] = IF file_descriptors[i] = NULL THEN NULL ELSE Entry(file_descriptors[i])
    BY DEF Table
  <1> QED BY <1>1, <1>2, EntryIs

-----------------------------------------------------------------------------
\* Blocks and offsets of a byte.
LEMMA DivMod ==
  ASSUME NEW b \in Nat, NEW w \in Nat, w > 0, NEW o \in 0..(w - 1)
  PROVE  (b * w + o) \div w = b /\ (b * w + o) % w = o
  OBVIOUS

\* The block and the offset of a byte,
LEMMA ByteAt ==
  ASSUME NEW k \in Nat
  PROVE  /\ k \div BLOCK_SIZE \in Nat /\ (k % BLOCK_SIZE) \in Offsets
         /\ k = At(k \div BLOCK_SIZE, k % BLOCK_SIZE)
  BY Constants DEF Offsets, At

\* and the byte of a block and an offset.
LEMMA AtByte ==
  ASSUME NEW block \in Nat, NEW offset \in Offsets
  PROVE  /\ At(block, offset) \in Nat
         /\ At(block, offset) \div BLOCK_SIZE = block
         /\ (At(block, offset) % BLOCK_SIZE) = offset
  BY DivMod, Constants DEF Offsets, At

\* A byte before the end is in one of the blocks.
LEMMA ByteInBlocks ==
  ASSUME NEW n \in Nat, NEW occ \in Nat, n > 0, occ <= BLOCK_SIZE,
         NEW k \in Nat, k < At(n - 1, occ)
  PROVE  k \div BLOCK_SIZE + 1 \in 1..n
  <1> DEFINE q == k \div BLOCK_SIZE
  <1>1. q \in Nat /\ q * BLOCK_SIZE <= k
    BY DivBounds, Constants
  <1> HIDE DEF q
  <1>2. At(n - 1, occ) <= n * BLOCK_SIZE
    BY Constants DEF At
  <1>3. CASE q >= n
    <2>1. n * BLOCK_SIZE <= q * BLOCK_SIZE
      BY <1>1, <1>3, MulMono, Constants
    <2>2. At(n - 1, occ) \in Int /\ n * BLOCK_SIZE \in Int /\ q * BLOCK_SIZE \in Int
      BY <1>1, Constants DEF At
    <2> QED BY <1>1, <1>2, <2>1, <2>2
  <1> QED BY <1>1, <1>3 DEF q

-----------------------------------------------------------------------------
\* A function on 1..n is a sequence of length n.
LEMMA FunctionIsSeq ==
  ASSUME NEW T, NEW n \in Nat, NEW s \in [1..n -> T]
  PROVE  s \in Seq(T) /\ Len(s) = n
  <1>1. s \in Seq(T)
    BY SeqDef
  <1>2. DOMAIN s = 1..Len(s) /\ Len(s) \in Nat
    BY <1>1, LenProperties
  <1> QED BY <1>1, <1>2

\* The bytes of a file that exists, one for each position before its end.
FileBytes(f) ==
  /\ Size(f) \in Nat /\ Size(f) = At(Len(blocks[f]) - 1, occupied[f])
  /\ Bytes(f) \in Seq(Cell) /\ Len(Bytes(f)) = Size(f)
  /\ \A k \in 1..Size(f) :
       Bytes(f)[k] = blocks[f][(k - 1) \div BLOCK_SIZE + 1][(k - 1) % BLOCK_SIZE]

FilesHaveBytes == \A f \in files : FileBytes(f)

\* A file has blocks for all its bytes.
LEMMA BytesIs == LInv => FilesHaveBytes
  <1> SUFFICES ASSUME LInv, NEW f \in files PROVE FileBytes(f)
    BY DEF FilesHaveBytes
  <1> DEFINE n == Len(blocks[f])
             cell(k) == blocks[f][(k - 1) \div BLOCK_SIZE + 1][(k - 1) % BLOCK_SIZE]
  <1>1. f \in Files /\ blocks[f] \in Seq([Offsets -> Cell]) /\ n \in Nat /\ n > 0
        /\ occupied[f] \in Nat /\ occupied[f] < BLOCK_SIZE
    BY LenProperties DEF LInv, FInv, TypeOK, HasBlocks, PositionInFile
  <1>2. Size(f) = At(n - 1, occupied[f])
    BY DEF Size, LastBlock, At
  <1>3. Size(f) \in Nat
    BY <1>1, <1>2, Constants DEF At
  <1>4. ASSUME NEW k \in 1..Size(f) PROVE cell(k) \in Cell
    <2>1. k - 1 \in Nat /\ k - 1 < At(n - 1, occupied[f])
      <3>1. k - 1 \in Nat /\ k - 1 < Size(f)
        BY <1>3
      <3> QED BY <1>2, <3>1
    <2>2. (k - 1) \div BLOCK_SIZE + 1 \in 1..n
      BY <1>1, <2>1, ByteInBlocks, Constants
    <2>3. blocks[f][(k - 1) \div BLOCK_SIZE + 1] \in [Offsets -> Cell]
      BY <1>1, <2>2, ElementOfSeq
    <2>4. ((k - 1) % BLOCK_SIZE) \in Offsets
      BY <2>1, ByteAt
    <2> QED BY <2>3, <2>4
  <1> HIDE DEF cell
  <1>5. Bytes(f) = [k \in 1..Size(f) |-> cell(k)]
    BY DEF Bytes, cell
  <1>6. [k \in 1..Size(f) |-> cell(k)] \in [1..Size(f) -> Cell]
    BY <1>4
  <1>7. Bytes(f) \in Seq(Cell) /\ Len(Bytes(f)) = Size(f)
    BY <1>3, <1>5, <1>6, FunctionIsSeq
  <1>8. \A k \in 1..Size(f) : Bytes(f)[k] = cell(k)
    BY <1>5
  <1> QED BY <1>2, <1>3, <1>7, <1>8 DEF FileBytes, cell

\* And after a step.
LEMMA BytesAfter == LInv' => FilesHaveBytes'
  BY BytesIs, PTL

\* A file that has gone has none.
LEMMA NoBytes == \A f : f \notin files => Bytes(f) = <<>>
  BY DEF Bytes

\* And after a step.
LEMMA NoBytesAfter == \A f : f \notin files' => Bytes(f)' = <<>>
  BY DEF Bytes

\* The bytes of a file that no step touches.
LEMMA BytesSame ==
  ASSUME NEW f, f \in files' <=> f \in files,
         blocks'[f] = blocks[f], occupied'[f] = occupied[f]
  PROVE  Bytes(f)' = Bytes(f)
  BY DEF Bytes, Size, LastBlock

\* t is s with b in the place after the first p.
Overwrites(t, s, p, b) ==
  /\ Len(t) = IF p = Len(s) THEN p + 1 ELSE Len(s)
  /\ \A k \in 1..Len(t) : t[k] = IF k = p + 1 THEN b ELSE s[k]

\* A byte replaces the one after the first p, or follows the last.
LEMMA WriteInSequence ==
  ASSUME NEW T, NEW s \in Seq(T), NEW t \in Seq(T), NEW p \in 0..Len(s), NEW b \in T,
         Overwrites(t, s, p, b)
  PROVE  t = SubSeq(s, 1, p) \o <<b>> \o SubSeq(s, p + 2, Len(s))
  <1>0. /\ Len(t) = IF p = Len(s) THEN p + 1 ELSE Len(s)
        /\ \A k \in 1..Len(t) : t[k] = IF k = p + 1 THEN b ELSE s[k]
    BY DEF Overwrites
  <1> USE <1>0
  <1> DEFINE u == SubSeq(s, 1, p)
             v == SubSeq(s, p + 2, Len(s))
  <1>1. Len(s) \in Nat /\ Len(t) \in Nat /\ p \in Nat /\ \A i \in 1..Len(s) : s[i] \in T
    BY LenProperties, ElementOfSeq
  <1>2. u \in Seq(T) /\ Len(u) = p /\ \A i \in 1..p : u[i] = s[i]
    BY <1>1, SubSeqProperties
  <1>3. /\ v \in Seq(T) /\ Len(v) = IF p = Len(s) THEN 0 ELSE Len(s) - p - 1
        /\ \A i \in 1..(Len(s) - p - 1) : v[i] = s[p + 1 + i]
    <2>1. /\ v \in Seq(T)
          /\ Len(v) = IF p + 2 <= Len(s) THEN Len(s) - (p + 2) + 1 ELSE 0
          /\ \A i \in 1..(Len(s) - (p + 2) + 1) : v[i] = s[p + 2 + i - 1]
      <3>1. p + 2 \in Int /\ Len(s) \in Int /\ \A i \in (p + 2)..Len(s) : s[i] \in T
        BY <1>1
      <3> QED BY <3>1, SubSeqProperties
    <2>2. \A i \in 1..(Len(s) - p - 1) : v[i] = s[p + 1 + i]
      <3>1. ASSUME NEW i \in 1..(Len(s) - p - 1) PROVE v[i] = s[p + 1 + i]
        <4>1. i \in 1..(Len(s) - (p + 2) + 1) /\ p + 2 + i - 1 = p + 1 + i
          BY <1>1
        <4> QED BY <2>1, <4>1
      <3> QED BY <3>1
    <2> QED BY <1>1, <2>1, <2>2
  <1> HIDE DEF u, v
  <1> DEFINE w == <<b>>
             ub == u \o w
  <1>4. w \in Seq(T) /\ Len(w) = 1 /\ w[1] = b
    OBVIOUS
  <1> HIDE DEF w
  <1>5. /\ ub \in Seq(T) /\ Len(ub) = p + 1
        /\ \A i \in 1..(p + 1) : ub[i] = IF i <= p THEN s[i] ELSE b
    <2>1. /\ ub \in Seq(T) /\ Len(ub) = Len(u) + Len(w)
          /\ \A i \in 1..(Len(u) + Len(w)) :
               ub[i] = IF i <= Len(u) THEN u[i] ELSE w[i - Len(u)]
      BY <1>2, <1>4, ConcatProperties
    <2>2. ASSUME NEW i \in 1..(p + 1) PROVE ub[i] = IF i <= p THEN s[i] ELSE b
      <3>1. ub[i] = IF i <= p THEN u[i] ELSE w[i - p]
        <4>1. Len(u) = p /\ Len(u) + Len(w) = p + 1
          BY <1>2, <1>4
        <4> QED BY <2>1, <4>1
      <3>2. CASE i <= p
        BY <1>1, <1>2, <3>1, <3>2
      <3>3. CASE i = p + 1
        <4>1. i - p = 1 /\ ~ (i <= p)
          BY <1>1, <3>3
        <4>2. w[i - p] = w[1]
          BY <4>1
        <4> QED BY Zenon, <1>4, <3>1, <4>1, <4>2
      <3>4. i <= p \/ i = p + 1
        BY <1>1
      <3> QED BY Zenon, <3>2, <3>3, <3>4
    <2> QED BY <1>1, <1>2, <1>4, <2>1, <2>2
  <1> HIDE DEF ub
  <1>6. /\ ub \o v \in Seq(T) /\ Len(ub \o v) = Len(t)
        /\ \A i \in 1..Len(t) : (ub \o v)[i] = t[i]
    <2>1. /\ ub \o v \in Seq(T) /\ Len(ub \o v) = Len(ub) + Len(v)
          /\ \A i \in 1..(Len(ub) + Len(v)) :
               (ub \o v)[i] = IF i <= Len(ub) THEN ub[i] ELSE v[i - Len(ub)]
      <3>1. ub \in Seq(T) /\ v \in Seq(T)
        BY <1>3, <1>5
      <3> QED BY <3>1, ConcatProperties
    <2>2. Len(ub) + Len(v) = Len(t)
      <3>1. Len(ub) = p + 1 /\ Len(v) = IF p = Len(s) THEN 0 ELSE Len(s) - p - 1
        BY <1>3, <1>5
      <3>2. CASE p = Len(s)
        <4>1. Len(t) = p + 1 /\ Len(v) = 0
          BY <3>1, <3>2
        <4>2. (p + 1) + 0 = p + 1
          BY <1>1
        <4> QED BY Zenon, <3>1, <4>1, <4>2
      <3>3. CASE p # Len(s)
        <4>1. Len(t) = Len(s) /\ Len(v) = Len(s) - p - 1
          BY <3>1, <3>3
        <4>2. (p + 1) + (Len(s) - p - 1) = Len(s)
          BY <1>1
        <4> QED BY Zenon, <3>1, <4>1, <4>2
      <3> QED BY <3>2, <3>3
    <2>3. ASSUME NEW i \in 1..Len(t) PROVE (ub \o v)[i] = t[i]
      <3>1. (ub \o v)[i] = IF i <= p + 1 THEN ub[i] ELSE v[i - (p + 1)]
        BY <1>5, <2>1, <2>2
      <3>2. CASE i <= p + 1
        <4>1. ub[i] = IF i <= p THEN s[i] ELSE b
          BY <1>1, <1>5, <3>2
        <4>2. i <= p <=> i # p + 1
          BY <1>1, <3>2
        <4> QED BY <3>1, <3>2, <4>1, <4>2
      <3>3. CASE i > p + 1
        <4>1. i - (p + 1) \in 1..(Len(s) - p - 1) /\ p + 1 + (i - (p + 1)) = i
          BY <1>1, <3>3
        <4>2. v[i - (p + 1)] = s[i]
          <5> DEFINE j == i - (p + 1)
          <5>1. j \in 1..(Len(s) - p - 1) /\ p + 1 + j = i
            BY <4>1
          <5> HIDE DEF j
          <5>2. v[j] = s[i]
            BY <1>3, <5>1
          <5> QED BY <5>2 DEF j
        <4>3. ~ (i <= p + 1) /\ i # p + 1
          BY <1>1, <3>3
        <4>4. t[i] = s[i]
          BY <4>3
        <4> QED BY Zenon, <3>1, <4>2, <4>3, <4>4
      <3>4. i <= p + 1 \/ i > p + 1
        BY <1>1
      <3> QED BY Zenon, <3>2, <3>3, <3>4
    <2> QED BY <2>1, <2>2, <2>3
  <1>7. t = ub \o v
    BY <1>6, SeqEqual
  <1> QED BY <1>7 DEF ub, u, v, w

-----------------------------------------------------------------------------
(*****************************************************************************)
(* The actions of the abstract file system, in terms of its state           *)
(*****************************************************************************)

\* The entries of the table in use.
LEMMA InUseIs == Promise!InUse = {i \in Slots : Table[i] # NULL}
  BY DEF Promise!InUse, Table, Entry

\* The entries that lead to a file.
LEMMA HoldingIs == \A f : Promise!Holding(f) = {i \in Slots : Table[i] # NULL /\ Table[i].file = f}
  <1>1. \A f : Promise!Holding(f) = {i \in Promise!InUse : Table[i].file = f}
    BY DEF Promise!Holding, Table, Entry
  <1> QED BY <1>1, InUseIs

\* The files that a name leads to.
LEMMA NamedIs == Promise!Named = {f \in Files : \E n \in Names : Directory[n] = f}
  BY DEF Promise!Named, Directory

\* What Open asks of the names, the bytes and the table,
LEMMA OpenIs ==
  ASSUME NEW n \in Names, NEW i \in Slots, Table[i] = NULL, UNCHANGED buf,
         \/ /\ Directory[n] # NULL
            /\ Table' = [Table EXCEPT ![i] = [file |-> Directory[n], pos |-> 0]]
            /\ UNCHANGED <<files, Directory, Content>>
         \/ /\ Directory[n] = NULL
            /\ \E f \in Files \ files :
                 /\ files' = files \cup {f}
                 /\ Directory' = [Directory EXCEPT ![n] = f]
                 /\ Table' = [Table EXCEPT ![i] = [file |-> f, pos |-> 0]]
            /\ UNCHANGED Content
  PROVE  Promise!Open(n, i)
  BY InUseIs DEF Promise!Open, Directory, Content, Table, Entry

\* what Write asks,
LEMMA WriteIs ==
  ASSUME NEW i \in Slots, NEW b, Table[i] # NULL,
         NEW f, f = Table[i].file, NEW p, p = Table[i].pos,
         p < MAX_FILE_SIZE, p <= Len(Content[f]),
         Content' = [Content EXCEPT ![f] = SubSeq(@, 1, p) \o <<b>> \o SubSeq(@, p + 2, Len(@))],
         Table' = [Table EXCEPT ![i].pos = p + 1],
         buf' = b, UNCHANGED <<files, Directory>>
  PROVE  Promise!Write(i, b)
  BY InUseIs DEF Promise!Write, Directory, Content, Table, Entry

\* and what Read asks.
LEMMA ReadIs ==
  ASSUME NEW i \in Slots, Table[i] # NULL,
         Table[i].pos < Len(Content[Table[i].file]),
         buf' = Content[Table[i].file][Table[i].pos + 1],
         Table' = [Table EXCEPT ![i].pos = Table[i].pos + 1],
         UNCHANGED <<files, Directory, Content>>
  PROVE  Promise!Read(i)
  BY InUseIs DEF Promise!Read, Directory, Content, Table, Entry

\* Files that go take their bytes with them.
Forgotten(S) ==
  /\ files' = files \ S
  /\ Content' = [f \in Files |-> IF f \in S THEN <<>> ELSE Content[f]]

\* That is what Forget asks.
LEMMA ForgetIs == \A S : Forgotten(S) => Promise!Forget(S)
  BY DEF Forgotten, Promise!Forget, Content

\* What Close asks,
LEMMA CloseIs ==
  ASSUME NEW i \in Slots, Table[i] # NULL, NEW S,
         S = {f \in {Table[i].file} : f \notin Promise!Named /\ Promise!Holding(f) = {i}},
         Forgotten(S), Table' = [Table EXCEPT ![i] = NULL], UNCHANGED <<Directory, buf>>
  PROVE  Promise!Close(i)
  <1>1. Promise!Forget(S)
    BY ForgetIs
  <1> QED BY <1>1, InUseIs DEF Promise!Close, Directory, Table, Entry

\* what Delete asks,
LEMMA DeleteIs ==
  ASSUME NEW n \in Names, Directory[n] # NULL, NEW S,
         S = {f \in {Directory[n]} : Promise!Holding(f) = {}},
         Forgotten(S), Directory' = [Directory EXCEPT ![n] = NULL], UNCHANGED <<Table, buf>>
  PROVE  Promise!Delete(n)
  <1>1. Promise!Forget(S)
    BY ForgetIs
  <1> QED BY <1>1 DEF Promise!Delete, Directory, Table, Entry

\* what Resize asks,
LEMMA ResizeIs ==
  ASSUME NEW f \in files, f \in Files, NEW size,
         NEW tail \in [1..(size - Len(Promise!Prefix(Content[f], size))) -> Cell],
         Content' = [Content EXCEPT ![f] = Promise!Prefix(@, size) \o tail],
         Table' = [i \in Slots |->
           IF i \in Promise!Holding(f) /\ Table[i].pos > size
           THEN [Table[i] EXCEPT !.pos = size] ELSE Table[i]],
         UNCHANGED <<files, Directory, buf>>
  PROVE  Promise!Resize(f, size)
  BY DEF Promise!Resize, Directory, Content, Table, Entry

\* and what Destroy asks.
LEMMA DestroyIs ==
  ASSUME Forgotten(files), Directory' = [n \in Names |-> NULL],
         Table' = [i \in Slots |-> NULL], UNCHANGED buf
  PROVE  Promise!Destroy
  <1>1. Promise!Forget(files)
    BY ForgetIs
  <1> QED BY <1>1 DEF Promise!Destroy, Directory, Table, Entry

-----------------------------------------------------------------------------
(*****************************************************************************)
(* Names, bytes and the table after a step; ufs_open                        *)
(*****************************************************************************)

\* A place of the table that is filled or cleared.
LEMMA TableSet ==
  ASSUME FInv, NEW s \in Slots, NEW d,
         file_descriptors' = [file_descriptors EXCEPT ![s] = d]
  PROVE  Table' = [Table EXCEPT ![s] = IF d = NULL THEN NULL ELSE Entry(d)]
  <1>1. \A i \in Slots : file_descriptors'[i] = IF i = s THEN d ELSE file_descriptors[i]
    BY DEF FInv, TypeOK
  <1>2. Table' = [i \in Slots |->
           IF file_descriptors'[i] = NULL THEN NULL ELSE Entry(file_descriptors'[i])]
    BY DEF Table, Entry, Position
  <1>3. Table = [i \in Slots |->
           IF file_descriptors[i] = NULL THEN NULL ELSE Entry(file_descriptors[i])]
    BY DEF Table
  <1> QED BY <1>1, <1>2, <1>3

\* No name changes.
LEMMA DirectorySame == UNCHANGED <<file_list, name>> => UNCHANGED Directory
  BY DEF Directory, Lookup, try_get_file_by_filename

\* No bytes change.
LEMMA ContentSame ==
  ASSUME \A f \in Files : Bytes(f)' = Bytes(f)
  PROVE  UNCHANGED Content
  BY DEF Content

\* No file and no block changes.
LEMMA DataSame == UNCHANGED <<files, dataVars>> => UNCHANGED Content
  BY DEF Content, Bytes, Size, LastBlock

\* No descriptor changes.
LEMMA TableSame == UNCHANGED file_descriptors => UNCHANGED Table
  BY DEF Table, Entry, Position

\* A step that the abstract file system does not see.
LEMMA Stutter ==
  UNCHANGED <<fileVars, dataVars, file_descriptors, buf>> => UNCHANGED Promise!vars
  <1> SUFFICES ASSUME UNCHANGED <<fileVars, dataVars, file_descriptors, buf>>
               PROVE  UNCHANGED Promise!vars
    OBVIOUS
  <1>1. UNCHANGED <<files, Directory, Content, Table, buf>>
    BY DirectorySame, DataSame, TableSame
  <1> QED BY <1>1 DEF Promise!vars, Directory, Content, Table, Entry

\* What LookupIs says, and says again after a step.
NamesLead ==
  \A n \in Names :
    /\ Directory[n] = NULL <=> try_get_file_by_filename(n) = {}
    /\ \A f \in file_list : name[f] = n <=> Directory[n] = f
    /\ Directory[n] # NULL => Directory[n] \in file_list

\* A name leads to the file that has it, before a step,
LEMMA NamesLeadIs == FInv => NamesLead
  <1> SUFFICES ASSUME FInv, NEW n \in Names
               PROVE  /\ Directory[n] = NULL <=> try_get_file_by_filename(n) = {}
                      /\ \A f \in file_list : name[f] = n <=> Directory[n] = f
                      /\ Directory[n] # NULL => Directory[n] \in file_list
    BY DEF NamesLead
  <1>1. Directory[n] = Lookup(n)
    BY DEF Directory
  <1>2. Directory[n] # NULL => Directory[n] \in file_list
    BY <1>1, LookupIs DEF try_get_file_by_filename
  <1> QED BY <1>1, <1>2, LookupIs

\* and after one.
LEMMA NamesLeadAfter == FInv' => NamesLead'
  BY NamesLeadIs, PTL

\* A new file has no bytes.
LEMMA NewFileEmpty ==
  ASSUME LInv', NEW f \in files', blocks'[f] = <<NewBlock>>, occupied'[f] = 0
  PROVE  Bytes(f)' = <<>>
  <1>1. FileBytes(f)'
    BY BytesAfter DEF FilesHaveBytes
  <1>2. Len(blocks'[f]) - 1 = 0
    OBVIOUS
  <1>3. At(0, 0) = 0
    BY Constants DEF At
  <1>4. Bytes(f)' \in Seq(Cell) /\ Len(Bytes(f)') = 0
    BY <1>1, <1>2, <1>3 DEF FileBytes, At
  <1> QED BY <1>4, EmptySeq

\* ufs_open: the name leads to the file, which is created empty if need be, and
\* the descriptor is at its first byte.
LEMMA OpenImplements ==
  ASSUME LInv, LInv', NEW n \in Names, NEW flags \in FlagSets, ufs_open(n, flags)
  PROVE  UNCHANGED Promise!vars \/ \E i \in Slots : Promise!Open(n, i)
  <1>0. /\ UNCHANGED <<pc, buf>> /\ FInv /\ FInv'
        /\ files \subseteq Files /\ file_list \subseteq files
    BY DEF ufs_open, LInv, FInv, TypeOK
  <1>1. CASE UNCHANGED <<fileVars, dataVars, descVars>>
    BY <1>0, <1>1, Stutter
  <1>2. ASSUME NEW f \in Files,
               add_file_descriptor([file |-> f, current_block |-> 0, block_offset |-> 0,
                                    flags |-> flags]),
               \/ /\ f \in try_get_file_by_filename(n)
                  /\ UNCHANGED <<files, file_list, name, dataVars>>
               \/ /\ try_get_file_by_filename(n) = {}
                  /\ create_file(n, f)
        PROVE  \E i \in Slots : Promise!Open(n, i)
    <2> DEFINE d == [file |-> f, current_block |-> 0, block_offset |-> 0, flags |-> flags]
    <2>1. d \in Descriptor /\ Entry(d) = [file |-> f, pos |-> 0] /\ d # NULL
      <3>1. d \in Descriptor
        BY UserFSAssumption DEF Descriptor
      <3>2. Position(d) = 0
        BY Constants DEF Position
      <3> QED BY <3>1, <3>2, NullAssumption DEF Entry
    <2> HIDE DEF d
    <2>2. PICK s \in Slots : file_descriptors[s] = NULL
                             /\ file_descriptors' = [file_descriptors EXCEPT ![s] = d]
      BY <1>0, <1>2, <2>1, AddDescriptor DEF d
    <2>3. Table[s] = NULL /\ Table' = [Table EXCEPT ![s] = [file |-> f, pos |-> 0]]
      <3>1. Table[s] = NULL
        BY <1>0, <2>2, TableIs
      <3>2. Table' = [Table EXCEPT ![s] = IF d = NULL THEN NULL ELSE Entry(d)]
        BY <1>0, <2>2, TableSet
      <3> QED BY <2>1, <3>1, <3>2
    <2>4. CASE f \in try_get_file_by_filename(n) /\ UNCHANGED <<files, file_list, name, dataVars>>
      <3>1. Directory[n] = f /\ f # NULL
        BY <1>0, <2>4, NamesLeadIs, NullAssumption DEF NamesLead, try_get_file_by_filename
      <3>2. UNCHANGED <<files, Directory, Content>>
        BY <2>4, DirectorySame, DataSame
      <3> QED BY <1>0, <2>3, <3>1, <3>2, OpenIs
    <2>5. CASE try_get_file_by_filename(n) = {} /\ create_file(n, f)
      <3>1. /\ f \notin files /\ files' = files \cup {f} /\ file_list' = file_list \cup {f}
            /\ name' = [name EXCEPT ![f] = n]
            /\ blocks' = [blocks EXCEPT ![f] = <<NewBlock>>]
            /\ occupied' = [occupied EXCEPT ![f] = 0]
        BY <2>5 DEF create_file
      <3>2. Directory[n] = NULL
        BY <1>0, <2>5, NamesLeadIs DEF NamesLead
      <3>3. \A g \in Files : name'[g] = IF g = f THEN n ELSE name[g]
        BY <1>0, <3>1 DEF FInv, TypeOK
      <3>4. Directory' = [Directory EXCEPT ![n] = f]
        <4>1. ASSUME NEW m \in Names, m # n
              PROVE  Lookup(m)' = Lookup(m)
          <5>1. try_get_file_by_filename(m)' = try_get_file_by_filename(m)
            BY <1>0, <3>1, <3>3, <4>1 DEF try_get_file_by_filename
          <5> QED BY <5>1 DEF Lookup
        <4>2. Directory'[n] = f
          <5>1. f \in file_list' /\ name'[f] = n
            BY <3>1, <3>3
          <5> QED BY <1>0, <5>1, NamesLeadAfter DEF NamesLead
        <4> QED BY <4>1, <4>2 DEF Directory
      <3>5. UNCHANGED Content
        <4>1. ASSUME NEW g \in Files PROVE Bytes(g)' = Bytes(g)
          <5>1. CASE g = f
            <6>1. blocks'[f] = <<NewBlock>> /\ occupied'[f] = 0
              BY <1>0, <3>1 DEF FInv, TypeOK
            <6>2. Bytes(f)' = <<>>
              BY <3>1, <6>1, NewFileEmpty
            <6> QED BY <3>1, <5>1, <6>2, NoBytes
          <5>2. CASE g # f
            <6>1. /\ g \in files' <=> g \in files
                  /\ blocks'[g] = blocks[g] /\ occupied'[g] = occupied[g]
              BY <1>0, <3>1, <5>2 DEF FInv, TypeOK
            <6> QED BY <6>1, BytesSame
          <5> QED BY <5>1, <5>2
        <4> QED BY <4>1, ContentSame
      <3>6. f \in Files \ files
        BY <3>1
      <3> QED BY <1>0, <2>3, <3>1, <3>2, <3>4, <3>5, <3>6, OpenIs
    <2> QED BY <1>2, <2>4, <2>5
  <1> QED BY <1>1, <1>2 DEF ufs_open

-----------------------------------------------------------------------------
(*****************************************************************************)
(* ufs_close, ufs_delete and ufs_destroy                                    *)
(*****************************************************************************)

\* Freed files are gone and have no bytes; the others keep theirs.
LEMMA FreedForgotten ==
  ASSUME FInv, NEW S, FreeFiles(S)
  PROVE  Forgotten(S)
  <1>1. /\ files' = files \ S
        /\ \A f \in Files : f \notin S => blocks'[f] = blocks[f] /\ occupied'[f] = occupied[f]
    BY DEF FreeFiles
  <1>2. ASSUME NEW f \in Files PROVE Bytes(f)' = IF f \in S THEN <<>> ELSE Bytes(f)
    <2>1. CASE f \in S
      BY <1>1, <2>1, NoBytesAfter
    <2>2. CASE f \notin S
      BY <1>1, <2>2, BytesSame
    <2> QED BY <2>1, <2>2
  <1> QED BY <1>1, <1>2 DEF Forgotten, Content

\* The holders of a file, in both views of the table.
LEMMA HoldingHolders ==
  ASSUME FInv, NEW f
  PROVE  Promise!Holding(f) = Holders(file_descriptors, f)
  BY HoldingIs, TableIs DEF Holders

\* The files that have a name are those of the list.
LEMMA NamedFiles ==
  ASSUME FInv, NamesKept
  PROVE  Promise!Named = file_list
  <1>1. file_list \subseteq Files
    BY DEF FInv, TypeOK
  <1>2. \A f \in file_list : name[f] \in Names /\ Directory[name[f]] = f
    BY NamesLeadIs DEF NamesKept, NamesLead
  <1>3. \A f \in Files, n \in Names : Directory[n] = f => f \in file_list
    BY NamesLeadIs, NullAssumption DEF NamesLead
  <1> QED BY <1>1, <1>2, <1>3, NamedIs

\* A file has no holder when its count is 0, and only one when that is 1.
LEMMA LastHolder ==
  ASSUME FInv, NEW f \in Files
  PROVE  /\ refs[f] = 0 <=> Holders(file_descriptors, f) = {}
         /\ \A i \in Holders(file_descriptors, f) :
              refs[f] - 1 = 0 <=> Holders(file_descriptors, f) = {i}
  <1> DEFINE H == Holders(file_descriptors, f)
  <1>1. refs[f] = Cardinality(H) /\ IsFiniteSet(H) /\ Cardinality(H) \in Nat
    BY HoldersFinite, FS_CardinalityType DEF FInv, RefsCounted
  <1> HIDE DEF H
  <1>2. Cardinality(H) = 0 <=> H = {}
    BY <1>1, FS_EmptySet
  <1>3. ASSUME NEW i \in H PROVE refs[f] - 1 = 0 <=> H = {i}
    <2>1. IsFiniteSet(H \ {i}) /\ Cardinality(H \ {i}) = Cardinality(H) - 1
      BY <1>1, FS_RemoveElement
    <2>2. Cardinality(H \ {i}) = 0 <=> H \ {i} = {}
      BY <2>1, FS_EmptySet
    <2> QED BY <1>1, <2>1, <2>2
  <1> QED BY <1>1, <1>2, <1>3 DEF H

\* ufs_close: the place is free, and the file goes with its last descriptor if
\* it has no name.
LEMMA CloseImplements ==
  ASSUME LInv, LInv', NamesKept, NEW fd \in -1..FD_BOUND, ufs_close(fd)
  PROVE  UNCHANGED Promise!vars \/ \E i \in Slots : Promise!Close(i)
  <1>0. UNCHANGED <<pc, buf>> /\ FInv /\ FInv' /\ fd \in Int
    BY Constants DEF ufs_close, LInv
  <1>1. CASE ~ Valid(fd)
    BY <1>0, <1>1, Stutter DEF ufs_close
  <1>2. CASE Valid(fd)
    <2> DEFINE f == file_descriptors[fd].file
               S == {g \in {f} : Reclaim(g)}
    <2>1. /\ FreeFiles(S) /\ UNCHANGED file_list
          /\ file_descriptors' = [file_descriptors EXCEPT ![fd] = NULL]
      BY <1>2 DEF ufs_close
    <2>2. fd \in Slots /\ file_descriptors[fd] # NULL /\ f \in files /\ f \in Files
      BY <1>0, <1>2, ValidSlot DEF Valid, FInv, TypeOK
    <2>3. Table[fd] # NULL /\ Table[fd].file = f
      BY <1>0, <2>2, TableIs
    <2>4. f \in marked_for_deletion <=> f \notin Promise!Named
      <3>1. Promise!Named = file_list
        BY <1>0, NamedFiles
      <3> QED BY <1>0, <2>2, <3>1 DEF FInv, NoLeakedFile, UniqueNames
    <2>5. refs[f] - 1 = 0 <=> Promise!Holding(f) = {fd}
      <3>1. fd \in Holders(file_descriptors, f)
        BY <2>2 DEF Holders
      <3> QED BY <1>0, <2>2, <3>1, LastHolder, HoldingHolders
    <2>6. S = {g \in {Table[fd].file} : g \notin Promise!Named /\ Promise!Holding(g) = {fd}}
      BY <2>3, <2>4, <2>5 DEF Reclaim
    <2>7. \A g \in file_list : g \notin S
      BY <1>0 DEF Reclaim, FInv, UniqueNames
    <2> HIDE DEF S
    <2>8. Table' = [Table EXCEPT ![fd] = NULL]
      BY <1>0, <2>1, <2>2, TableSet
    <2>9. UNCHANGED Directory
      <3>1. \A g \in file_list : name'[g] = name[g]
        BY <1>0, <2>1, <2>7 DEF FreeFiles, FInv, TypeOK
      <3>2. ASSUME NEW n \in Names PROVE Lookup(n)' = Lookup(n)
        <4>1. try_get_file_by_filename(n)' = try_get_file_by_filename(n)
          BY <2>1, <3>1 DEF try_get_file_by_filename
        <4> QED BY <4>1 DEF Lookup
      <3> QED BY <3>2 DEF Directory
    <2>10. Forgotten(S)
      BY <1>0, <2>1, FreedForgotten
    <2>11. Promise!Close(fd)
      BY <1>0, <2>2, <2>3, <2>6, <2>8, <2>9, <2>10, CloseIs
    <2> QED BY <2>2, <2>11
  <1> QED BY <1>1, <1>2

\* ufs_delete: the name is free, and the file goes if it has no descriptor.
LEMMA DeleteImplements ==
  ASSUME LInv, LInv', NEW n \in Names, ufs_delete(n)
  PROVE  UNCHANGED Promise!vars \/ Promise!Delete(n)
  <1>0. UNCHANGED <<file_descriptors, buf>> /\ FInv /\ FInv' /\ file_list \subseteq Files
    BY DEF ufs_delete, LInv, FInv, TypeOK
  <1>1. CASE UNCHANGED <<fileVars, dataVars>>
    BY <1>0, <1>1, Stutter
  <1>2. ASSUME NEW f \in try_get_file_by_filename(n),
               file_list' = file_list \ {f},
               \/ /\ FreeOnDelete(f)
                  /\ FreeFiles({f})
               \/ /\ ~ FreeOnDelete(f)
                  /\ UNCHANGED <<files, name, dataVars>>
        PROVE  Promise!Delete(n)
    <2>1. f \in file_list /\ f \in Files /\ name[f] = n
      BY <1>0 DEF try_get_file_by_filename
    <2>2. Directory[n] = f /\ f # NULL
      BY <1>0, <2>1, NamesLeadIs, NullAssumption DEF NamesLead
    <2>3. FreeOnDelete(f) <=> Promise!Holding(f) = {}
      BY <1>0, <2>1, LastHolder, HoldingHolders DEF FreeOnDelete
    <2> DEFINE S == {g \in {Directory[n]} : Promise!Holding(g) = {}}
    <2>4. S = IF FreeOnDelete(f) THEN {f} ELSE {}
      BY <2>2, <2>3
    <2> HIDE DEF S
    <2>5. Forgotten(S)
      <3>1. CASE FreeOnDelete(f)
        BY <1>0, <1>2, <2>4, <3>1, FreedForgotten
      <3>2. CASE ~ FreeOnDelete(f)
        <4>1. UNCHANGED <<files, Content>>
          BY <1>2, <3>2, DataSame
        <4>2. S = {} /\ Content = [g \in Files |-> Content[g]]
          BY <2>4, <3>2 DEF Content
        <4> QED BY <4>1, <4>2 DEF Forgotten
      <3> QED BY <3>1, <3>2
    <2>6. Directory' = [Directory EXCEPT ![n] = NULL]
      <3>1. \A g \in file_list' : name'[g] = name[g]
        BY <1>0, <1>2 DEF FreeFiles
      <3>2. ASSUME NEW m \in Names, m # n
            PROVE  Lookup(m)' = Lookup(m)
        <4>1. try_get_file_by_filename(m)' = try_get_file_by_filename(m)
          BY <1>2, <2>1, <3>1, <3>2 DEF try_get_file_by_filename
        <4> QED BY <4>1 DEF Lookup
      <3>3. Lookup(n)' = NULL
        <4>1. \A g \in file_list : name[g] = n => g = f
          BY <1>0, <2>1 DEF FInv, UniqueNames
        <4>2. try_get_file_by_filename(n)' = {}
          BY <1>2, <3>1, <4>1 DEF try_get_file_by_filename
        <4> QED BY <4>2 DEF Lookup
      <3> QED BY <3>2, <3>3 DEF Directory
    <2>7. UNCHANGED <<Table, buf>>
      BY <1>0, TableSame
    <2> QED BY <2>2, <2>5, <2>6, <2>7, DeleteIs DEF S
  <1> QED BY <1>1, <1>2 DEF ufs_delete

\* ufs_destroy: nothing is left.
LEMMA DestroyImplements ==
  ASSUME LInv, LInv', ufs_destroy
  PROVE  Promise!Destroy
  <1> DEFINE S == {f \in files : f \in file_list \/ (f \in marked_for_deletion /\ refs[f] > 0
                                                    /\ refs'[f] = 0)}
  <1>1. /\ FreeFiles(S) /\ file_list' = {} /\ UNCHANGED buf /\ pc' = "destroyed"
        /\ file_descriptors' = [i \in Slots |-> NULL]
    BY DEF ufs_destroy
  <1>2. S \subseteq files
    OBVIOUS
  <1> HIDE DEF S
  <1>3. files' = {}
    BY <1>1 DEF LInv, FInv, NoLeakedFile
  <1>4. S = files
    BY <1>1, <1>2, <1>3 DEF FreeFiles
  <1>5. Forgotten(files)
    BY <1>1, <1>4, FreedForgotten DEF LInv
  <1>6. Directory' = [n \in Names |-> NULL]
    BY <1>1 DEF Directory, Lookup, try_get_file_by_filename
  <1>7. Table' = [i \in Slots |-> NULL]
    BY <1>1 DEF Table
  <1> QED BY <1>1, <1>5, <1>6, <1>7, DestroyIs

-----------------------------------------------------------------------------
(*****************************************************************************)
(* The loops of ufs_write and ufs_read                                      *)
(*****************************************************************************)

\* A step of a loop takes the position of its descriptor one byte further.
LEMMA TableMoved ==
  ASSUME LInv, LInv', (\E b \in Byte : WriteByte(b)) \/ ReadByte
  PROVE  Table' = [Table EXCEPT ![io_fd].pos = Position(file_descriptors[io_fd]) + 1]
  <1> DEFINE d == file_descriptors[io_fd]
             d2 == file_descriptors'[io_fd]
  <1>1. io_fd \in Slots /\ d # NULL /\ d \in Descriptor /\ FInv /\ FInv'
    BY LoopDescriptor DEF LInv
  <1>2. /\ \A i \in Slots : i # io_fd => file_descriptors'[i] = file_descriptors[i]
        /\ d2.file = d.file /\ Position(d2) = Position(d) + 1
    BY LoopStepMoves DEF ByteMoved, Position, At
  <1>3. d2 # NULL
    <2>1. UNCHANGED <<pc, io_fd>> /\ pc \in {"write", "read"}
      BY DEF WriteByte, ReadByte
    <2> QED BY <1>1, <2>1 DEF FInv, LoopHasDescriptor, Valid
  <1>4. Entry(d2) = [Entry(d) EXCEPT !.pos = Position(d) + 1]
    BY <1>2 DEF Entry
  <1>5. Table' = [i \in Slots |->
           IF file_descriptors'[i] = NULL THEN NULL ELSE Entry(file_descriptors'[i])]
    BY DEF Table, Entry, Position
  <1>6. Table = [i \in Slots |->
           IF file_descriptors[i] = NULL THEN NULL ELSE Entry(file_descriptors[i])]
    BY DEF Table
  <1>7. /\ Table'[io_fd] = Entry(d2) /\ Table[io_fd] = Entry(d)
        /\ \A i \in Slots : i # io_fd => Table'[i] = Table[i]
    BY <1>1, <1>2, <1>3, <1>5, <1>6
  <1> HIDE DEF d, d2
  <1>8. Table'[io_fd] = [Table[io_fd] EXCEPT !.pos = Position(d) + 1]
    BY <1>4, <1>7
  <1>9. DOMAIN Table = Slots /\ Table' = [i \in Slots |-> Table'[i]]
        /\ Table = [i \in Slots |-> Table[i]]
    BY <1>5, <1>6
  <1>10. Table' = [Table EXCEPT ![io_fd] = [Table[io_fd] EXCEPT !.pos = Position(d) + 1]]
    BY <1>1, <1>7, <1>8, <1>9
  <1> QED BY <1>10 DEF d

\* Where the byte of a loop is: at a position before the end of the file, or at
\* its end; and how long the file is after the step.
LEMMA LoopPosition ==
  ASSUME LInv, LInv', (\E b \in Byte : WriteByte(b)) \/ ReadByte,
         NEW d, d = file_descriptors[io_fd], NEW f, f = d.file, NEW p, p = Position(d)
  PROVE  /\ io_fd \in Slots /\ d # NULL /\ f \in files /\ f \in files' /\ f \in Files
         /\ p \in Nat /\ p = At(d.current_block, d.block_offset)
         /\ d.current_block \in Nat /\ d.block_offset \in Offsets
         /\ p <= Size(f)
         /\ Size(f)' = IF p = Size(f) THEN p + 1 ELSE Size(f)
  <1> DEFINE d2 == file_descriptors'[io_fd]
             n == Len(blocks[f])
             n2 == Len(blocks'[f])
             occ == occupied[f]
             occ2 == occupied'[f]
             q2 == At(d2.current_block, d2.block_offset)
  <1>1. /\ io_fd \in Slots /\ d # NULL /\ d \in Descriptor /\ f \in files /\ f \in Files
        /\ UNCHANGED files
    BY LoopDescriptor DEF LInv, WriteByte, ReadByte
  <1>2. /\ n \in Nat /\ n > 0 /\ occ \in Nat
        /\ occ < BLOCK_SIZE /\ InFile(d.current_block, d.block_offset, n, occ)
        /\ InFile(d2.current_block, d2.block_offset, n2, occ2)
        /\ q2 = At(d.current_block, d.block_offset) + 1
        /\ \/ n2 = n /\ occ2 = occ
           \/ n2 = n /\ occ2 = occ + 1 /\ At(n2 - 1, occ2) = q2
           \/ n2 = n + 1 /\ occ2 = 0 /\ occ + 1 = BLOCK_SIZE /\ At(n2 - 1, occ2) = q2
    BY LoopStepMoves DEF ByteMoved
  <1>3. p = At(d.current_block, d.block_offset)
    BY DEF Position, At
  <1>4. Size(f) = At(n - 1, occ) /\ Size(f)' = At(n2 - 1, occ2)
    BY DEF At, Size, LastBlock
  <1>5. d.current_block \in Nat /\ d.block_offset \in Offsets
    BY <1>2 DEF InFile, Offsets
  <1>6. p <= At(n - 1, occ) /\ p + 1 <= At(n2 - 1, occ2)
    BY <1>2, <1>3 DEF InFile
  <1>7. p \in Nat
    BY <1>1, EntryIs
  <1> HIDE DEF n, n2, occ, occ2, d2, q2
  <1>8. At(n - 1, occ) \in Nat
    BY <1>2, Constants DEF At
  <1>9. /\ At(n - 1, occ + 1) = At(n - 1, occ) + 1
        /\ occ + 1 = BLOCK_SIZE => At((n + 1) - 1, 0) = At(n - 1, occ) + 1
    BY <1>2, Constants DEF At
  <1>10. At(n2 - 1, occ2) = IF p = At(n - 1, occ) THEN p + 1 ELSE At(n - 1, occ)
    <2>1. CASE n2 = n /\ occ2 = occ
      BY <1>6, <1>7, <1>8, <2>1
    <2>2. CASE n2 = n /\ occ2 = occ + 1 /\ At(n2 - 1, occ2) = p + 1
      BY <1>7, <1>8, <1>9, <2>2
    <2>3. CASE n2 = n + 1 /\ occ2 = 0 /\ occ + 1 = BLOCK_SIZE /\ At(n2 - 1, occ2) = p + 1
      BY <1>7, <1>8, <1>9, <2>3
    <2> QED BY <1>2, <1>3, <2>1, <2>2, <2>3
  <1> QED BY <1>1, <1>3, <1>4, <1>5, <1>6, <1>7, <1>10

\* ufs_write, for one byte: it goes where the descriptor is.
LEMMA WriteImplements ==
  ASSUME LInv, LInv', NEW b \in Byte, WriteByte(b)
  PROVE  \E i \in Slots : Promise!Write(i, b)
  <1> SUFFICES ASSUME NEW d, d = file_descriptors[io_fd]
               PROVE  \E i \in Slots : Promise!Write(i, b)
    OBVIOUS
  <1> DEFINE f == d.file
             p == Position(d)
             n == Len(blocks[f])
             s == Bytes(f)
             t == Bytes(f)'
             mem == Written(blocks[f], d.current_block + 1, d.block_offset, b)
  <1>0. FInv /\ FInv' /\ b \in Cell /\ buf' = b /\ UNCHANGED fileVars
    BY DEF LInv, Cell, WriteByte
  <1>1. /\ io_fd \in Slots /\ d # NULL /\ f \in files /\ f \in files' /\ f \in Files
        /\ p \in Nat /\ p = At(d.current_block, d.block_offset)
        /\ d.current_block \in Nat /\ d.block_offset \in Offsets
        /\ p <= Size(f)
        /\ Size(f)' = IF p = Size(f) THEN p + 1 ELSE Size(f)
    BY LoopPosition
  <1>2. /\ blocks[f] \in Seq([Offsets -> Cell]) /\ n \in Nat /\ n > 0 /\ occupied[f] \in Nat
        /\ occupied[f] <= BLOCK_SIZE
        /\ \A g \in files : g # f => blocks'[g] = blocks[g] /\ occupied'[g] = occupied[g]
    BY LoopStepMoves, Constants DEF ByteMoved
  <1>3. FileBytes(f) /\ FileBytes(f)'
    BY <1>1, BytesIs, BytesAfter DEF FilesHaveBytes
  <1>4. \A j \in 1..n : blocks'[f][j] = mem[j]
    <2>1. mem \in Seq([Offsets -> Cell]) /\ Len(mem) = n
      <3> HIDE DEF f
      <3> QED BY <1>0, <1>2, ByteWritten
    <2>2. blocks'[f] = mem \/ blocks'[f] = Append(mem, NewBlock)
      <3>1. blocks \in [Files -> Seq([Offsets -> Cell])]
        BY <1>0 DEF FInv, TypeOK
      <3> QED BY <1>1, <3>1 DEF WriteByte, AdvanceDescriptor, Written
    <2> HIDE DEF mem
    <2>3. \A j \in 1..n : Append(mem, NewBlock)[j] = mem[j]
      BY <2>1, NewBlockType, AppendProperties
    <2> QED BY <2>2, <2>3
  <1> HIDE DEF f, p, n, s, t
  <1>5. /\ s \in Seq(Cell) /\ t \in Seq(Cell) /\ Len(s) = Size(f) /\ Len(s) \in Nat
        /\ Len(t) = IF p = Len(s) THEN p + 1 ELSE Len(s)
        /\ p \in 0..Len(s)
    BY <1>1, <1>3 DEF FileBytes, s, t
  <1>6. ASSUME NEW k \in 1..Len(t)
        PROVE  t[k] = IF k = p + 1 THEN b ELSE s[k]
    <2> DEFINE x == k - 1
               q == x \div BLOCK_SIZE
               r == x % BLOCK_SIZE
    <2>1. x \in Nat /\ k = x + 1
      BY <1>5
    <2>2. q \in Nat /\ r \in Offsets /\ x = At(q, r)
      BY <2>1, ByteAt
    <2>3. t[k] = blocks'[f][q + 1][r]
      BY <1>1, <1>3, <1>5 DEF FileBytes, t
    <2> HIDE DEF x, q, r
    <2>4. CASE x = p
      <3>1. q = d.current_block /\ r = d.block_offset
        <4>1. At(q, r) \div BLOCK_SIZE = q /\ (At(q, r) % BLOCK_SIZE) = r
          BY <2>2, AtByte
        <4>2. /\ p \div BLOCK_SIZE = d.current_block
              /\ (p % BLOCK_SIZE) = d.block_offset
          BY <1>1, AtByte
        <4>3. At(q, r) = p
          BY <2>2, <2>4
        <4> QED BY <4>1, <4>2, <4>3
      <3>2. q + 1 \in 1..n
        <4>1. InFile(d.current_block, d.block_offset, n, occupied[f])
          BY LoopStepMoves DEF ByteMoved, f, n
        <4> QED BY <1>2, <3>1, <4>1 DEF InFile
      <3>3. blocks[f][q + 1] \in [Offsets -> Cell] /\ q + 1 \in DOMAIN blocks[f]
        BY <1>2, <3>2, ElementOfSeq, LenProperties DEF n
      <3>4. mem[q + 1][r] = b
        BY <2>2, <3>1, <3>3 DEF Written
      <3> QED BY <1>4, <2>1, <2>3, <2>4, <3>2, <3>4
    <2>5. CASE x # p
      <3>1. k \in 1..Len(s) /\ k # p + 1
        <4>1. CASE p = Len(s)
          BY <1>5, <2>1, <2>5, <4>1
        <4>2. CASE p # Len(s)
          BY <1>1, <1>5, <2>1, <2>5, <4>2
        <4> QED BY <4>1, <4>2
      <3>2. q + 1 \in 1..n
        <4>1. Size(f) = At(n - 1, occupied[f])
          BY <1>3 DEF FileBytes, n
        <4>2. x < Size(f)
          BY <1>5, <2>1, <3>1
        <4> QED BY <1>2, <2>1, <4>1, <4>2, ByteInBlocks DEF q
      <3>3. ~ (q = d.current_block /\ r = d.block_offset)
        BY <1>1, <2>2, <2>5
      <3>4. blocks[f][q + 1] \in [Offsets -> Cell] /\ q + 1 \in DOMAIN blocks[f]
        BY <1>2, <3>2, ElementOfSeq, LenProperties DEF n
      <3>5. q + 1 = d.current_block + 1 => q = d.current_block
        BY <1>1, <2>2
      <3>6. mem[q + 1][r] = blocks[f][q + 1][r]
        BY <2>2, <3>3, <3>4, <3>5 DEF Written
      <3>7. s[k] = blocks[f][q + 1][r]
        BY <1>3, <1>5, <3>1 DEF FileBytes, s, q, r, x
      <3> QED BY <1>4, <2>3, <3>1, <3>2, <3>6, <3>7
    <2> QED BY <2>4, <2>5
  <1>7. t = SubSeq(s, 1, p) \o <<b>> \o SubSeq(s, p + 2, Len(s))
    <2>1. \A k \in 1..Len(t) : t[k] = IF k = p + 1 THEN b ELSE s[k]
      BY <1>6
    <2>2. /\ s \in Seq(Cell) /\ t \in Seq(Cell) /\ p \in 0..Len(s) /\ b \in Cell
          /\ Len(t) = IF p = Len(s) THEN p + 1 ELSE Len(s)
      BY <1>0, <1>5
    <2>3. Overwrites(t, s, p, b)
      BY <2>1, <2>2 DEF Overwrites
    <2> QED BY Zenon, <2>2, <2>3, WriteInSequence
  <1>8. Content' = [Content EXCEPT ![f] = SubSeq(@, 1, p) \o <<b>> \o SubSeq(@, p + 2, Len(@))]
    <2>1. \A g \in Files : g # f => Bytes(g)' = Bytes(g)
      <3> SUFFICES ASSUME NEW g \in Files, g # f PROVE Bytes(g)' = Bytes(g)
        OBVIOUS
      <3>1. CASE g \in files
        BY <1>0, <1>2, <3>1, BytesSame
      <3>2. CASE g \notin files
        BY <1>0, <3>2, NoBytes, NoBytesAfter
      <3> QED BY <3>1, <3>2
    <2>2. Content'[f] = t /\ Content[f] = s
      BY <1>1 DEF Content, t, s
    <2>3. \A g \in Files : g # f => Content'[g] = Content[g]
      BY <2>1 DEF Content
    <2>4. Content = [g \in Files |-> Content[g]] /\ Content' = [g \in Files |-> Content'[g]]
      BY DEF Content
    <2> QED BY <1>1, <1>7, <2>2, <2>3, <2>4
  <1>9. Table' = [Table EXCEPT ![io_fd].pos = p + 1]
    BY TableMoved DEF p
  <1>10. Table[io_fd] # NULL /\ Table[io_fd].file = f /\ Table[io_fd].pos = p
    BY <1>0, <1>1, TableIs DEF f, p
  <1>11. p < MAX_FILE_SIZE
    <2>1. pc = "write" /\ io_left > 0 /\ io_left \in Int
      BY <1>0 DEF WriteByte, FInv, TypeOK
    <2>2. p + io_left <= MAX_FILE_SIZE
      BY <2>1 DEF LInv, LoopInBounds, p
    <2> QED BY <1>1, <2>1, <2>2, Constants
  <1>12. p <= Len(Content[f])
    BY <1>1, <1>5 DEF Content, s
  <1>13. UNCHANGED <<files, Directory>>
    BY <1>0, DirectorySame
  <1>14. PICK i \in Slots : i = io_fd
    BY <1>1
  <1>15. Table' = [Table EXCEPT ![i].pos = p + 1]
    BY <1>9, <1>14
  <1>16. Promise!Write(i, b)
    BY <1>0, <1>8, <1>10, <1>11, <1>12, <1>13, <1>14, <1>15, WriteIs
  <1> QED BY <1>16

\* ufs_read, for one byte: it is the one the descriptor is at.
LEMMA ReadImplements ==
  ASSUME LInv, LInv', ReadByte
  PROVE  \E i \in Slots : Promise!Read(i)
  <1> SUFFICES ASSUME NEW d, d = file_descriptors[io_fd]
               PROVE  \E i \in Slots : Promise!Read(i)
    OBVIOUS
  <1> DEFINE f == d.file
             p == Position(d)
  <1>0. FInv /\ FInv' /\ UNCHANGED fileVars
    BY DEF LInv, ReadByte
  <1>1. /\ io_fd \in Slots /\ d # NULL /\ f \in files /\ f \in Files
        /\ p \in Nat /\ p = At(d.current_block, d.block_offset)
        /\ d.current_block \in Nat /\ d.block_offset \in Offsets
    BY LoopPosition
  <1>2. FileBytes(f)
    BY <1>1, BytesIs DEF FilesHaveBytes
  <1>3. p < Size(f)
    <2>1. pc = "read" /\ io_left > 0 /\ io_left \in Int
      BY <1>0 DEF ReadByte, FInv, TypeOK
    <2>2. p + io_left <= Size(f)
      BY <2>1 DEF LInv, LoopInBounds
    <2> QED BY <1>1, <1>2, <2>1, <2>2 DEF FileBytes
  <1>4. UNCHANGED dataVars
    <2>1. /\ occupied[f] \in Nat /\ occupied[f] < BLOCK_SIZE /\ Len(blocks[f]) \in Nat
          /\ InFile(d.current_block, d.block_offset, Len(blocks[f]), occupied[f])
      BY LoopStepMoves DEF ByteMoved
    <2>2. At(d.current_block, d.block_offset) < At(Len(blocks[f]) - 1, occupied[f])
      BY <1>1, <1>2, <1>3 DEF FileBytes
    <2>3. d.block_offset + 1 = BLOCK_SIZE => d.current_block # LastBlock(f)
      BY <2>1, <2>2, NextByteInside DEF LastBlock
    <2>4. /\ blocks' = [blocks EXCEPT ![f] = blocks[f]]
          /\ occupied' = [occupied EXCEPT ![f] = occupied[f]]
      BY <2>3 DEF ReadByte, AdvanceDescriptor
    <2> QED BY <1>0, <2>4 DEF FInv, TypeOK
  <1>5. buf' = Bytes(f)[p + 1]
    <2>1. p \div BLOCK_SIZE = d.current_block /\ (p % BLOCK_SIZE) = d.block_offset
      BY <1>1, AtByte
    <2>2. p + 1 \in 1..Size(f) /\ (p + 1) - 1 = p
      BY <1>1, <1>2, <1>3 DEF FileBytes
    <2>3. Bytes(f)[p + 1] = blocks[f][p \div BLOCK_SIZE + 1][p % BLOCK_SIZE]
      <3> HIDE DEF p
      <3> QED BY <1>2, <2>2 DEF FileBytes
    <2>4. buf' = blocks[f][d.current_block + 1][d.block_offset]
      BY DEF ReadByte
    <2> HIDE DEF p, f
    <2> QED BY <2>1, <2>3, <2>4
  <1> HIDE DEF p, f
  <1>6. Content[f] = Bytes(f) /\ p < Len(Content[f])
        /\ buf' = Content[f][p + 1]
    BY <1>1, <1>2, <1>3, <1>5 DEF Content, FileBytes
  <1>7. Table' = [Table EXCEPT ![io_fd].pos = p + 1]
    BY TableMoved DEF p
  <1>8. Table[io_fd] # NULL /\ Table[io_fd].file = f /\ Table[io_fd].pos = p
    BY <1>0, <1>1, TableIs DEF f, p
  <1>9. UNCHANGED <<files, Directory, Content>>
    BY <1>0, <1>4, DirectorySame, DataSame
  <1>10. io_fd \in Slots /\ p < Len(Content[f]) /\ buf' = Content[f][p + 1]
    BY <1>1, <1>6
  <1>11. PICK i \in Slots : i = io_fd
    BY <1>1
  <1>12. /\ Table[i] # NULL /\ Table[i].pos < Len(Content[Table[i].file])
         /\ buf' = Content[Table[i].file][Table[i].pos + 1]
         /\ Table' = [Table EXCEPT ![i].pos = Table[i].pos + 1]
    BY <1>7, <1>8, <1>10, <1>11
  <1>13. Promise!Read(i)
    BY <1>9, <1>12, ReadIs
  <1> QED BY <1>13

-----------------------------------------------------------------------------
(*****************************************************************************)
(* ufs_resize, and the theorem                                              *)
(*****************************************************************************)

\* What is behind the new end, by blocks and offsets or by positions.
LEMMA BehindIs ==
  ASSUME NEW d \in Descriptor, d.block_offset < BLOCK_SIZE,
         NEW block \in Nat, NEW offset \in Nat, offset < BLOCK_SIZE
  PROVE  Behind(d, block, offset) <=> Position(d) > At(block, offset)
  <1> DEFINE cb == d.current_block
             co == d.block_offset
  <1>1. cb \in Nat /\ co \in Nat /\ co < BLOCK_SIZE
    BY DEF Descriptor
  <1>2. Position(d) = At(cb, co) /\ (Behind(d, block, offset) <=>
          cb > block \/ (cb = block /\ co > offset))
    BY DEF Position, At, Behind
  <1> HIDE DEF cb, co
  <1>3. CASE cb = block
    BY <1>1, <1>2, <1>3, Constants DEF At
  <1>4. CASE cb > block
    <2>1. (block + 1) * BLOCK_SIZE <= cb * BLOCK_SIZE
      BY <1>1, <1>4, MulMono, Constants
    <2>2. At(block, offset) < cb * BLOCK_SIZE
      BY <1>1, <2>1, Constants DEF At
    <2>3. At(cb, co) >= cb * BLOCK_SIZE /\ cb * BLOCK_SIZE \in Nat /\ At(block, offset) \in Nat
          /\ At(cb, co) \in Nat
      BY <1>1, Constants DEF At
    <2> QED BY <1>2, <1>4, <2>2, <2>3
  <1>5. CASE cb < block
    <2>1. (cb + 1) * BLOCK_SIZE <= block * BLOCK_SIZE
      BY <1>1, <1>5, MulMono, Constants
    <2>2. At(cb, co) < block * BLOCK_SIZE
      BY <1>1, <2>1, Constants DEF At
    <2>3. At(block, offset) >= block * BLOCK_SIZE /\ block * BLOCK_SIZE \in Nat
          /\ At(block, offset) \in Nat /\ At(cb, co) \in Nat
      BY <1>1, Constants DEF At
    <2> QED BY <1>1, <1>2, <1>5, <2>2, <2>3
  <1> QED BY <1>1, <1>3, <1>4, <1>5

\* The elements of s that a cut to n leaves.
Kept(s, n) == SubSeq(s, 1, IF n < Len(s) THEN n ELSE Len(s))

\* t has the elements of s as far as both go.
Agree(t, s) == \A k \in 1..Len(t) : k <= Len(s) => t[k] = s[k]

\* Such a sequence is a prefix of the other and something more.
LEMMA PrefixAndTail ==
  ASSUME NEW T, NEW s \in Seq(T), NEW t \in Seq(T),
         Agree(t, s)
  PROVE  \E tail \in [1..(Len(t) - Len(Kept(s, Len(t)))) -> T] :
           t = Kept(s, Len(t)) \o tail
  <1> DEFINE m == IF Len(t) < Len(s) THEN Len(t) ELSE Len(s)
             u == SubSeq(s, 1, m)
             v == SubSeq(t, m + 1, Len(t))
  <1>1. /\ Len(s) \in Nat /\ Len(t) \in Nat /\ m \in Nat /\ m <= Len(s) /\ m <= Len(t)
        /\ \A k \in 1..Len(s) : s[k] \in T
        /\ \A k \in 1..Len(t) : t[k] \in T
    BY LenProperties, ElementOfSeq
  <1>2. Kept(s, Len(t)) = u
    BY DEF Kept
  <1> HIDE DEF m
  <1>3. u \in Seq(T) /\ Len(u) = m /\ \A k \in 1..m : u[k] = s[k]
    BY <1>1, SubSeqProperties
  <1>4. SubSeq(t, 1, m) = u
    <2>1. /\ SubSeq(t, 1, m) \in Seq(T) /\ Len(SubSeq(t, 1, m)) = m
          /\ \A k \in 1..m : SubSeq(t, 1, m)[k] = t[k]
      BY <1>1, SubSeqProperties
    <2>2. \A k \in 1..m : t[k] = s[k]
      BY <1>1 DEF Agree
    <2> QED BY <1>3, <2>1, <2>2, SeqEqual
  <1>5. v \in Seq(T) /\ Len(v) = Len(t) - m
    <2>1. m + 1 \in Int /\ Len(t) \in Int /\ \A k \in (m + 1)..Len(t) : t[k] \in T
      BY <1>1
    <2>2. v \in Seq(T) /\ Len(v) = IF m + 1 <= Len(t) THEN Len(t) - (m + 1) + 1 ELSE 0
      BY <2>1, SubSeqProperties
    <2> HIDE DEF v
    <2> QED BY <1>1, <2>2
  <1>6. v \in [1..(Len(t) - m) -> T]
    BY <1>5, LenProperties
  <1>7. SubSeq(t, 1, m) \o v = t
    <2>1. 1 \in 1..(Len(t) + 1) /\ m \in (1 - 1)..Len(t) /\ Len(t) \in m..Len(t)
      BY <1>1
    <2>2. SubSeq(t, 1, m) \o SubSeq(t, m + 1, Len(t)) = SubSeq(t, 1, Len(t))
      BY <2>1, ConcatAdjacentSubSeq
    <2> QED BY <2>2, SubSeqFull
  <1>8. t = u \o v
    BY <1>4, <1>7
  <1> HIDE DEF u, v
  <1> QED BY <1>2, <1>3, <1>6, <1>8

\* ufs_resize: the file keeps the bytes before its new end.
LEMMA ResizeImplements ==
  ASSUME SizesFit, LInv, LInv', NEW fd \in -1..FD_BOUND, NEW new_size \in Sizes,
         ufs_resize(fd, new_size)
  PROVE  \/ UNCHANGED Promise!vars
         \/ \E f \in Files, size \in 0..(MAX_FILE_SIZE - 1) : Promise!Resize(f, size)
  <1>0. UNCHANGED <<fileVars, buf>> /\ FInv /\ FInv' /\ new_size \in Nat /\ fd \in Int
    BY Constants, UserFSAssumption DEF ufs_resize, LInv
  <1>1. CASE UNCHANGED <<dataVars, file_descriptors>>
    BY <1>0, <1>1, Stutter
  <1>2. CASE /\ Valid(fd) /\ new_size < MAX_FILE_SIZE
             /\ Grow \/ new_size < Len(blocks[file_descriptors[fd].file]) * BLOCK_SIZE
             /\ reduce_file_size(file_descriptors[fd].file, new_size)
    <2>1. PICK f \in files : f = file_descriptors[fd].file
      BY <1>0, <1>2, ValidSlot
    <2> DEFINE n == Len(blocks[f])
               last == LastBlock(f)
               cut == IF new_size \div BLOCK_SIZE < last THEN new_size \div BLOCK_SIZE ELSE last
               rest == new_size - cut * BLOCK_SIZE
               s == Bytes(f)
               t == Bytes(f)'
    <2>2. f \in Files /\ blocks[f] \in Seq([Offsets -> Cell]) /\ n \in Nat /\ n > 0
          /\ FileBytes(f) /\ FileBytes(f)' /\ f \in files'
      BY <1>0, <2>1, BytesIs, BytesAfter, LenProperties
         DEF FInv, TypeOK, HasBlocks, FilesHaveBytes
    <2>3. last \in Nat /\ last + 1 = n /\ new_size < (last + 1) * BLOCK_SIZE
      BY <1>2, <2>1, <2>2 DEF LastBlock, SizesFit
    <2>4. /\ blocks' = [blocks EXCEPT ![f] = SubSeq(@, 1, cut + 1)]
          /\ occupied' = [occupied EXCEPT ![f] = rest]
          /\ file_descriptors' = [i \in Slots |->
               IF i \in OpenSlots /\ file_descriptors[i].file = f
                  /\ Behind(file_descriptors[i], cut, rest)
               THEN Moved(file_descriptors[i], cut, rest)
               ELSE file_descriptors[i]]
      BY <1>2, <2>1 DEF reduce_file_size, Moved
    <2>5. cut \in 0..last /\ rest \in Nat /\ rest < BLOCK_SIZE
      <3> HIDE DEF last
      <3> QED BY <1>0, <2>3, NewEnd
    <2> HIDE DEF n, last
    <2>6. At(cut, rest) = new_size /\ cut + 1 \in 1..n /\ cut \in Nat
      BY <1>0, <2>3, <2>5, Constants DEF At
    <2> HIDE DEF cut, rest, s, t
    <2>7. /\ Len(blocks'[f]) = cut + 1 /\ occupied'[f] = rest
          /\ \A j \in 1..(cut + 1) : blocks'[f][j] = blocks[f][j]
          /\ \A g \in Files : g # f => blocks'[g] = blocks[g] /\ occupied'[g] = occupied[g]
      <3>1. blocks'[f] = SubSeq(blocks[f], 1, cut + 1)
            /\ occupied'[f] = rest
            /\ \A g \in Files : g # f => blocks'[g] = blocks[g] /\ occupied'[g] = occupied[g]
        BY <1>0, <2>2, <2>4 DEF FInv, TypeOK
      <3>2. /\ Len(SubSeq(blocks[f], 1, cut + 1)) = cut + 1
            /\ \A j \in 1..(cut + 1) : SubSeq(blocks[f], 1, cut + 1)[j] = blocks[f][j]
        <4>1. \A j \in 1..(cut + 1) : blocks[f][j] \in [Offsets -> Cell]
          BY <2>2, <2>6, ElementOfSeq DEF n
        <4> QED BY <2>6, <4>1, SubSeqProperties
      <3> QED BY <3>1, <3>2
    <2>8. s \in Seq(Cell) /\ t \in Seq(Cell) /\ Len(t) = new_size /\ Len(s) = Size(f)
          /\ Size(f)' = new_size
      <3>1. Size(f)' = At(cut, rest)
        <4>1. (cut + 1) - 1 = cut
          BY <2>6
        <4> QED BY <2>2, <2>7, <4>1 DEF FileBytes, At
      <3> QED BY <2>2, <2>6, <3>1 DEF FileBytes, s, t
    <2>9. ASSUME NEW k \in 1..Len(t), k <= Len(s)
          PROVE  t[k] = s[k]
      <3> DEFINE x == k - 1
                 q == x \div BLOCK_SIZE
                 r == x % BLOCK_SIZE
      <3>1. x \in Nat /\ x < new_size /\ k \in 1..Size(f)' /\ k \in 1..Size(f)
        BY <1>0, <2>2, <2>8, <2>9 DEF FileBytes
      <3>2. t[k] = blocks'[f][q + 1][r] /\ s[k] = blocks[f][q + 1][r]
        BY <2>2, <3>1 DEF FileBytes, s, t
      <3> HIDE DEF x
      <3>3. q + 1 \in 1..(cut + 1)
        <4>1. x < At((cut + 1) - 1, rest)
          <5>1. (cut + 1) - 1 = cut
            BY <2>6
          <5> QED BY <2>6, <3>1, <5>1
        <4>2. cut + 1 \in Nat /\ cut + 1 > 0 /\ rest \in Nat /\ rest <= BLOCK_SIZE
          BY <2>5, <2>6, Constants
        <4> QED BY <3>1, <4>1, <4>2, ByteInBlocks
      <3> HIDE DEF q, r
      <3> QED BY <2>7, <3>2, <3>3
    <2>10. PICK tail \in [1..(new_size - Len(Kept(s, new_size))) -> Cell] :
             t = Kept(s, new_size) \o tail
      <3>1. Agree(t, s)
        BY <2>9 DEF Agree
      <3>2. s \in Seq(Cell) /\ t \in Seq(Cell)
        BY <2>8
      <3>3. \E tail \in [1..(Len(t) - Len(Kept(s, Len(t)))) -> Cell] :
              t = Kept(s, Len(t)) \o tail
        <4>1. PICK s0 \in Seq(Cell), t0 \in Seq(Cell) : s0 = s /\ t0 = t
          BY <3>2
        <4>2. Agree(t0, s0)
          BY <3>1, <4>1
        <4>3. \E tail \in [1..(Len(t0) - Len(Kept(s0, Len(t0)))) -> Cell] :
                t0 = Kept(s0, Len(t0)) \o tail
          BY <4>2, PrefixAndTail
        <4> QED BY <4>1, <4>3
      <3> QED BY Zenon, <2>8, <3>3
    <2>11. Content' = [Content EXCEPT ![f] = Kept(@, new_size) \o tail]
      <3>1. ASSUME NEW g \in Files, g # f PROVE Bytes(g)' = Bytes(g)
        BY <1>0, <2>7, <3>1, BytesSame
      <3>2. Content'[f] = t /\ Content[f] = s
        BY <2>2 DEF Content, t, s
      <3>3. \A g \in Files : g # f => Content'[g] = Content[g]
        BY <3>1 DEF Content
      <3>4. Content = [g \in Files |-> Content[g]] /\ Content' = [g \in Files |-> Content'[g]]
        BY DEF Content
      <3> QED BY <2>2, <2>10, <3>2, <3>3, <3>4
    <2>12. Table' = [i \in Slots |->
             IF i \in Promise!Holding(f) /\ Table[i].pos > new_size
             THEN [Table[i] EXCEPT !.pos = new_size] ELSE Table[i]]
      <3>1. ASSUME NEW i \in Slots
            PROVE  Table'[i] = IF i \in Promise!Holding(f) /\ Table[i].pos > new_size
                               THEN [Table[i] EXCEPT !.pos = new_size] ELSE Table[i]
        <4> DEFINE e == file_descriptors[i]
        <4>0. Table'[i] = IF file_descriptors'[i] = NULL THEN NULL
                          ELSE Entry(file_descriptors'[i])
          BY DEF Table, Entry, Position
        <4>1. Table[i] = IF e = NULL THEN NULL ELSE Entry(e)
          BY DEF Table
        <4>2. i \in Promise!Holding(f) <=> e # NULL /\ e.file = f
          BY <1>0, HoldingHolders DEF Holders
        <4>3. CASE e = NULL
          <5>1. file_descriptors'[i] = NULL
            BY <2>4, <4>3 DEF OpenSlots
          <5> QED BY <4>0, <4>1, <4>2, <4>3, <5>1
        <4>4. CASE e # NULL
          <5>1. e \in Descriptor /\ e.block_offset < BLOCK_SIZE
            BY <1>0, <4>4, Constants DEF FInv, TypeOK, LInv, PositionInFile, OpenSlots, Offsets
          <5>2. Behind(e, cut, rest) <=> Position(e) > new_size
            BY <2>5, <2>6, <5>1, BehindIs
          <5>3. Table[i] = Entry(e) /\ Table[i].pos = Position(e)
            BY <4>1, <4>4, <5>1, EntryIs
          <5>4. i \in OpenSlots
            BY <4>4 DEF OpenSlots
          <5>5. file_descriptors'[i] = IF e.file = f /\ Behind(e, cut, rest)
                                       THEN Moved(e, cut, rest) ELSE e
            BY <2>4, <5>4
          <5> HIDE DEF e
          <5>6. CASE e.file = f /\ Behind(e, cut, rest)
            <6>1. file_descriptors'[i] = Moved(e, cut, rest)
              BY <5>5, <5>6
            <6>2. /\ Moved(e, cut, rest) \in Descriptor
                  /\ Moved(e, cut, rest).file = e.file
                  /\ Moved(e, cut, rest).current_block = cut
                  /\ Moved(e, cut, rest).block_offset = rest
              BY <2>5, <2>6, <5>1, MovedDescriptor
            <6>3. Position(Moved(e, cut, rest)) = new_size
              BY <2>6, <6>2 DEF Position, At
            <6>4. Entry(Moved(e, cut, rest)) = [file |-> e.file, pos |-> new_size]
              BY <6>2, <6>3 DEF Entry
            <6>5. [Entry(e) EXCEPT !.pos = new_size] = [file |-> e.file, pos |-> new_size]
              BY DEF Entry
            <6>6. Moved(e, cut, rest) # NULL
              BY <6>2, NullAssumption
            <6> QED BY <4>0, <4>2, <4>4, <5>2, <5>3, <5>6, <6>1, <6>4, <6>5, <6>6
          <5>7. CASE ~ (e.file = f /\ Behind(e, cut, rest))
            <6>1. file_descriptors'[i] = e
              BY <5>5, <5>7
            <6> QED BY <4>0, <4>1, <4>2, <5>2, <5>3, <5>7, <6>1
          <5> QED BY <5>6, <5>7
        <4> QED BY <4>3, <4>4
      <3>2. Table' = [i \in Slots |-> Table'[i]]
        BY DEF Table
      <3> QED BY <3>1, <3>2
    <2>13. UNCHANGED <<files, Directory, buf>>
      BY <1>0, DirectorySame
    <2>14. Promise!Resize(f, new_size)
      <3>1. Content[f] = s
        BY <2>2 DEF Content, s
      <3>2. tail \in [1..(new_size - Len(Kept(Content[f], new_size))) -> Cell]
        BY <2>10, <3>1
      <3>3. \A c, size : Promise!Prefix(c, size) = Kept(c, size)
        BY DEF Promise!Prefix, Kept
      <3> QED BY <2>1, <2>2, <2>11, <2>12, <2>13, <3>2, <3>3, ResizeIs
    <2> QED BY <1>0, <1>2, <2>2, <2>14, Constants
  <1> QED BY <1>1, <1>2 DEF ufs_resize

\* At the start both file systems are empty.
LEMMA InitImplements == Init => Promise!Init
  <1> SUFFICES ASSUME Init PROVE Promise!Init
    OBVIOUS
  <1>1. Directory = [n \in Names |-> NULL]
    BY DEF Init, Directory, Lookup, try_get_file_by_filename
  <1>2. Content = [f \in Files |-> <<>>]
    BY NoBytes DEF Init, Content
  <1>3. Table = [i \in Slots |-> NULL]
    BY DEF Init, Table
  <1> QED BY <1>1, <1>2, <1>3 DEF Init, Promise!Init, Directory, Content, Table, Entry

\* Every step is one of the abstract file system, or one it does not see.
LEMMA NextImplements ==
  ASSUME SizesFit, LInv, LInv', NamesKept, [Next]_vars
  PROVE  [Promise!Next]_(Promise!vars)
  <1> SUFFICES ASSUME ~ UNCHANGED Promise!vars PROVE Promise!Next
    OBVIOUS
  <1>1. ASSUME NEW n \in Names, NEW flags \in FlagSets, ufs_open(n, flags)
        PROVE  Promise!Next
    BY <1>1, OpenImplements DEF Promise!Next
  <1>2. ASSUME NEW fd \in -1..FD_BOUND, NEW size \in Sizes,
               ufs_write(fd, size) \/ ufs_read(fd, size)
        PROVE  Promise!Next
    <2>1. UNCHANGED <<fileVars, dataVars, file_descriptors, buf>>
      BY <1>2 DEF ufs_write, ufs_read, StartLoop
    <2> QED BY <2>1, Stutter
  <1>3. ASSUME NEW fd \in -1..FD_BOUND, NEW size \in Sizes, ufs_resize(fd, size)
        PROVE  Promise!Next
    <2>1. \E f \in Files, s \in 0..(MAX_FILE_SIZE - 1) : Promise!Resize(f, s)
      BY <1>3, ResizeImplements
    <2> QED BY <2>1 DEF Promise!Next
  <1>4. ASSUME NEW fd \in -1..FD_BOUND, ufs_close(fd)
        PROVE  Promise!Next
    BY <1>4, CloseImplements DEF Promise!Next
  <1>5. ASSUME NEW n \in Names, ufs_delete(n)
        PROVE  Promise!Next
    BY <1>5, DeleteImplements DEF Promise!Next
  <1>6. CASE ufs_destroy
    BY <1>6, DestroyImplements DEF Promise!Next
  <1>7. ASSUME NEW b \in Byte, WriteByte(b)
        PROVE  Promise!Next
    <2>1. b \in Cell
      BY DEF Cell
    <2>2. \E i \in Slots : Promise!Write(i, b)
      BY <1>7, WriteImplements
    <2> QED BY <2>1, <2>2 DEF Promise!Next
  <1>8. CASE ReadByte
    <2>1. \E i \in Slots : Promise!Read(i)
      BY <1>8, ReadImplements
    <2> QED BY <2>1 DEF Promise!Next
  <1>9. CASE EndLoop
    <2>1. UNCHANGED <<files, Directory, Content, Table>> /\ buf' = GARBAGE
      BY <1>9, DirectorySame, DataSame, TableSame DEF EndLoop
    <2>2. Promise!Return
      BY <2>1 DEF Promise!Return, Directory, Content, Table, Entry
    <2> QED BY <2>2 DEF Promise!Next
  <1>10. CASE UNCHANGED vars
    BY <1>10, Stutter
  <1> QED BY <1>1, <1>2, <1>3, <1>4, <1>5, <1>6, <1>7, <1>8, <1>9, <1>10 DEF Next, IOStep

\* The file system does what userfs.h promises of it, as module FileSystem says:
\* a file is a sequence of bytes, a descriptor a file and a position, a byte that
\* is written replaces the one at the position or follows the last, a byte that
\* is read is the one at the position, and a file that has lost its name lives
\* until its last descriptor is closed. Blocks, reference counts, the mark for
\* deletion and the two loops are out of sight.
THEOREM FileSystemImplemented == SizesFit => (Spec => ImplementsFileSystem)
  <1> DEFINE RInv == LInv /\ NamesKept
  <1>1. Init => RInv /\ Promise!Init
    BY InitLInv, InitImplements DEF Init, NamesKept
  <1>2. SizesFit /\ RInv /\ [Next]_vars => RInv' /\ [Promise!Next]_(Promise!vars)
    BY NextLInv, NamesKeptNext, NextImplements DEF LInv
  <1> SUFFICES ASSUME SizesFit PROVE Spec => ImplementsFileSystem
    OBVIOUS
  <1>3. RInv /\ [Next]_vars => RInv' /\ [Promise!Next]_(Promise!vars)
    BY <1>2
  <1> QED BY <1>1, <1>3, PTL DEF Spec, ImplementsFileSystem, Promise!Spec
=============================================================================
