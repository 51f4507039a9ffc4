------------------------------ MODULE MCUserFS ------------------------------
(***************************************************************************)
(* Model-checking instances of UserFS.                                     *)
(***************************************************************************)
EXTENDS UserFS, TLC

\* Names, files and byte values are interchangeable; descriptors are numbers.
Symmetry == Permutations(Names) \cup Permutations(Files) \cup Permutations(Byte)

\* A descriptor that may create and only read, and one that may only write.
TwoFlags == {{"UFS_CREATE", "UFS_READ_ONLY"}, {"UFS_WRITE_ONLY"}}

CreateOnly == {{"UFS_CREATE"}}
=============================================================================
