---------------------------- MODULE MCFileSorter ----------------------------
(***************************************************************************)
(* Model-checking instances of FileSorter.                                 *)
(***************************************************************************)
EXTENDS FileSorter

CONSTANTS MAX_NUMBER, MAX_COUNT  \* bounds: the numbers, and how many a file holds

\* Every file of up to MAX_COUNT numbers, in any order and with repetitions.
SmallContents == UNION {[1..n -> 1..MAX_NUMBER] : n \in 0..MAX_COUNT}
=============================================================================
