------------------------------ MODULE MCHeapHelp ------------------------------
(* The allocation tracker with interchangeable addresses: the main thread     *)
(* calls every function, the worker those that the others lead to.             *)
EXTENDS HeapHelp, TLC

Each == [t \in Threads |->
  {"malloc", "realloc", "free"}
  \cup IF t = Main THEN {"calloc", "strdup", "getline", "getaddrinfo", "freeaddrinfo"} ELSE {}]

Symmetry == Permutations(Addrs)
=============================================================================
