---------------------------- MODULE MCThreadPool ----------------------------
(***************************************************************************)
(* Model-checking instances of ThreadPool.                                 *)
(***************************************************************************)
EXTENDS ThreadPool, TLC

\* Tasks and clients are interchangeable; worker threads are numbered.
Symmetry == Permutations(Tasks) \cup Permutations(Clients)
=============================================================================
