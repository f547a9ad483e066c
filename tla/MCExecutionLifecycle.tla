------------------------ MODULE MCExecutionLifecycle ------------------------
(***************************************************************************)
(* ExecutionLifecycle on small instances: the constants' values are in the *)
(* .cfg files.                                                             *)
(***************************************************************************)
EXTENDS ExecutionRefinement, TLC

\* Executions, workers and requests are interchangeable: sound where only
\* invariants are checked.
Symmetry == Permutations(Executions) \cup Permutations(Workers) \cup Permutations(Requests)
=============================================================================
