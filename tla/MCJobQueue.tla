----------------------------- MODULE MCJobQueue -----------------------------
(* A small instance of JobQueue for TLC. *)
EXTENDS JobQueue, TLC

\* Rows and workers are interchangeable.
Symmetry == Permutations(Jobs) \cup Permutations(Workers)
=============================================================================
