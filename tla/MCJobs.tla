------------------------------- MODULE MCJobs -------------------------------
(* Small instances of Jobs: the jobs are interchangeable.                  *)
EXTENDS Jobs, TLC

Symmetry == Permutations(Jobs)
=============================================================================
