------------------------------ MODULE MCTrust -------------------------------
(* Small instances of Trust: device ids are interchangeable, and machines. *)
EXTENDS Trust, TLC

Symmetry == Permutations(Devices) \cup Permutations(Machines)
=============================================================================
