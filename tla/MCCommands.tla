----------------------------- MODULE MCCommands -----------------------------
(* Small instances of Commands: the clients are interchangeable.           *)
EXTENDS Commands

Symmetry == Permutations(Clients)
=============================================================================
