------------------------------- MODULE MCCommands -------------------------------
(* Instances of Commands for TLC. *)
EXTENDS Commands, TLC

Symmetry == Permutations(Commands) \cup Permutations(Svms)
=============================================================================
