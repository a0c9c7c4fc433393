--------------------------- MODULE MCLiveOwnership ---------------------------
(* Small instances of LiveOwnership for TLC. *)
EXTENDS LiveOwnership, TLC

\* Processes, runs, owners and resources are interchangeable.
Symmetry == Permutations(Proc) \cup Permutations(Run) \cup Permutations(Owner)
=============================================================================
