---------------------------- MODULE MCWriteBack -----------------------------
EXTENDS WriteBack, TLC

CONSTANTS l1, l2, l3

\* Two levels that can be written and one that cannot.
MCResults == l1 :> "good" @@ l2 :> "good" @@ l3 :> "unroundable"

Symmetry == Permutations(Op) \cup Permutations({l1, l2})
=============================================================================
