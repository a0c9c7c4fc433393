---------------------------- MODULE MCDemoServer ----------------------------
EXTENDS DemoServer, TLC
Symmetry == Permutations(Req) \cup Permutations(Visitor)
=============================================================================
