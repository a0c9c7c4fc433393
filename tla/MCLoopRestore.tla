--------------------------- MODULE MCLoopRestore ----------------------------
EXTENDS LoopRestore
=============================================================================
