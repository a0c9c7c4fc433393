----------------------------- MODULE MCTunePoll -----------------------------
EXTENDS TunePoll
=============================================================================
