---------------------------- MODULE MCRunServer -----------------------------
(* Two clients, and two live runs of one loop. *)
EXTENDS RunServer
=============================================================================
