---------------------------- MODULE MCOpcGateway ----------------------------
(***************************************************************************)
(* One browser and two command lines.  Listings have the two pages that    *)
(* collect_browse_pages follows here, or one more than its safety limit.   *)
(***************************************************************************)
EXTENDS OpcGateway

MCPageCounts == {MaxPages, MaxPages + 1}
=============================================================================
