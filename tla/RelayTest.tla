----------------------------- MODULE RelayTest ------------------------------
(***************************************************************************)
(* What the rest of the program relies on in the MRFT engine: a test is a  *)
(* fixed number of MV commands that alternate between the two relay levels *)
(* and end with one back to the initial MV.  TunePoll builds on exactly    *)
(* this; MrftEngine is shown to implement it.                              *)
(***************************************************************************)
EXTENDS Naturals

VARIABLES
    switches,   \* commands so far
    total,      \* commands of the whole test
    level       \* the last command: "ini", "high" or "low"

rvars == <<switches, total, level>>

Init == switches = 0 /\ total \in {t \in Nat : t >= 3} /\ level = "ini"

Switch ==
    /\ switches < total
    /\ switches' = switches + 1
    /\ level' \in IF switches + 1 = total THEN {"ini"} ELSE {"high", "low"} \ {level}
    /\ UNCHANGED total

Spec == Init /\ [][Switch]_rvars
=============================================================================
