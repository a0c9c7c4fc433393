----------------------------- MODULE LoopCustody -----------------------------
(***************************************************************************)
(* What the live-ownership machinery promises about each control loop,     *)
(* without processes, locks, rows or heartbeats: a loop is written only by *)
(* whoever holds it, an interrupted holder's loop is kept for recovery     *)
(* instead of being handed to the next tune, and a recovery gives the loop *)
(* free as restored only when it carries again what it carried before.     *)
(* LiveOwnership implements this specification (its run checks it).        *)
(***************************************************************************)
CONSTANTS
    Resource,  \* control loops
    Value      \* what a loop may carry

VARIABLES
    custody,   \* free, held by an operation, orphaned, or recovering
    alive,     \* whether the holder's process is there
    loop,      \* what the loop carries
    base       \* what it carried when the present custody began

vars == <<custody, alive, loop, base>>

Init ==
    /\ custody = [res \in Resource |-> "free"]
    /\ alive = [res \in Resource |-> FALSE]
    /\ loop \in [Resource -> Value]
    /\ base = loop

Set(res, state, live) ==
    /\ custody' = [custody EXCEPT ![res] = state]
    /\ alive' = [alive EXCEPT ![res] = live]

\* A new operation takes a free loop.
Claim(res) ==
    /\ custody[res] = "free"
    /\ Set(res, "held", TRUE)
    /\ base' = [base EXCEPT ![res] = loop[res]]
    /\ UNCHANGED loop

\* The loop changes only under a live holder, which a change may outlive only
\* by the write that was in flight.
Write(res) ==
    /\ custody[res] \in {"held", "recovering"}
    /\ alive[res]
    /\ \E v \in Value : loop' = [loop EXCEPT ![res] = v]
    /\ alive' \in {alive, [alive EXCEPT ![res] = FALSE]}
    /\ UNCHANGED <<custody, base>>

\* A live operation ends, whether or not it put the loop back.
Yield(res) ==
    /\ custody[res] = "held"
    /\ alive[res]
    /\ Set(res, "free", FALSE)
    /\ base' = [base EXCEPT ![res] = loop[res]]
    /\ UNCHANGED loop

Die(res) ==
    /\ alive[res]
    /\ alive' = [alive EXCEPT ![res] = FALSE]
    /\ UNCHANGED <<custody, loop, base>>

\* The loop of a dead holder is kept for recovery, or freed.
Orphan(res) ==
    /\ custody[res] = "held"
    /\ ~ alive[res]
    /\ Set(res, "orphaned", FALSE)
    /\ UNCHANGED <<loop, base>>

Retire(res) ==
    /\ custody[res] = "held"
    /\ ~ alive[res]
    /\ Set(res, "free", FALSE)
    /\ base' = [base EXCEPT ![res] = loop[res]]
    /\ UNCHANGED loop

Recover(res) ==
    /\ custody[res] = "orphaned"
    /\ Set(res, "recovering", TRUE)
    /\ UNCHANGED <<loop, base>>

\* An unfinished recovery gives the loop back to the orphan.
Return(res) ==
    /\ custody[res] = "recovering"
    /\ Set(res, "orphaned", FALSE)
    /\ UNCHANGED <<loop, base>>

Restored(res) ==
    /\ custody[res] = "recovering"
    /\ alive[res]
    /\ loop[res] = base[res]
    /\ Set(res, "free", FALSE)
    /\ UNCHANGED <<loop, base>>

Next ==
    \E res \in Resource :
        \/ Claim(res) \/ Write(res) \/ Yield(res) \/ Die(res) \/ Orphan(res)
        \/ Retire(res) \/ Recover(res) \/ Return(res) \/ Restored(res)

Spec == Init /\ [][Next]_vars
=============================================================================
