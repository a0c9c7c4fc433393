----------------------------- MODULE ActiveRun ------------------------------
(***************************************************************************)
(* The registry of the tune tasks of one server process and of the         *)
(* exclusive reservation of a PID write or revert (bhtune-server           *)
(* active_run.rs).  Every operation holds the registry's mutex for one     *)
(* step.                                                                   *)
(***************************************************************************)
CONSTANTS
    Run,     \* ids of tune_runs rows
    None     \* no run, SQL NULL

VARIABLES
    tasks,      \* runs with a registered background task
    exclusive,  \* the run whose reservation is held
    cancelled   \* runs whose CtrlCHandle was triggered

registry == <<tasks, exclusive, cancelled>>

RegistryInit == tasks = {} /\ exclusive = None /\ cancelled = {}

RegistryTypeOK ==
    /\ tasks \subseteq Run /\ cancelled \subseteq Run
    /\ exclusive \in Run \cup {None}

\* start: refused by a reservation and by a task of the same run.
StartAllowed(r) == exclusive = None /\ r \notin tasks
StartTask(r) ==
    /\ tasks' = tasks \cup {r}
    /\ UNCHANGED <<exclusive, cancelled>>

\* reserve: refused by a reservation and by any task.
ReserveAllowed == exclusive = None /\ tasks = {}
Reserve(r) ==
    /\ exclusive' = r
    /\ UNCHANGED <<tasks, cancelled>>

\* release: the reservation of this run if there is one, else its task.
ReleaseRun(r) ==
    /\ IF exclusive = r THEN exclusive' = None /\ UNCHANGED tasks
                        ELSE tasks' = tasks \ {r} /\ UNCHANGED exclusive
    /\ UNCHANGED cancelled

\* cancel: only a registered task has a handle to trigger.
CancelRun(r) ==
    /\ cancelled' = cancelled \cup ({r} \cap tasks)
    /\ UNCHANGED <<tasks, exclusive>>

\* cancel_and_wait, the part under the mutex.
CancelAll ==
    /\ cancelled' = cancelled \cup tasks
    /\ tasks' = {}
    /\ exclusive' = None
=============================================================================
