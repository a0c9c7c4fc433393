---------------------------- MODULE LiveOwnership ----------------------------
(***************************************************************************)
(* Ownership of live OPC DA loops by the processes that share one BHTune   *)
(* database: the OS lock on the database file, the durable owner and claim *)
(* rows, the audited controller writes, the heartbeat, the startup sweep   *)
(* of dead owners, `bhtune restore-loop`, and the deletion of run rows.    *)
(*                                                                         *)
(* Sources: bhtune-runtime live_ownership.rs, tune/prepare.rs,             *)
(* tune/recovery.rs, db.rs, retention.rs; bhtune-db                        *)
(* models/live_ownership.rs, models/tune_runs.rs.  The aspects of one loop *)
(* (MV, mode, setpoint, mode attribute) are one value here: loop[res] is   *)
(* the owner whose perturbation the loop carries, None when it carries     *)
(* none.                                                                   *)
(***************************************************************************)
EXTENDS Naturals, FiniteSets

CONSTANTS
    Proc,        \* bhtune processes (CLI invocations and servers)
    Run,         \* ids of tune_runs rows
    Owner,       \* ids of live_operation_owners rows (AUTOINCREMENT: never reused)
    Resource,    \* canonical controller/MV resource keys
    None,        \* SQL NULL, "no process", "no owner"
    StaleAfter,  \* heartbeat age, in ticks, beyond ORPHAN_STALE_AFTER
    Deletions    \* which deletion paths are in use

ASSUME ConstantsAssumption ==
    /\ None \notin Proc \cup Run \cup Owner \cup Resource
    /\ StaleAfter \in Nat \ {0}
    /\ Deletions \subseteq {"http", "retention"}

VARIABLES
    proc,     \* per process: program counter and the locals of its operation
    lock,     \* the process holding the OS lock of the database file
    runs,     \* tune_runs rows
    owners,   \* live_operation_owners rows with their attempt and latest step
    claims,   \* live_operation_claims: claim key -> owner
    loop,     \* the controller: whose perturbation each loop carries
    exported  \* owners whose evidence was exported next to the database

vars == <<proc, lock, runs, owners, claims, loop, exported>>

-----------------------------------------------------------------------------
(* Types *)

\* Program counters of a process that holds a LiveOperationGuard, and of one
\* that holds the OS lock (a guard, or the lock alone).
Guarded == {"owned", "active", "writing", "written", "finishing",
            "releasing", "completing"}
Locking == Guarded \cup {"locked", "rlocked", "sweeping", "exported"}
PCs     == Locking \cup {"down", "idle", "prepared"}

Terminal   == {"completed", "aborted", "failed"}
Unresolved == {"eligible", "running", "incomplete"}

ProcRec == [pc: PCs, kind: {"none", "tune", "recovery", "pid"},
            run: Run \cup {None}, res: Resource \cup {None},
            own: Owner \cup {None}, goal: {"none", "perturb", "restore", "pid"},
            ok: BOOLEAN, restored: BOOLEAN, healthy: BOOLEAN,
            todo: SUBSET Owner]

RunRec == [outcome: Terminal \cup {"absent", "running", "deleted"},
           restore: {"none", "confirmed", "incomplete"},
           recovery: Unresolved \cup {"none", "confirmed", "not_recoverable"},
           results: BOOLEAN, res: Resource \cup {None}]

OwnerRec == [state: {"absent", "active", "released", "orphaned", "recovered", "deleted"},
             kind: {"none", "tune", "recovery", "pid"},
             run: Run \cup {None}, res: Resource \cup {None},
             age: 0..StaleAfter, intent: BOOLEAN, eligible: BOOLEAN,
             base: Owner \cup {None},
             step: {"none", "intent", "finished"},
             source: Owner \cup {None},
             attempt: {"none", "running", "confirmed", "incomplete", "failed"}]

TypeOK ==
    /\ proc \in [Proc -> ProcRec]
    /\ lock \in Proc \cup {None}
    /\ runs \in [Run -> RunRec]
    /\ owners \in [Owner -> OwnerRec]
    /\ claims \in [Resource -> Owner \cup {None}]
    /\ loop \in [Resource -> Owner \cup {None}]
    /\ exported \subseteq Owner

NoOperation == [pc |-> "idle", kind |-> "none", run |-> None, res |-> None,
                own |-> None, goal |-> "none", ok |-> FALSE,
                restored |-> FALSE, healthy |-> TRUE, todo |-> {}]
ProcDown    == [NoOperation EXCEPT !.pc = "down"]
NoRunRow    == [outcome |-> "absent", restore |-> "none", recovery |-> "none",
                results |-> FALSE, res |-> None]
NoOwnerRow  == [state |-> "absent", kind |-> "none", run |-> None, res |-> None,
                age |-> 0, intent |-> FALSE, eligible |-> FALSE, base |-> None,
                step |-> "none", source |-> None, attempt |-> "none"]

Init ==
    /\ proc = [p \in Proc |-> ProcDown]
    /\ lock = None
    /\ runs = [r \in Run |-> NoRunRow]
    /\ owners = [o \in Owner |-> NoOwnerRow]
    /\ claims = [res \in Resource |-> None]
    /\ loop = [res \in Resource |-> None]
    /\ exported = {}

-----------------------------------------------------------------------------
(* Reading the rows *)

\* The condition every conditional UPDATE of an active owner carries: the row
\* is active and a claim row names it.
HoldsClaim(o) ==
    /\ owners[o].state = "active"
    /\ owners[o].res # None
    /\ claims[owners[o].res] = o

Stale(o) == HoldsClaim(o) /\ owners[o].age = StaleAfter

\* An owner row that an explicit recovery can take over.
EligibleSource(o, r) ==
    /\ owners[o].kind = "tune"
    /\ owners[o].run = r
    /\ owners[o].state = "orphaned"
    /\ owners[o].eligible

\* Mutant of RecoveryEligible: an unfinished step is not counted.
RecoveryEligibleIfFinished(o) == owners[o].intent /\ owners[o].step = "finished"

\* recovery_eligibility: a ready_to_restore intent and at least one recorded
\* controller write. The other evidence it requires (connection, readings,
\* timing) is recorded by the same process before that intent.
RecoveryEligible(o) == owners[o].intent /\ owners[o].step # "none"

Recoverable(r) ==
    /\ runs[r].outcome = "failed"
    /\ runs[r].recovery \in {"eligible", "incomplete"}

Go(p, rec) == proc' = [proc EXCEPT ![p] = rec]
Unlock(p) == lock' = IF lock = p THEN None ELSE lock

-----------------------------------------------------------------------------
(* Process start and the startup sweep (db.rs open, recover_startup_orphans) *)

\* db::open found the lock held elsewhere and skipped the sweep.
StartupSkips(p) ==
    /\ proc[p].pc = "down"
    /\ lock # None
    /\ Go(p, NoOperation)
    /\ UNCHANGED <<lock, runs, owners, claims, loop, exported>>

\* Mutant of StartupSweeps: a stale heartbeat is taken as proof of death.
StartupSweepsIgnoringLock(p) ==
    /\ proc[p].pc = "down"
    /\ lock' = p
    /\ Go(p, [NoOperation EXCEPT !.pc = "sweeping",
                                 !.todo = {o \in Owner : Stale(o)}])
    /\ UNCHANGED <<runs, owners, claims, loop, exported>>

\* db::open took the lock and listed the stale active owners, once.
StartupSweeps(p) ==
    /\ proc[p].pc = "down"
    /\ lock = None
    /\ lock' = p
    /\ Go(p, [NoOperation EXCEPT !.pc = "sweeping",
                                 !.todo = {o \in Owner : Stale(o)}])
    /\ UNCHANGED <<runs, owners, claims, loop, exported>>

\* Mutant of SweepExport: the rows change without an export.
SweepSkipsExport(p, o) ==
    /\ proc[p].pc = "sweeping"
    /\ o \in proc[p].todo
    /\ HoldsClaim(o)
    /\ exported' = exported
    /\ Go(p, [proc[p] EXCEPT !.pc = "exported", !.own = o, !.todo = @ \ {o}])
    /\ UNCHANGED <<lock, runs, owners, claims, loop>>

\* Evidence of the next candidate is exported before any row changes.
SweepExport(p, o) ==
    /\ proc[p].pc = "sweeping"
    /\ o \in proc[p].todo
    /\ HoldsClaim(o)
    /\ exported' = exported \cup {o}
    /\ Go(p, [proc[p] EXCEPT !.pc = "exported", !.own = o, !.todo = @ \ {o}])
    /\ UNCHANGED <<lock, runs, owners, claims, loop>>

\* mark_orphaned, one transaction: conditional on the stale owner and on the
\* run row that is still running; the claim stays only for a recovery.
MarkOrphaned(o, eligible) ==
    LET r == owners[o].run
    IN  /\ Stale(o)
        /\ owners[o].kind = "tune"
        /\ runs[r].outcome = "running"
        /\ owners' = [owners EXCEPT ![o].state = "orphaned", ![o].eligible = eligible]
        /\ runs' = [runs EXCEPT ![r].outcome = "failed", ![r].restore = "incomplete",
                                ![r].recovery = IF eligible THEN "eligible"
                                                ELSE "not_recoverable"]
        /\ claims' = IF eligible THEN claims
                     ELSE [claims EXCEPT ![owners[o].res] = None]

\* mark_stale_tune_orphan: a tune whose run row is still running.
SweepOrphan(p) ==
    /\ proc[p].pc = "exported"
    /\ MarkOrphaned(proc[p].own, RecoveryEligible(proc[p].own))
    /\ Go(p, [proc[p] EXCEPT !.pc = "sweeping", !.own = None])
    /\ UNCHANGED <<lock, loop, exported>>

\* mark_orphaned_unrecoverable, one transaction: nothing can be recovered
\* automatically, the claim goes.  A run that is still running is failed on the
\* way, which never applies: its owner is a tune's, and MarkOrphaned's.
MarkOrphanedUnrecoverable(o) ==
    /\ Stale(o)
    /\ owners' = [owners EXCEPT ![o].state = "orphaned", ![o].eligible = FALSE]
    /\ claims' = [claims EXCEPT ![owners[o].res] = None]

\* Mutant of SweepRetire: PID and raw writes are never retired.
SweepRetireTunesOnly(p) ==
    LET o == proc[p].own
    IN  /\ proc[p].pc = "exported"
        /\ owners[o].kind = "tune"
        /\ runs[owners[o].run].outcome # "running"
        /\ MarkOrphanedUnrecoverable(o)
        /\ Go(p, [proc[p] EXCEPT !.pc = "sweeping", !.own = None])
        /\ UNCHANGED <<lock, runs, loop, exported>>

\* retire_stale_unrecoverable_owner: a tune whose run is already terminal, or a
\* PID or raw OPC write.
SweepRetire(p) ==
    LET o == proc[p].own
    IN  /\ proc[p].pc = "exported"
        /\ owners[o].kind # "recovery"
        /\ ~ (owners[o].kind = "tune" /\ runs[owners[o].run].outcome = "running")
        /\ MarkOrphanedUnrecoverable(o)
        /\ Go(p, [proc[p] EXCEPT !.pc = "sweeping", !.own = None])
        /\ UNCHANGED <<lock, runs, loop, exported>>

\* What abandon_interrupted_recovery requires of a stale recovery owner before
\* it gives the claim back; anything else stops the startup.
AbandonAccepts(o) ==
    /\ owners[o].run # None
    /\ runs[owners[o].run].outcome = "failed"
    /\ runs[owners[o].run].recovery = "running"
    /\ owners[o].attempt = "running"
    /\ owners[o].source # None
    /\ {s \in Owner : EligibleSource(s, owners[o].run)} = {owners[o].source}
    /\ owners[owners[o].source].res = owners[o].res

\* Mutant of AbandonAfterRestart: the claim is rebound to the run id.
AbandonByRunId(o) ==
    /\ Stale(o)
    /\ owners' = [owners EXCEPT ![o].state = "released", ![o].attempt = "incomplete"]
    /\ runs' = [runs EXCEPT ![owners[o].run].restore = "incomplete",
                            ![owners[o].run].recovery = "incomplete"]
    /\ claims' = [claims EXCEPT ![owners[o].res] = owners[o].run]

\* Mutant of AbandonAfterRestart: the claim is not given back.
AbandonFreesClaim(o) ==
    /\ Stale(o)
    /\ owners' = [owners EXCEPT ![o].state = "released", ![o].attempt = "incomplete"]
    /\ runs' = [runs EXCEPT ![owners[o].run].restore = "incomplete",
                            ![owners[o].run].recovery = "incomplete"]
    /\ claims' = [claims EXCEPT ![owners[o].res] = None]

\* abandon_after_restart, one transaction: the attempt is incomplete and the
\* claim returns to the eligible source owner.
AbandonAfterRestart(o) ==
    /\ Stale(o)
    /\ owners' = [owners EXCEPT ![o].state = "released", ![o].attempt = "incomplete"]
    /\ runs' = [runs EXCEPT ![owners[o].run].restore = "incomplete",
                            ![owners[o].run].recovery = "incomplete"]
    /\ claims' = [claims EXCEPT ![owners[o].res] = owners[o].source]

\* abandon_interrupted_recovery: a recovery whose process died.
SweepAbandon(p) ==
    LET o == proc[p].own
    IN  /\ proc[p].pc = "exported"
        /\ owners[o].kind = "recovery"
        /\ AbandonAccepts(o)
        /\ AbandonAfterRestart(o)
        /\ Go(p, [proc[p] EXCEPT !.pc = "sweeping", !.own = None])
        /\ UNCHANGED <<lock, loop, exported>>

\* An export or database error, a changed row or refused evidence ends the
\* startup; the file lock goes with the process.
SweepStops(p) ==
    /\ proc[p].pc \in {"sweeping", "exported"}
    /\ Go(p, ProcDown)
    /\ lock' = None
    /\ UNCHANGED <<runs, owners, claims, loop, exported>>

SweepDone(p) ==
    /\ proc[p].pc = "sweeping"
    /\ proc[p].todo = {}
    /\ Go(p, NoOperation)
    /\ lock' = None
    /\ UNCHANGED <<runs, owners, claims, loop, exported>>

-----------------------------------------------------------------------------
(* A live tune: prepare_internal, drive_report *)

\* The run row is inserted before any ownership exists.
StartRun(p, r, res) ==
    /\ proc[p].pc = "idle"
    /\ runs[r].outcome = "absent"
    /\ runs' = [runs EXCEPT ![r].outcome = "running", ![r].res = res]
    /\ Go(p, [NoOperation EXCEPT !.pc = "prepared", !.kind = "tune",
                                 !.run = r, !.res = res])
    /\ UNCHANGED <<lock, owners, claims, loop, exported>>

\* finalize_preparation_failure after a metadata error, a busy lock or a claim
\* conflict: mark the run failed, else delete it, else leave it.
PrepareFails(p) ==
    /\ proc[p].kind = "tune"
    /\ proc[p].pc \in {"prepared", "locked"}
    /\ \E outcome \in {"failed", "deleted", "running"} :
         runs' = [runs EXCEPT ![proc[p].run].outcome =
                    IF @ = "deleted" THEN @ ELSE outcome]
    /\ Go(p, NoOperation)
    /\ Unlock(p)
    /\ UNCHANGED <<owners, claims, loop, exported>>

\* DatabaseFileGuard::try_acquire succeeds for a prepared tune.
LockForTune(p) ==
    /\ proc[p].pc = "prepared"
    /\ lock = None
    /\ lock' = p
    /\ Go(p, [proc[p] EXCEPT !.pc = "locked"])
    /\ UNCHANGED <<runs, owners, claims, loop, exported>>

\* ... and for a PID write or revert of a run with results, or for a raw OPC
\* write (no run).
LockForWrite(p, r, res) ==
    /\ proc[p].pc = "idle"
    /\ lock = None
    /\ r # None => runs[r].results /\ runs[r].res = res
    /\ lock' = p
    /\ Go(p, [NoOperation EXCEPT !.pc = "locked", !.kind = "pid",
                                 !.run = r, !.res = res])
    /\ UNCHANGED <<runs, owners, claims, loop, exported>>

\* Mutant of CreateAndClaim: a claim conflict is overwritten.
CreateAndClaimAnyway(p, o) ==
    LET new == [NoOwnerRow EXCEPT !.state = "active", !.kind = proc[p].kind,
                                  !.run = proc[p].run, !.res = proc[p].res]
    IN  /\ proc[p].pc = "locked"
        /\ owners[o].state = "absent"
        /\ proc[p].run # None => runs[proc[p].run].outcome # "deleted"
        /\ owners' = [owners EXCEPT ![o] = new]
        /\ claims' = [claims EXCEPT ![proc[p].res] = o]
        /\ Go(p, [proc[p] EXCEPT !.own = o,
                                 !.pc = IF proc[p].kind = "tune" THEN "owned"
                                        ELSE "active"])
        /\ UNCHANGED <<lock, runs, loop, exported>>

\* create_and_claim inserts the owner and claims its resource, or neither.
CreateAndClaim(p, o) ==
    LET new == [NoOwnerRow EXCEPT !.state = "active", !.kind = proc[p].kind,
                                  !.run = proc[p].run, !.res = proc[p].res]
    IN  /\ proc[p].pc = "locked"
        /\ owners[o].state = "absent"
        /\ claims[proc[p].res] = None
        /\ proc[p].run # None => runs[proc[p].run].outcome # "deleted"
        /\ owners' = [owners EXCEPT ![o] = new]
        /\ claims' = [claims EXCEPT ![proc[p].res] = o]
        /\ Go(p, [proc[p] EXCEPT !.own = o,
                                 !.pc = IF proc[p].kind = "tune" THEN "owned"
                                        ELSE "active"])
        /\ UNCHANGED <<lock, runs, loop, exported>>

\* Mutant of WriteRefused: the lock file is left locked.
WriteRefusedKeepsLock(p) ==
    /\ proc[p].pc = "locked"
    /\ proc[p].kind = "pid"
    /\ Go(p, NoOperation)
    /\ UNCHANGED <<lock, runs, owners, claims, loop, exported>>

\* A PID or raw write that cannot claim its resource gives the lock back.
WriteRefused(p) ==
    /\ proc[p].pc = "locked"
    /\ proc[p].kind = "pid"
    /\ Go(p, NoOperation)
    /\ lock' = None
    /\ UNCHANGED <<runs, owners, claims, loop, exported>>

\* The initial readings are recorded and the restore intent becomes
\* ready_to_restore; only then may the tune touch the controller.
PersistIntent(p) ==
    /\ proc[p].pc = "owned"
    /\ proc[p].healthy
    /\ HoldsClaim(proc[p].own)
    /\ owners' = [owners EXCEPT ![proc[p].own].intent = TRUE,
                                ![proc[p].own].base = loop[proc[p].res]]
    /\ Go(p, [proc[p] EXCEPT !.pc = "active"])
    /\ UNCHANGED <<lock, runs, claims, loop, exported>>

\* Connecting, reading or persisting failed before any controller write.
SetupFails(p) ==
    /\ proc[p].pc = "owned"
    /\ Go(p, [proc[p] EXCEPT !.pc = "finishing", !.restored = TRUE])
    /\ UNCHANGED <<lock, runs, owners, claims, loop, exported>>

\* The relay test completed and its results were stored, before any restore.
PersistResults(p) ==
    LET r == proc[p].run
    IN  /\ proc[p].pc = "active"
        /\ proc[p].kind = "tune"
        /\ owners[proc[p].own].step # "none"
        /\ runs[r].outcome # "deleted"
        /\ ~ runs[r].results
        /\ runs' = [runs EXCEPT ![r].results = TRUE]
        /\ UNCHANGED <<proc, lock, owners, claims, loop, exported>>

-----------------------------------------------------------------------------
(* Audited controller writes (AuditedDriver::write) *)

\* The goals a process may pursue with its next write: a tune perturbs and then
\* restores; it writes PID constants once completed with a confirmed restore.
Goals(p) ==
    CASE proc[p].pc = "active" /\ proc[p].kind = "tune" ->
            IF runs[proc[p].run].results THEN {"restore"} ELSE {"perturb", "restore"}
      [] proc[p].pc = "active" /\ proc[p].kind = "recovery" -> {"restore"}
      [] proc[p].pc = "active" /\ proc[p].kind = "pid" -> {"pid"}
      [] /\ proc[p].pc = "releasing"
         /\ proc[p].restored
         /\ runs[proc[p].run].outcome = "completed" -> {"pid"}
      [] OTHER -> {}

\* Mutant of BeginWrite: no intent row before the driver call.
BeginWriteUnaudited(p, goal) ==
    /\ goal \in Goals(p)
    /\ proc[p].healthy
    /\ HoldsClaim(proc[p].own)
    /\ Go(p, [proc[p] EXCEPT !.pc = "writing", !.goal = goal])
    /\ UNCHANGED <<lock, runs, owners, claims, loop, exported>>

\* ensure_healthy, then the intent step row is inserted for an active owner
\* with a claim, and the driver call is issued.
BeginWrite(p, goal) ==
    /\ goal \in Goals(p)
    /\ proc[p].healthy
    /\ HoldsClaim(proc[p].own)
    /\ owners' = [owners EXCEPT ![proc[p].own].step = "intent"]
    /\ Go(p, [proc[p] EXCEPT !.pc = "writing", !.goal = goal])
    /\ UNCHANGED <<lock, runs, claims, loop, exported>>

\* What the loop carries once a write of process p has been applied.
Applied(p) ==
    CASE proc[p].goal = "perturb" -> [loop EXCEPT ![proc[p].res] = proc[p].own]
      [] proc[p].goal = "restore" ->
            [loop EXCEPT ![proc[p].res] = owners[proc[p].own].base]
      [] OTHER -> loop

\* The driver call returns. A confirmed write was applied; a call that failed
\* or timed out may have been applied as well.
DriverReturns(p) ==
    /\ proc[p].pc = "writing"
    /\ \E ok \in BOOLEAN :
         /\ Go(p, [proc[p] EXCEPT !.pc = "written", !.ok = ok])
         /\ loop' \in IF ok THEN {Applied(p)} ELSE {loop, Applied(p)}
    /\ UNCHANGED <<lock, runs, owners, claims, exported>>

AfterWrite(p) ==
    CASE proc[p].goal = "restore" /\ proc[p].kind = "tune" -> "finishing"
      [] proc[p].goal = "restore" /\ proc[p].kind = "recovery" -> "completing"
      [] proc[p].goal = "pid" /\ proc[p].kind = "tune" -> "releasing"
      [] OTHER -> "active"

\* Mutant of FinishStep: a failed restore write counts as restored.
FinishStepIgnoringResult(p) ==
    /\ proc[p].pc = "written"
    /\ \E audited \in BOOLEAN :
         /\ audited => owners[proc[p].own].step = "intent"
         /\ owners' = IF audited
                      THEN [owners EXCEPT ![proc[p].own].step = "finished"]
                      ELSE owners
         /\ Go(p, [proc[p] EXCEPT !.pc = AfterWrite(p), !.goal = "none", !.ok = FALSE,
                    !.restored = IF proc[p].goal = "restore" THEN audited
                                 ELSE @])
    /\ UNCHANGED <<lock, runs, claims, loop, exported>>

\* The step row is finished with the call's result; when that update fails the
\* row keeps its intent and the write is reported as an error.
FinishStep(p) ==
    /\ proc[p].pc = "written"
    /\ \E audited \in BOOLEAN :
         /\ audited => owners[proc[p].own].step = "intent"
         /\ owners' = IF audited
                      THEN [owners EXCEPT ![proc[p].own].step = "finished"]
                      ELSE owners
         /\ Go(p, [proc[p] EXCEPT !.pc = AfterWrite(p), !.goal = "none", !.ok = FALSE,
                    !.restored = IF proc[p].goal = "restore" THEN audited /\ proc[p].ok
                                 ELSE @])
    /\ UNCHANGED <<lock, runs, claims, loop, exported>>

\* A tune or a recovery stops without a restore write: refused by
\* ensure_healthy or by lost ownership, or given up on a second Ctrl+C.  The
\* MV write of a restore is unconditional, so nothing is restored here.
StopWithoutRestore(p) ==
    /\ proc[p].pc = "active"
    /\ proc[p].kind \in {"tune", "recovery"}
    /\ Go(p, [proc[p] EXCEPT
                !.pc = IF proc[p].kind = "tune" THEN "finishing" ELSE "completing",
                !.restored = FALSE])
    /\ UNCHANGED <<lock, runs, owners, claims, loop, exported>>

-----------------------------------------------------------------------------
(* Finishing a tune and releasing ownership *)

\* The restore status is recorded (best effort), then the terminal outcome.
FinishTune(p) ==
    LET r == proc[p].run
        touched == owners[proc[p].own].intent
        status == IF proc[p].restored THEN "confirmed" ELSE "incomplete"
    IN  /\ proc[p].pc = "finishing"
        /\ runs[r].outcome # "deleted"
        /\ \E outcome \in {"failed"}
                 \cup (IF ~ touched THEN {} ELSE {IF runs[r].results THEN "completed"
                                                  ELSE "aborted"}),
              restore \in IF touched THEN {status, runs[r].restore} ELSE {runs[r].restore} :
             runs' = [runs EXCEPT ![r].outcome = outcome, ![r].restore = restore]
        /\ Go(p, [proc[p] EXCEPT !.pc = "releasing"])
        /\ UNCHANGED <<lock, owners, claims, loop, exported>>

\* The terminal outcome cannot be stored: ownership is retained for the next
\* startup and only the OS lock goes.
FinishTuneLost(p) ==
    /\ proc[p].pc = "finishing"
    /\ Go(p, NoOperation)
    /\ lock' = None
    /\ UNCHANGED <<runs, owners, claims, loop, exported>>

\* An error of the in-run PID write-back reaches drive_report, which marks the
\* already completed run failed.
WriteBackErrors(p) ==
    /\ proc[p].pc = "releasing"
    /\ proc[p].restored
    /\ runs[proc[p].run].outcome = "completed"
    /\ runs' = [runs EXCEPT ![proc[p].run].outcome = "failed"]
    /\ UNCHANGED <<proc, lock, owners, claims, loop, exported>>

CanRelease(p) ==
    \/ proc[p].pc = "releasing"
    \/ proc[p].pc = "active" /\ proc[p].kind = "pid"

\* LiveOperationGuard::release: the owner and its claim are retired together,
\* before the OS lock goes.
Release(p) ==
    LET o == proc[p].own
    IN  /\ CanRelease(p)
        /\ proc[p].healthy
        /\ HoldsClaim(o)
        /\ owners' = [owners EXCEPT ![o].state = "released"]
        /\ claims' = [claims EXCEPT ![owners[o].res] = None]
        /\ Go(p, NoOperation)
        /\ lock' = None
        /\ UNCHANGED <<runs, loop, exported>>

\* The release fails: heartbeat failure, lost ownership or a database error.
\* The guard is dropped, the rows stay.
ReleaseLost(p) ==
    /\ CanRelease(p)
    /\ Go(p, NoOperation)
    /\ lock' = None
    /\ UNCHANGED <<runs, owners, claims, loop, exported>>

-----------------------------------------------------------------------------
(* bhtune restore-loop (restore_loop) *)

RecoveryLock(p, r) ==
    /\ proc[p].pc = "idle"
    /\ Recoverable(r)
    /\ lock = None
    /\ lock' = p
    /\ Go(p, [NoOperation EXCEPT !.pc = "rlocked", !.kind = "recovery",
                                 !.run = r, !.res = runs[r].res])
    /\ UNCHANGED <<runs, owners, claims, loop, exported>>

\* The run is no longer eligible, its evidence is inconsistent, or the export
\* or a database call failed: nothing was changed.
RecoveryRefused(p) ==
    /\ proc[p].pc = "rlocked"
    /\ Go(p, NoOperation)
    /\ lock' = None
    /\ UNCHANGED <<runs, owners, claims, loop, exported>>

\* Mutant of StartWithClaim: the run is not marked as recovering.
StartWithClaimSilent(r, src, o) ==
    LET new == [NoOwnerRow EXCEPT
                  !.state = "active", !.kind = "recovery", !.run = r,
                  !.res = owners[src].res, !.intent = owners[src].intent,
                  !.base = owners[src].base, !.source = src, !.attempt = "running"]
    IN  /\ Recoverable(r)
        /\ EligibleSource(src, r)
        /\ claims[owners[src].res] = src
        /\ owners[o].state = "absent"
        /\ owners' = [owners EXCEPT ![o] = new]
        /\ claims' = [claims EXCEPT ![owners[src].res] = o]
        /\ runs' = runs

\* start_with_claim, one transaction: a new recovery owner o takes the claim
\* from the eligible source owner and the attempt is running.
StartWithClaim(r, src, o) ==
    LET new == [NoOwnerRow EXCEPT
                  !.state = "active", !.kind = "recovery", !.run = r,
                  !.res = owners[src].res, !.intent = owners[src].intent,
                  !.base = owners[src].base, !.source = src, !.attempt = "running"]
    IN  /\ Recoverable(r)
        /\ EligibleSource(src, r)
        /\ claims[owners[src].res] = src
        /\ owners[o].state = "absent"
        /\ owners' = [owners EXCEPT ![o] = new]
        /\ claims' = [claims EXCEPT ![owners[src].res] = o]
        /\ runs' = [runs EXCEPT ![r].recovery = "running"]

\* The single source owner passes every check, its evidence is exported, then
\* the claim is handed over.
RecoveryStart(p, src, o) ==
    LET r == proc[p].run
    IN  /\ proc[p].pc = "rlocked"
        /\ {s \in Owner : EligibleSource(s, r)} = {src}
        /\ RecoveryEligible(src)
        /\ owners[src].res = proc[p].res
        /\ exported' = exported \cup {src}
        /\ StartWithClaim(r, src, o)
        /\ Go(p, [proc[p] EXCEPT !.pc = "active", !.own = o])
        /\ UNCHANGED <<lock, loop>>

\* complete_with_ownership, as far as the rows go.
CompleteAttempt(p, status) ==
    LET o == proc[p].own
        src == owners[o].source
        r == proc[p].run
        attempt == [owners[o] EXCEPT !.state = "released", !.attempt = status]
        source == [owners[src] EXCEPT
                     !.state = IF status = "confirmed" THEN "recovered" ELSE @,
                     !.eligible = status # "confirmed"]
    IN  /\ owners[o].attempt = "running"
        /\ runs[r].outcome = "failed"
        /\ EligibleSource(src, r)
        /\ HoldsClaim(o)
        /\ owners' = [owners EXCEPT ![o] = attempt, ![src] = source]
        /\ runs' = [runs EXCEPT
                      ![r].recovery = IF status = "failed" THEN "eligible" ELSE status,
                      ![r].restore = IF status = "failed" THEN @ ELSE status]
        /\ claims' = [claims EXCEPT ![owners[o].res] =
                        IF status = "confirmed" THEN None ELSE src]
        /\ Go(p, NoOperation)
        /\ lock' = None
        /\ UNCHANGED <<loop, exported>>

\* Setup failed before any restore write: the loop stays eligible.
RecoverySetupFails(p) ==
    /\ proc[p].pc = "active"
    /\ proc[p].kind = "recovery"
    /\ owners[proc[p].own].step = "none"
    /\ CompleteAttempt(p, "failed")

\* Mutant of RecoveryComplete: the restore's own result is ignored.
RecoveryCompleteOptimistic(p) ==
    /\ proc[p].pc = "completing"
    /\ CompleteAttempt(p, IF proc[p].healthy THEN "confirmed"
                          ELSE "incomplete")

\* The restore ended. Confirmed needs the confirmed restore and a heartbeat
\* that never failed.
RecoveryComplete(p) ==
    /\ proc[p].pc = "completing"
    /\ CompleteAttempt(p, IF proc[p].restored /\ proc[p].healthy THEN "confirmed"
                          ELSE "incomplete")

\* The final audit cannot be stored: the recovery owner keeps its claim.
RecoveryLost(p) ==
    /\ proc[p].kind = "recovery"
    /\ proc[p].pc \in {"active", "completing"}
    /\ Go(p, NoOperation)
    /\ lock' = None
    /\ UNCHANGED <<runs, owners, claims, loop, exported>>

-----------------------------------------------------------------------------
(* Heartbeats, time, crashes, deletion *)

Heartbeat(p) ==
    /\ proc[p].pc \in Guarded
    /\ proc[p].healthy
    /\ HoldsClaim(proc[p].own)
    /\ owners[proc[p].own].age # 0
    /\ owners' = [owners EXCEPT ![proc[p].own].age = 0]
    /\ UNCHANGED <<proc, lock, runs, claims, loop, exported>>

\* A heartbeat update fails (database error, or ownership lost): the task ends
\* and every later mutation is refused.
HeartbeatFails(p) ==
    /\ proc[p].pc \in Guarded
    /\ proc[p].healthy
    /\ Go(p, [proc[p] EXCEPT !.healthy = FALSE])
    /\ UNCHANGED <<lock, runs, owners, claims, loop, exported>>

\* Time passes for every owner row; a paused process just takes no step.
Tick ==
    /\ \E o \in Owner : owners[o].state = "active" /\ owners[o].age < StaleAfter
    /\ owners' = [o \in Owner |->
                    IF owners[o].state = "active" /\ owners[o].age < StaleAfter
                    THEN [owners[o] EXCEPT !.age = @ + 1] ELSE owners[o]]
    /\ UNCHANGED <<proc, lock, runs, claims, loop, exported>>

\* The process is killed; the OS drops its lock. A driver call in flight may
\* still have reached the controller.
Crash(p) ==
    /\ proc[p].pc # "down"
    /\ loop' \in IF proc[p].pc = "writing" THEN {loop, Applied(p)} ELSE {loop}
    /\ Go(p, ProcDown)
    /\ Unlock(p)
    /\ UNCHANGED <<runs, owners, claims, exported>>

ExitProcess(p) ==
    /\ proc[p].pc = "idle"
    /\ Go(p, ProcDown)
    /\ UNCHANGED <<lock, runs, owners, claims, loop, exported>>

\* Mutant of DeleteRuns: the claim goes with the run's loop, not with its owners.
DeleteRunsByLoop(S) ==
    LET gone == {o \in Owner : owners[o].run \in S /\ owners[o].state # "absent"}
    IN  /\ runs' = [r \in Run |-> IF r \in S
                                  THEN [NoRunRow EXCEPT !.outcome = "deleted"]
                                  ELSE runs[r]]
        /\ owners' = [o \in Owner |-> IF o \in gone
                                      THEN [NoOwnerRow EXCEPT !.state = "deleted"]
                                      ELSE owners[o]]
        /\ claims' = [res \in Resource |-> IF \E r \in S : runs[r].res = res THEN None
                                           ELSE claims[res]]
        /\ UNCHANGED <<proc, lock, loop, exported>>

\* DELETE FROM tune_runs with its cascades to owners, steps and claims.
DeleteRuns(S) ==
    LET gone == {o \in Owner : owners[o].run \in S /\ owners[o].state # "absent"}
    IN  /\ runs' = [r \in Run |-> IF r \in S
                                  THEN [NoRunRow EXCEPT !.outcome = "deleted"]
                                  ELSE runs[r]]
        /\ owners' = [o \in Owner |-> IF o \in gone
                                      THEN [NoOwnerRow EXCEPT !.state = "deleted"]
                                      ELSE owners[o]]
        /\ claims' = [res \in Resource |-> IF claims[res] \in gone THEN None
                                           ELSE claims[res]]
        /\ UNCHANGED <<proc, lock, loop, exported>>

Deletable(r) ==
    /\ runs[r].outcome \notin {"absent", "deleted"}
    /\ runs[r].recovery \notin Unresolved

\* DELETE /api/runs/{id}: refused while the run is running or its recovery is
\* unresolved.
HttpDelete(r) ==
    /\ "http" \in Deletions
    /\ runs[r].outcome \in Terminal
    /\ Deletable(r)
    /\ DeleteRuns({r})

\* sweep_retention: every deletable run past the cutoff, whatever its outcome.
RetentionSweep(S) ==
    /\ "retention" \in Deletions
    /\ S # {}
    /\ \A r \in S : Deletable(r)
    /\ DeleteRuns(S)

-----------------------------------------------------------------------------

Sweep(p) ==
    \/ StartupSweeps(p) \/ SweepOrphan(p) \/ SweepRetire(p) \/ SweepAbandon(p)
    \/ SweepDone(p) \/ \E o \in Owner : SweepExport(p, o)

Tune(p) ==
    \/ \E r \in Run, res \in Resource : StartRun(p, r, res)
    \/ PrepareFails(p) \/ LockForTune(p)
    \/ \E r \in Run \cup {None}, res \in Resource : LockForWrite(p, r, res)
    \/ \E o \in Owner : CreateAndClaim(p, o)
    \/ WriteRefused(p) \/ PersistIntent(p) \/ SetupFails(p) \/ PersistResults(p)

Write(p) ==
    \/ \E goal \in {"perturb", "restore", "pid"} : BeginWrite(p, goal)
    \/ DriverReturns(p) \/ FinishStep(p) \/ StopWithoutRestore(p)

Finish(p) ==
    \/ FinishTune(p) \/ FinishTuneLost(p) \/ WriteBackErrors(p)
    \/ Release(p) \/ ReleaseLost(p)

Recover(p) ==
    \/ \E r \in Run : RecoveryLock(p, r)
    \/ RecoveryRefused(p)
    \/ \E src, o \in Owner : RecoveryStart(p, src, o)
    \/ RecoverySetupFails(p) \/ RecoveryComplete(p) \/ RecoveryLost(p)

Environment(p) ==
    \/ StartupSkips(p) \/ SweepStops(p) \/ Heartbeat(p) \/ HeartbeatFails(p)
    \/ Crash(p) \/ ExitProcess(p)

Delete ==
    \/ \E r \in Run : HttpDelete(r)
    \/ \E S \in SUBSET Run : RetentionSweep(S)

Next ==
    \/ \E p \in Proc : Sweep(p) \/ Tune(p) \/ Write(p) \/ Finish(p)
                       \/ Recover(p) \/ Environment(p)
    \/ Tick
    \/ Delete

Spec == Init /\ [][Next]_vars

\* Time passes; the program is started whenever that keeps being possible, and
\* its sweep does not fail every time.
Fairness ==
    /\ WF_vars(Tick)
    /\ SF_vars(\E p \in Proc : StartupSweeps(p))
    /\ SF_vars(\E p \in Proc, o \in Owner : SweepExport(p, o))
    /\ SF_vars(\E p \in Proc : SweepOrphan(p) \/ SweepRetire(p) \/ SweepAbandon(p))

FairSpec == Spec /\ Fairness

-----------------------------------------------------------------------------
(* Properties *)

\* A process holds the database file's OS lock exactly while it sweeps, holds a
\* live-operation guard or is about to: no path forgets or double-frees the
\* lock (DatabaseFileGuard, LiveOperationGuard, StartupOrphanSweep).
LockDiscipline == \A p \in Proc : proc[p].pc \in Locking <=> lock = p

\* At most one process at a time has a controller write between its intent and
\* its audit, across every process sharing the database.
SingleWriter ==
    \A p, q \in Proc :
        /\ proc[p].pc \in {"writing", "written"}
        /\ proc[q].pc \in {"writing", "written"}
        => p = q

\* A live guard is never taken over, however stale its heartbeat: its owner row
\* is active and named by the claim of its resource, unless the run row itself
\* was deleted. (safety-model.md: a paused process that still holds the OS
\* guard blocks takeover.)
NoTakeover ==
    \A p \in Proc :
        proc[p].pc \in Guarded =>
            \/ owners[proc[p].own].state = "deleted"
            \/ HoldsClaim(proc[p].own) /\ owners[proc[p].own].res = proc[p].res

\* An unresolved recovery always has somewhere to go: the run has exactly one
\* eligible source owner, and the claim of its resource is held by that owner,
\* or by the active recovery owner of the attempt that is running.
RecoveryCustody ==
    \A r \in Run :
        runs[r].recovery \in Unresolved =>
            \E s \in Owner :
                /\ {x \in Owner : EligibleSource(x, r)} = {s}
                /\ owners[s].res = runs[r].res
                /\ LET c == claims[runs[r].res]
                   IN  IF runs[r].recovery = "running"
                       THEN c # None /\ owners[c].source = s /\ HoldsClaim(c)
                       ELSE c = s

\* The startup sweep never meets a stale recovery owner that it must refuse
\* (which would stop every later startup of the program).
SweepNeverRefuses ==
    \A o \in Owner : Stale(o) /\ owners[o].kind = "recovery" => AbandonAccepts(o)

\* Whatever crashed and whatever was deleted, an interrupted loop can still be
\* recovered: its source is there and no startup refuses to go on.
RecoveryStaysPossible == RecoveryCustody /\ SweepNeverRefuses

\* A loop that carries a perturbation is accounted for: the claim of its
\* resource is still held for the perturbing owner, or that owner's run is
\* terminal and does not say the restore was confirmed.
PerturbationAccounted ==
    \A res \in Resource :
        loop[res] # None =>
            LET o == loop[res]
                c == claims[res]
            IN  \/ c = o
                \/ c # None /\ owners[c].source = o
                \/ /\ owners[o].state \notin {"absent", "deleted"}
                   /\ runs[owners[o].run].outcome \in Terminal
                   /\ runs[owners[o].run].restore # "confirmed"

\* The audit trail precedes the effect: whoever perturbed a loop has a durable
\* restore intent and a durable step row for it.
EvidencePrecedesPerturbation ==
    \A res \in Resource :
        loop[res] # None => RecoveryEligible(loop[res])

\* A run is declared not recoverable by the startup sweep only if its tune never
\* issued a controller write.
NotRecoverableNeverWrote ==
    \A o \in Owner :
        /\ owners[o].kind = "tune"
        /\ owners[o].run # None
        /\ runs[owners[o].run].recovery = "not_recoverable"
        => owners[o].step = "none" /\ \A res \in Resource : loop[res] # o

\* What a crashed run did to its loop can be told from the database: the loop is
\* accounted for, the record came before the effect, and a run declared not
\* recoverable never wrote.
PerturbationEvidence ==
    PerturbationAccounted /\ EvidencePrecedesPerturbation /\ NotRecoverableNeverWrote

\* Recovery is reported confirmed only when the loop carries again what it
\* carried before the interrupted tune.
ConfirmedMeansRestored ==
    [][\A r \in Run, s \in Owner :
         /\ runs'[r].recovery = "confirmed"
         /\ runs[r].recovery # "confirmed"
         /\ EligibleSource(s, r)
         => loop'[owners[s].res] = owners[s].base]_vars

\* No ownership row is retired by anyone but its own process before its evidence
\* has been exported.
ExportBeforeRetirement ==
    [][\A o \in Owner :
         /\ owners[o].state = "active"
         /\ owners'[o].state \in {"orphaned", "released", "recovered"}
         /\ ~ \E p \in Proc : proc[p].own = o /\ proc[p].pc \in Guarded
         => o \in exported']_vars

\* The two ways an ownership row ends are both earned: recovered by a loop that
\* is as it was, or retired with its evidence on disk.
RetirementIsEarned == ConfirmedMeansRestored /\ ExportBeforeRetirement

\* The owner is active in the database and no process guards it any more.
Abandoned(o) ==
    /\ owners[o].state = "active"
    /\ ~ \E p \in Proc : proc[p].pc \in Guarded /\ proc[p].own = o

\* Again and again some process is not running while nobody holds the lock: the
\* operator can start the program without a live operation being in its way.
QuietMoments == []<>(lock = None /\ \E p \in Proc : proc[p].pc = "down")

\* An owner whose process died, or whose release was lost, does not block its
\* loop for ever: some later startup retires it or offers it for recovery.
AbandonedIsSettled ==
    QuietMoments => \A o \in Owner : Abandoned(o) ~> owners[o].state # "active"

\* Refuted, see the README. docs/architecture/safety-model.md: mutation steps
\* are durable audit records; unresolved recovery records are protected from
\* retention. A loop that carries a perturbation, with no process at work on
\* it, still has the owner row and the steps that tell how, in the database or
\* exported.
EvidenceIsDurable ==
    \A res \in Resource :
        lock = None /\ loop[res] # None =>
            owners[loop[res]].state # "deleted" \/ loop[res] \in exported

\* Refuted, see the README. The API documents a conflict for deleting a run
\* that "is active": no run is deleted under a process that is in the middle
\* of a controller write for it.
DeletionSparesActiveRun ==
    \A p \in Proc : proc[p].pc = "writing" => HoldsClaim(proc[p].own)

-----------------------------------------------------------------------------
(* The abstract specification this module implements. *)

CustodyState(res) ==
    LET c == claims[res]
    IN  IF c = None THEN "free"
        ELSE IF owners[c].state = "orphaned" THEN "orphaned"
        ELSE IF owners[c].kind = "recovery" THEN "recovering"
        ELSE "held"

CustodyAlive(res) ==
    claims[res] # None /\ \E p \in Proc : proc[p].pc \in Guarded /\ proc[p].own = claims[res]

\* What the loop carried when the present custody began: the recorded base once
\* there is an intent; before that nothing can have been written.
CustodyBase(res) ==
    LET c == claims[res]
    IN  IF c # None /\ owners[c].intent THEN owners[c].base ELSE loop[res]

Custody == INSTANCE LoopCustody WITH
             Value <- Owner \cup {None},
             custody <- [res \in Resource |-> CustodyState(res)],
             alive <- [res \in Resource |-> CustodyAlive(res)],
             base <- [res \in Resource |-> CustodyBase(res)]

\* Without history deletion, every step of the ownership protocol is a step of
\* the custody specification or leaves custody alone.
ImplementsCustody == Custody!Spec
=============================================================================
