----------------------------- MODULE WriteBack ------------------------------
(***************************************************************************)
(* Writing PID constants to a controller and taking them back:             *)
(* bhtune-runtime tune/writeback.rs and history.rs, the audit table        *)
(* tune_writes, POST /api/runs/{id}/write and .../revert and               *)
(* `bhtune history revert`.                                                *)
(*                                                                         *)
(* One finished OPC DA run and its loop.  Several operations, in one or    *)
(* several processes, write its constants: the write-back at the end of    *)
(* the run, a later write, a revert.  A constant's value is a token: two   *)
(* values within pid_value_within_tolerance of each other are the same     *)
(* token.  The ownership guard is one variable here; LiveOwnership models  *)
(* how it is taken and given back.                                         *)
(***************************************************************************)
EXTENDS Naturals, Sequences, SequencesExt

CONSTANTS
    Op,      \* operations that may run, each at most once
    Level,   \* response levels
    Results, \* tune_results of the run: what is wrong with the row of each level
    Old,     \* the constants the controller has at first
    Clamped, \* what a controller makes of a value it does not accept as it is
    MaxFaults, \* bound: errors, clamped values and crashes in one behaviour
    None     \* SQL NULL, "no operation"

\* What can be wrong with a tune_results row.
Defect == {"absent", "invalid", "reason", "missing", "non_finite", "unroundable"}

ASSUME WriteBackConstants ==
    /\ MaxFaults \in Nat
    /\ Results \in [Level -> Defect \cup {"good"}]
    /\ None \notin Op \cup Level
    /\ Old # Clamped /\ Old \notin Level /\ Clamped \notin Level

VARIABLES
    plant,    \* the three constants in the controller
    rows,     \* tune_writes, oldest first
    owner,    \* the operation that holds the loop's LiveOperationGuard
    intent,   \* the PID readings in restore_intent_json of each operation's owner row
    op,       \* the operations
    faults    \* what has gone wrong so far

vars == <<plant, rows, owner, intent, op, faults>>

-----------------------------------------------------------------------------
(* Types *)

Const  == 1..3                      \* Proportional, Integral, Derivative
Value  == {Old, Clamped} \cup Level
Triple == [Const -> Value]          \* WriteReadback

Kind == {"write", "revert"}         \* WriteKind

TuneWriteRow ==
    [kind: Kind, level: Level, previous: Triple \cup {None},
     written: 0..3, readback: 0..3, success: BOOLEAN,
     rollback: {"none", "succeeded", "failed"}]

\* NewTuneWrite::new: nothing attempted.
NewTuneWrite(k, l) ==
    [kind |-> k, level |-> l, previous |-> None, written |-> 0, readback |-> 0,
     success |-> FALSE, rollback |-> "none"]

PCs == {"idle", "acquire", "connect", "preread", "persist", "write", "verify",
        "rollback", "audit", "release", "done", "crashed"}

Outcomes == {"none", "skipped", "refused", "conflict", "error", "written", "failed"}

OpRec == [pc: PCs, as: {"tune", "pid_write", "pid_revert"}, target: Triple \cup {None},
          row: TuneWriteRow \cup {None}, listed: Nat, back: 0..3, bad: BOOLEAN,
          outcome: Outcomes]

Fresh == [pc |-> "idle", as |-> "tune", target |-> None, row |-> None, listed |-> 0,
          back |-> 0, bad |-> FALSE, outcome |-> "none"]

TypeOK ==
    /\ plant \in Triple
    /\ rows \in Seq(TuneWriteRow)
    /\ owner \in Op \cup {None}
    /\ intent \in [Op -> {None} \cup [previous: Triple, target: Triple]]
    /\ op \in [Op -> OpRec]
    /\ faults \in 0..MaxFaults

Init ==
    /\ plant = [c \in Const |-> Old]
    /\ rows = <<>>
    /\ owner = None
    /\ intent = [o \in Op |-> None]
    /\ op = [o \in Op |-> Fresh]
    /\ faults = 0

Fault == faults < MaxFaults /\ faults' = faults + 1
Fine  == UNCHANGED faults

-----------------------------------------------------------------------------
(* Choosing what to write *)

\* pid_parameters_for_result: a row marked valid, without a reason, complete
\* and finite.
PidParametersUsable(l) ==
    Results[l] \notin {"absent", "invalid", "reason", "missing", "non_finite"}

\* controller_pid_for_result: and the template's rounding leaves every active
\* term different from zero.
ControllerPidAvailable(l) == PidParametersUsable(l) /\ Results[l] # "unroundable"

Target(l) == [c \in Const |-> l]

Ends(o, result) == op' = [op EXCEPT ![o] = [Fresh EXCEPT !.pc = "done", !.outcome = result]]

Proceeds(o, as, k, l, t, pc, n) ==
    op' = [op EXCEPT ![o] = [Fresh EXCEPT !.pc = pc, !.as = as, !.target = t,
                                          !.row = NewTuneWrite(k, l), !.listed = n]]

\* maybe_write_back_with_owner, up to the write: the tune still owns its loop,
\* and nothing was written for its run yet (the routes refuse a running run, and
\* a revert finds no row).  Without PID tags, without results or without a
\* selected level nothing is written; a selected level needs a usable result.
InRunWriteBack(o) ==
    /\ owner = None /\ \A p \in Op : op[p].pc = "idle"
    /\ \/ Ends(o, "skipped") /\ UNCHANGED owner
       \/ \E l \in Level :
            \/ ~ControllerPidAvailable(l) /\ Ends(o, "failed") /\ UNCHANGED owner
            \/ /\ ControllerPidAvailable(l)
               /\ Proceeds(o, "tune", "write", l, Target(l), "preread", 0)
               /\ owner' = o
    /\ Fine /\ UNCHANGED <<plant, rows, intent>>

\* POST /api/runs/{id}/write: the result is looked up and checked before the
\* registry and the ownership are asked.
WriteRun(o) ==
    /\ op[o].pc = "idle"
    /\ \E l \in Level :
         \/ ~ControllerPidAvailable(l) /\ Ends(o, "refused")
         \/ /\ ControllerPidAvailable(l)
            /\ Proceeds(o, "pid_write", "write", l, Target(l), "acquire", 0)
    /\ Fine /\ UNCHANGED <<plant, rows, owner, intent>>

\* Mutant: the iterator is not reversed.
FirstWrite == SelectInSeq(rows, LAMBDA r : r.kind = "write")

\* The newest row of kind write, of whatever success.
LastWrite == SelectLastInSeq(rows, LAMBDA r : r.kind = "write")

\* resolve_revert_connection: the run's recorded server and gateway, and flags
\* that do not contradict them.
ConnectionResolves(flag) == flag \in {"omitted", "same"}

\* revert_run_with_progress, up to the ownership: the audit trail is read
\* (`listed` rows of it) and the target fixed here, before anything excludes a
\* writer of another process.
RevertRun(o, confirmed, flag) ==
    /\ op[o].pc = "idle"
    /\ LET eligible == /\ LastWrite # 0
                       /\ rows[LastWrite].previous # None
                       /\ confirmed
                       /\ ConnectionResolves(flag)
       IN  \/ ~eligible /\ Ends(o, "refused")
           \/ /\ eligible
              /\ Proceeds(o, "pid_revert", "revert", rows[LastWrite].level,
                          rows[LastWrite].previous, "acquire", Len(rows))
    /\ Fine /\ UNCHANGED <<plant, rows, owner, intent>>

\* POST /api/runs/{id}/revert, and `bhtune history revert` of another process.
RevertRoute(o)   == RevertRun(o, TRUE, "omitted")
HistoryRevert(o) ==
    \E yes \in BOOLEAN, flag \in {"omitted", "same", "other"} : RevertRun(o, yes, flag)

\* LiveOperationGuard::acquire_for_recorded_run with an intent that has no
\* readings yet.
Acquire(o) ==
    /\ op[o].pc = "acquire"
    /\ \/ /\ owner = None
          /\ owner' = o
          /\ op' = [op EXCEPT ![o].pc = "connect"]
       \/ owner # None /\ Ends(o, "conflict") /\ UNCHANGED owner
    /\ Fine /\ UNCHANGED <<plant, rows, intent>>

\* Connecting through the recorded gateway and checking its compatibility.
Connect(o) ==
    /\ op[o].pc = "connect"
    /\ \/ Fine /\ op' = [op EXCEPT ![o].pc = "preread"]
       \/ Fault /\ op' = [op EXCEPT ![o].pc = "release", ![o].outcome = "error"]
    /\ UNCHANGED <<plant, rows, owner, intent>>

-----------------------------------------------------------------------------
(* write_pid_values_inner *)

\* operation_kind_authorizes_pid_write.
Authorizes(k, as) == IF k = "write" THEN as \in {"tune", "pid_write"} ELSE as = "pid_revert"

\* read_previous_pid_values: all three or none.
PreRead(o) ==
    /\ op[o].pc = "preread"
    /\ \/ ~Authorizes(op[o].row.kind, op[o].as) /\ Fine
          /\ op' = [op EXCEPT ![o].pc = "release", ![o].outcome = "error"]
       \/ /\ Authorizes(op[o].row.kind, op[o].as)
          /\ \/ Fine /\ op' = [op EXCEPT ![o].pc = "persist", ![o].row.previous = plant]
             \/ Fault /\ op' = [op EXCEPT ![o].pc = "audit", ![o].outcome = "failed"]
    /\ UNCHANGED <<plant, rows, owner, intent>>

\* Mutant: the intent is saved with the first reading after the write.
PersistIntentLate(o) ==
    /\ op[o].pc = "persist"
    /\ op' = [op EXCEPT ![o].pc = "write"]
    /\ Fine /\ UNCHANGED <<plant, rows, owner, intent>>

\* persist_pid_restore_intent: an error here returns before the first write
\* and leaves no audit row.
PersistIntent(o) ==
    /\ op[o].pc = "persist"
    /\ \/ /\ intent' = [intent EXCEPT ![o] = [previous |-> op[o].row.previous,
                                              target   |-> op[o].target]]
          /\ op' = [op EXCEPT ![o].pc = "write"]
          /\ Fine
       \/ /\ op' = [op EXCEPT ![o].pc = "release", ![o].outcome = "error"]
          /\ Fault /\ UNCHANGED intent
    /\ UNCHANGED <<plant, rows, owner>>

\* The constant the operation is at: the first one not confirmed yet.
Current(o) == op[o].row.readback + 1

\* What a controller may hold after one write of v to constant c: v, or what
\* it makes of it, or what it held.
Takes(c, v) == plant' = [plant EXCEPT ![c] = v]
Accepts(c, v) == (Takes(c, v) /\ Fine) \/ (Takes(c, Clamped) /\ Fault)
Refuses(c, v) == Fault /\ (Takes(c, v) \/ UNCHANGED plant)

\* A write or a check failed.  Confirmed constants of a write are rolled
\* back; a revert, and a write that confirmed nothing, only say so.
StepFails(o) ==
    IF op[o].row.kind = "write" /\ op[o].row.readback > 0
      THEN [op[o] EXCEPT !.pc = "rollback", !.outcome = "failed"]
      ELSE [op[o] EXCEPT !.pc = "audit", !.outcome = "failed"]

\* write_and_verify_pid_value, the write: accepted, or answered with an error
\* with the controller changed or not.
WriteConstant(o) ==
    /\ op[o].pc = "write"
    /\ LET c == Current(o)
           attempted == [op EXCEPT ![o].row.written = c]
       IN  \/ /\ Accepts(c, op[o].target[c])
              /\ op' = [attempted EXCEPT ![o].pc = "verify"]
           \/ /\ Refuses(c, op[o].target[c])
              /\ op' = [attempted EXCEPT ![o] = [StepFails(o) EXCEPT !.row.written = c]]
    /\ UNCHANGED <<rows, owner, intent>>

\* Mutant: the readback is recorded and not compared.
VerifyConstantUnchecked(o) ==
    /\ op[o].pc = "verify"
    /\ LET c == Current(o)
           confirmed == [op[o] EXCEPT !.row.readback = c]
       IN  op' = [op EXCEPT ![o] =
                    IF c = 3 THEN [confirmed EXCEPT !.pc = "audit", !.outcome = "written",
                                                    !.row.success = TRUE]
                             ELSE [confirmed EXCEPT !.pc = "write"]]
    /\ Fine /\ UNCHANGED <<plant, rows, owner, intent>>

\* write_and_verify_pid_value, the readback: unreadable or out of tolerance is
\* a failure.  After the third constant the write has succeeded.
VerifyConstant(o) ==
    /\ op[o].pc = "verify"
    /\ LET c == Current(o)
           confirmed == [op[o] EXCEPT !.row.readback = c]
       IN  \/ /\ plant[c] = op[o].target[c] /\ Fine
              /\ op' = [op EXCEPT ![o] =
                    IF c = 3 THEN [confirmed EXCEPT !.pc = "audit", !.outcome = "written",
                                                    !.row.success = TRUE]
                             ELSE [confirmed EXCEPT !.pc = "write"]]
           \/ /\ (plant[c] # op[o].target[c] /\ Fine) \/ Fault
              /\ op' = [op EXCEPT ![o] = StepFails(o)]
    /\ UNCHANGED <<plant, rows, owner, intent>>

\* rollback_pid_writes: every confirmed constant is written back, whatever
\* became of the others, and nothing is read back.  It is assumed of the
\* controller that it takes a value it held before as it is: a rollback write
\* that is accepted and clamped would go unnoticed.
RollBackConstant(o) ==
    /\ op[o].pc = "rollback"
    /\ LET c == op[o].back + 1
           v == op[o].row.previous[c]
           bad(b) == op[o].bad \/ b
           next(b) == [op EXCEPT ![o].back = c, ![o].bad = bad(b),
                           ![o].pc = IF c = op[o].row.readback THEN "audit" ELSE "rollback",
                           ![o].row.rollback =
                               IF c < op[o].row.readback THEN "none"
                               ELSE IF bad(b) THEN "failed" ELSE "succeeded"]
       IN  \/ Takes(c, v) /\ Fine /\ op' = next(FALSE)
           \/ Refuses(c, v) /\ op' = next(TRUE)
    /\ UNCHANGED <<rows, owner, intent>>

\* TuneWriteRow::insert: the one audit row of the attempt.  Its failure is the
\* only operational error that is returned as one.
InsertRow(o) ==
    /\ op[o].pc = "audit"
    /\ \/ /\ rows' = Append(rows, op[o].row) /\ Fine
          /\ op' = [op EXCEPT ![o].pc = "release"]
       \/ /\ op' = [op EXCEPT ![o].pc = "release", ![o].outcome = "error"]
          /\ Fault /\ UNCHANGED rows
    /\ UNCHANGED <<plant, owner, intent>>

\* LiveOperationGuard::release; when it fails the owner row stays.
Release(o) ==
    /\ op[o].pc = "release"
    /\ \/ /\ Ends(o, op[o].outcome)
          /\ owner' = None
          /\ intent' = [intent EXCEPT ![o] = None]
          /\ Fine
       \/ Ends(o, "error") /\ Fault /\ UNCHANGED <<owner, intent>>
    /\ UNCHANGED <<plant, rows>>

-----------------------------------------------------------------------------
(* Crashes *)

Crash(o) ==
    /\ op[o].pc \notin {"idle", "done", "crashed"}
    /\ op' = [op EXCEPT ![o].pc = "crashed"]
    /\ Fault /\ UNCHANGED <<plant, rows, owner, intent>>

\* The startup sweep retires the owner of an operation nobody runs any more.
Sweep ==
    /\ owner # None
    /\ op[owner].pc \in {"done", "crashed"}
    /\ owner' = None
    /\ Fine /\ UNCHANGED <<plant, rows, intent, op>>

Next ==
    \/ Sweep
    \/ \E o \in Op :
        \/ InRunWriteBack(o) \/ WriteRun(o) \/ RevertRoute(o) \/ HistoryRevert(o)
        \/ Acquire(o) \/ Connect(o) \/ PreRead(o) \/ PersistIntent(o)
        \/ WriteConstant(o) \/ VerifyConstant(o) \/ RollBackConstant(o)
        \/ InsertRow(o) \/ Release(o) \/ Crash(o)

Spec == Init /\ [][Next]_vars

-----------------------------------------------------------------------------
(* Properties *)

\* No constant is changed before the owner row says what to go back to: an
\* operation that has written something, running or crashed, has its previous
\* and target values in its intent, and no other operation has changed the
\* loop since it read them.
IntentPrecedesWrite ==
    \A o \in Op :
        op[o].row # None /\ op[o].row.written > 0 =>
            /\ intent[o] = [previous |-> op[o].row.previous, target |-> op[o].target]
            /\ owner = o => \A c \in Const :
                   c > op[o].row.written => plant[c] = op[o].row.previous[c]

\* Every audit row tells the truth about the controller when it is inserted:
\* success means all three constants hold the target; a rollback that
\* succeeded means every constant confirmed before the failure holds its
\* previous value again; and a constant no write was attempted for holds what
\* the pre-read found.
RowTellsPlant ==
    [][\A o \in Op :
        rows' # rows /\ op[o].pc = "audit" /\ op'[o].pc = "release" =>
            LET r == Last(rows') IN
            /\ r.success => plant = op[o].target /\ r.rollback = "none"
            /\ r.rollback = "succeeded" =>
                   \A c \in 1..r.readback : plant[c] = r.previous[c]
            /\ r.previous # None =>
                   \A c \in (r.written + 1)..3 : plant[c] = r.previous[c]]_vars

\* Operation o inserts the audit row of its revert.
InsertsRevert(o) ==
    /\ rows' # rows /\ op[o].pc = "audit" /\ op'[o].pc = "release"
    /\ op[o].as = "pid_revert"

\* Row i is the most recent write-back of the run.
IsNewestWrite(i) ==
    rows[i].kind = "write" /\ \A j \in DOMAIN rows : rows[j].kind = "write" => j <= i

\* A revert goes back to before the newest write of the run, whether that
\* write succeeded or not: when its audit row is inserted, the row names the
\* level of that write and, if it says success, the controller holds what that
\* write found, whatever reverts, failures and crashes came in between.  The
\* one exception is a write whose row landed after the revert had listed the
\* audit trail, which it did before it owned the loop.
RevertGoesBack ==
    [][\A o \in Op :
        InsertsRevert(o) =>
            \E i \in DOMAIN rows :
                /\ IsNewestWrite(i)
                /\ i <= op[o].listed =>
                      /\ Last(rows').level = rows[i].level
                      /\ Last(rows').success => plant = rows[i].previous]_vars

\* Refuted, see the README.  Stated of POST /api/runs/{id}/revert: the most
\* recent write-back is reverted, to the values it recorded.
RevertsMostRecentWrite ==
    [][\A o \in Op, i \in DOMAIN rows :
        InsertsRevert(o) /\ IsNewestWrite(i) /\ Last(rows').success =>
            plant = rows[i].previous]_vars

\* Refuted, see the README. Stated by RollbackState::Succeeded: every constant
\* that had been written was written back to its previous value.
RolledBackMeansPrevious ==
    [][\A o \in Op :
        rows' # rows /\ op[o].pc = "audit" /\ op'[o].pc = "release" =>
            LET r == Last(rows') IN
            r.rollback = "succeeded" => \A c \in 1..r.written : plant[c] = r.previous[c]]_vars
=============================================================================
