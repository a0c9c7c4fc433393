# bhtune in TLA+

This directory is the TLA+ development kept beside bhtune, a program that tunes
PID controllers: it takes a live control loop out of automatic control, drives
its manipulated variable (MV) back and forth like a relay, measures the
oscillation of the process variable (PV), computes PID constants and gives the
loop back as it found it.  What can go wrong is physical, so the models are
about what the program does to the loop, what it knows about the loop, and what
it leaves behind for the next process when it dies.

Every definition is a translation of the Rust source; `PROJECT.json` maps it to
its lines.  Paths below are relative to `src/crates/`.

## Inventory

| Part | State it keeps | Operations | Talks to |
|---|---|---|---|
| MRFT engine (`bhtune-core/src/mrft.rs`) | switch counter, present MV, extremes of the cycle, recorded peaks, troughs, switch times | `new`, `step` | called by the polling loop once per tick; its result goes to `measure_oscillation` |
| Tuning calculation (`tuning_math.rs`, `constants.rs`) | none | `measure_oscillation`, PID formulas | engine result to PID constants |
| Polling loop (`bhtune-runtime/src/tune/poll.rs`) | next poll, whole-run timeout, padding before and after, completion | one biased select: verification wakeup, poll, Ctrl+C, timeout | driver, engine, tracker, samples table |
| MV confirmation (`tune/actuation.rs`) | the pending command, last commanded and last confirmed MV, one row per command | accept, verify, confirm, reject a replacement, finalize | driver, `tune_mv_actuations` |
| Mode transition, restore (`tune/prepare.rs`, `tune/restore.rs`) | `MutationGuard`, restore deadline, restore report | read initial state, to Manual, restore MV, settle, restore the rest | driver, tracker, Ctrl+C |
| Live ownership (`live_ownership.rs` of runtime and db) | OS lock on the database file, owner, claim and step rows, heartbeat | acquire, audited write, heartbeat, release | every live write, all processes on one database |
| Recovery (`tune/recovery.rs`, `db.rs`) | recovery state of a run, recovery attempts, exports | startup sweep, `restore-loop` | ownership rows left by dead processes |
| Run history (`tune_runs.rs`, `retention.rs`, `routes/history.rs`) | run rows | terminal updates, deletion, retention | cascades into owner, claim and step rows |
| PID write-back, revert (`tune/writeback.rs`, `history.rs`) | `tune_writes` rows, the PID readings in the owner's intent | pre-read, persist, write, verify, roll back, audit | driver, ownership |
| Server run registry and handlers (`bhtune-server/src/active_run.rs`, `routes/runs`, `run.rs`) | tasks, one exclusive reservation, cancel handles | start, cancel, reserve, release, delete, shut down | tune tasks, ownership, database |
| Event stream (`routes/stream.rs`) | last tick sent | poll the database, send, end | run and sample rows |
| Demo sessions (`state.rs`, `routes/demo`, `demo_sessions.rs`) | admission mutex, permits, accepted-start windows, session rows | admit, start, stream, clean up | HTTP handlers, triggers of the schema |
| Configuration (`config/`, `routes/config.rs`) | the loaded store, its revision, `bhtune.toml` and its backups | load, compare, patch, save atomically | tabs of the configuration page, text editors |
| Preflight and preparation (`tune/preflight.rs`, `tune/prepare.rs`) | a report; the template row | resolve, check, read a batch | catalog, database, gateway |
| Gateway users (`routes/opc`, `commands/opc.rs`, `opcda.rs`) | browse sessions, searches, the namespace index, all in the gateway | list, browse, search, read, write, index control | the external opcda-bridge gateway |
| Timing, pool and migrations, HTTP security, front end, packaging | none of their own protocol state | | |

What is hard here, and hard to test:

* several processes (CLI and server) share one database and one loop, and each
  may die between any two statements;
* a driver call may answer late, fail with an unknown effect, or never return,
  and a write nobody waits for any more may still reach the plant;
* the loop follows an accepted command later, or never, while the engine wants
  to go on;
* Ctrl+C, three kinds of timeout and the confirmation deadline race each other;
* rows are deleted while others rely on them;
* an HTTP handler is dropped at whatever `await` it has reached when its client
  leaves, and what it holds is given back only where a destructor does it;
* a file is compared, copied and renamed while an editor saves the same file;
* a result is only as good as an off-by-one at the last switch.

`PROJECT.json` lists these as hazards at the line where they bite, each with the
properties that watch it.

## The modules

```
LoopCustody <---- LiveOwnership <---- LiveOwnershipProofs
RelayTest   <---- MrftEngine    <---- MrftEngineProofs
TunePoll    <---- TunePollProofs     (uses a relay test as RelayTest describes it)
LoopRestore <---- LoopRestoreProofs  (starts from what TunePoll hands over)
WriteBack   <---- WriteBackProofs    (the PID constants; ownership is one variable)
ActiveRun   <---- RunServer     <---- RunServerProofs
ActiveRun   <---- DemoServer    <---- DemoServerProofs
TuningConfig <--- StartupConfig <---- ConfigStore <---- PeripheryProofs
TuningConfig <--- Preflight  <------------------------- PeripheryProofs
OpcGateway  (plans of calls) <------------------------- PeripheryProofs
MC*             (instances for TLC)
```

### LiveOwnership, LoopCustody

`LiveOwnership` is the protocol between processes.  A process has a program
counter and the locals of its operation; `lock` is the OS lock of the database
file; `runs`, `owners` and `claims` are the tables (an owner record carries its
restore intent, its latest step, its recovery attempt and its heartbeat age);
`loop` says whose perturbation each loop carries; `exported` is what was written
beside the database.  An action is a database transaction or a driver call, the
grain at which the code can be interrupted: `CreateAndClaim` and
`StartWithClaim` are one transaction each, `BeginWrite`, `DriverReturns` and
`FinishStep` are the three parts of `AuditedDriver::write`, and `SweepExport` is
followed by one of `SweepOrphan`, `SweepRetire` and `SweepAbandon`.  A crash may
happen at every step, also with a driver call in flight whose effect is unknown.
Any update may fail: the `...Lost` actions are the paths where the guard is
dropped and the rows stay.  JSON is reduced to whether it is there and valid.

`LoopCustody` says the same without processes, locks and rows: a loop is free,
held, orphaned or recovering, it is written only under a live holder, and a
recovery frees it only with its old value.  `ImplementsCustody` is the
refinement (without deletion, which breaks it: see `retention` below).

### MrftEngine, RelayTest

`MrftEngine` has every field of the Rust struct and one action per outcome of
`step`: `Hold`, `PerformSwitch`, and the no-op after completion.  f32 values are
integers: MV in units that make the switch threshold 0.01 a whole number, beta
in percent, so that the comparisons of the code are exact; the division by 100
in the amplitude is exact for the configurations TLC uses.  Counters wrap at
`Word`, which stands for 2^32.  `seen` and `last` are history variables that no
action reads.  `RelayTest` is what everybody else relies on: a fixed number of
commands that alternate and end with the initial MV.

### TunePoll

One run of `run_polling_loop_with_timing` for the OPC DA driver, with the
tracker.  (The simulator runs the same loop without a tracker on a logical
clock, and adds nothing to it.)  Deadlines are kept as the time left, so the
state space is finite without a bound on the clock; `Advance` lets a unit of
time pass only when the code really waits.  The select is biased, and so are the
guards of the four `Select...` actions; the select of `bounded_driver_call` is
not, so any of its three branches that is ready may win.  Database calls take no time but may
fail.  The tolerance of a readback is abstracted to equality of the three MV
levels.  The engine is reduced to `RelayTest` with its hold-off.

### LoopRestore

`execute_with_timing` from the initial readings to its return.  `policy`
enumerates what a template and its tags can ask of the restore; `guard` is
`MutationGuard`; `flight` holds writes that may still reach the loop and `lost`
says that the fate of one of them was never learned.  The polling loop is one
action, `PollEnds`, restricted to what TunePoll's `RestoreHandOff` shows it can
leave behind.  Restore deadlines are a flag
that time raises and that an accepted MV write lowers, as in the code.

### WriteBack

The write-back at the end of a run, `POST .../write`, `POST .../revert` and
`bhtune history revert` as operations on one loop and one audit table.  An
operation walks through `write_pid_values_inner`: pre-read of all three
constants, the intent saved with the owner row, then per constant write and
readback, and after a failure the rollback of the constants that were confirmed.
A revert fixes its target from the audit trail before it owns the loop, as the
code does; `listed` is how much of the trail it saw.  A constant's value is a token, and values within the tolerance are
one token; a controller may clamp a value, refuse it, or take it and answer with
an error.  `MaxFaults` bounds errors, clamps and crashes together.

### ActiveRun, RunServer

`ActiveRun` is the registry: its operations hold one mutex each, so each is a
step.  `RunServer` is a server process around it.  A request is cut at every
await that another request can slip into, `Disconnect` drops it at any of them,
and what a dropped handler gives back is only what a destructor gives back: the
OS lock, but neither the reservation nor the owner row.  `guard` is that lock
and `claim` the owner row with its claim: a start takes both (`TakeLoop`), then
connects its driver (`ConnectDriver`) and hands both to the task
(`RegisterTask`).  A task goes from its preparation (initial readings, transition
to Manual) over polling, restoring, its recorded outcome and its return to the
watcher that releases it.  Every database call may fail where the code lets it:
the row of a run whose preparation failed may be marked, deleted or left
(`FinalizesFailure`), an outcome may not be recorded (`RecordOutcome`), a release
may leave the claim (`MayReleaseClaim`), a refused start may leave its row, and a
task may panic (`TaskPanics`).  A deletion takes owner row and claim with the row
(`Cascades`).  Shutdown drains the connections, then takes all tasks out of the
registry and waits for them.

### DemoServer

The same registry behind the quotas of the public demo: a start holds the
admission mutex from the cleanup to the registration, two run permits whose
entries are reclaimed when nobody uses them, and a slot in each of two windows of
accepted starts.  The router's timeout or a visitor who leaves drops a handler at
any await.  The database's triggers refuse what they refuse in the schema.
`Restart` loses everything but the database.  A window is the set of its slots:
the code's deque is filled under the admission mutex and therefore in the order
of time, so that popping what is too old is the same as filtering (`state.rs:194`).

### TuningConfig, StartupConfig, ConfigStore

`TuningConfig` is the precedence and validation of the five tuning values,
`StartupConfig` what a start of the server demands before it opens the database.
`ConfigStore` is the configuration page: the store behind its lock, the steps of
`write_config_file_atomically` with the file system calls that may fail between
them, an editor that writes between any two, a crash, and a power failure that
undoes renames that were not synced.  `sync_parent_dir` does nothing outside Unix,
for a path without a parent and for a directory that cannot be opened, and ignores
a sync that fails; `syncable` says whether it works, initially or any more.
`drift` is a history variable: whether the file changed since the store was loaded
("edited"), in particular since the save under way compared it ("slipped") or
copied it ("late").

### Preflight

`bhtune check` and the preparation of the tune it was asked about, as two
programs over one world: the request, the configuration, the catalog, the
template row and the plant.  The world is chosen initially and stands still, so
whatever the two programs disagree about is a disagreement of the code.
`TakeOwnership` is what the start does between the gateway check and its live
driver: the row, its metadata, the lock and the claim, which a loop that another
operation owns or that is not recovered refuses.  Any database call may fail.

### OpcGateway

Each route and each command is a plan, a sequence of gateway calls on its own
connection; `Advance`, `Fails`, `Hangs` and `TimeOut` walk through it.  The
gateway is external: it keeps sessions, searches and an index, expires and
restarts.  `collect_browse_pages`, the degraded answers of read-only routes, the
cancellation of a search by `Drop` and the result of `opc write` are the code's.
A write that ends without the gateway's answer (`GivesUp`) did not happen, did, or
lands later (`LateWriteLands`), whoever owns the tag by then; what a write leaves
owned is retired by the sweep of a later start (`OwnerSwept`).

## The runs

| Run | Bounds | What it shows |
|---|---|---|
| `crash` | 2 processes, 1 run, 3 owners, 1 loop | all interleavings of tune, PID write, revert, crash, sweep, recovery, heartbeat loss and database errors keep the ownership and evidence invariants and refine `LoopCustody` |
| `deletion` | 2 processes, 1 run, 2 owners, both deletions, no symmetry, fair | guards are not taken over, unresolved recoveries keep their source owner and claim, no startup is refused, and an abandoned owner is retired or offered for recovery |
| `stall` | 3 switches, poll 2, op timeout 3, confirmation 4, hold-off 5, run timeout 16 | the confirmation protocol under late, failing and stalled calls, what it hands to the restore, and the ends that the run always reaches |
| `slow` | as `stall`, a driver slower than the poll interval | refutes `TimeoutEndsRun`, see below |
| `restore` | all policies, 2 Ctrl+C | the restore under everything that can interrupt it |
| `cycles` | configurations with up to seven switches, 5 PV levels, gaps up to 2 | the engine implements `RelayTest`, its measurements are true, it ends |
| `writeback` | 3 operations, 2 levels that can be written and 1 that cannot, 2 faults | intents precede writes, audit rows tell the truth about the controller, a revert goes back to before the newest write it had listed |
| `server` | 2 clients, 2 live runs of one loop, 1 sample, fair | the loop has one user, writes exclude tunes, a claim outlives its run, `done` follows the last sample, shutdown ends every run, a handle triggered in the test ends it |
| `demo` | 2 requests, 2 visitors, 2 addresses, 3 run ids, 1 restart, fair | no limit is passed, a started run stays counted and keeps its session, every stream ends |
| `config` | 2 tabs, 5 editor texts, 4 requests, 2 edits, 2 saves, 1 fault, 1 crash | what a save overwrites is accounted for, the store is the file, an acknowledged save survives if its directory can be synced and else reverts whole |
| `check` | a healthy OPC DA and a simulated request with up to two deviations each | a start refuses nothing the check accepted, save three conditions and failing calls, and both use one template |
| `gateway` | 1 browser, 2 commands, 2 sessions, listings of 2 and 3 pages with a limit of 2, fair | successful answers are true of the gateway, requests end unless a search never stops sending |

Several properties are conjunctions, one per promise of a component
(`PerturbationEvidence`, `ConfirmationSound`, `RestoreSafe`, `DemoLimitsHold`,
...); their conjuncts are definitions of their own in the module, each with its
comment.  Type invariants that no run lists by themselves are part of
`ConfirmationSound` and `RestoreSafe`, and the engine's is proved
(`EngineTypeCorrect`).  The operators marked `Mutant` are
plausible mistakes in the definition below them: putting one in its place must
make a run fail.

Why the bounds are enough: the third owner of `crash` is what a recovery of an
interrupted recovery, or a tune after a finished one, needs; one process can
crash and come back, so two give every pair of a live and a restarted one.  In
`deletion` the run of an owner is deleted under a live, a crashed and a
recovering one; more runs add only rows that nobody looks at.  In `stall` the
headroom is below the confirmation window and the window below the hold-off, as
for the slower process types; a slow write eats so much of the hold-off that a
replacement can be asked for while a command is pending; a call may outlast the
poll interval, and both the operation timeout and the confirmation window can end
a read first; three switches are one start, one reversal and one snapback.  In
`cycles` relay steps are clamped at neither end, at either end, and to less than
a switch.  In `writeback` a revert can race a write after a first write, two
faults are a failure and a failure of its rollback, or a failure and a crash.  In
`server` two clients give every pair of handlers, and the second run is what a
write races, and what could take the loop after a run was deleted under its task;
simulated runs beside them are left to the proofs, which are for any set of live
runs.  In `demo` every limit is reached by two requests, one window passes
and one session expires, and a third run id outlives a restart.  In `config` the
second edit and the second save are what a stale view, a retried save and an edit
after the comparison need, and the fault and the crash can fall at every step.
In `check` two deviations meet every check alone and together with one other.
In `gateway` a listing stays under, reaches or passes its limit.  For the safety
properties, all of which the next section but one proves for all sizes, the
bounds are a matter of finding mistakes early only.

### Fairness

* `LiveOwnership!FairSpec`: time passes, and a startup that can sweep again and
  again does, and gets through.  The property assumes besides that again and
  again some process is down while no live operation holds the lock, because the
  program is started by an operator, and a sweep runs only at a start.
* `TunePoll!FairSpec`: the executor runs a ready task, and time passes.  Nothing
  is assumed of the driver, the plant or the operator.
* `LoopRestore!FairSpec`: the code's own steps, the restore deadline, and the
  handoff read, which the code bounds by itself.  Nothing else of the driver.
* `RunServer!FairSpec`: a task in its polling loop looks at its handle, one that
  restores ends within the restore deadline and records its outcome or fails to,
  and the database answers handlers or fails.  A driver call before the test, in
  the write-back or in a handler may never return (`TestStarts`, `DriveReturns`,
  `TakeLoop`, `ConnectDriver` and `WriteConstants` are not fair); a test may take
  any time (`TestEnds` is not fair); clients need not send, stay or leave; nobody
  need stop the server.
* `DemoServer!FairSpec`: the runtime drives the streams and their lifetime timer.
  Nothing is assumed of tasks, visitors, cleanup or the clock of the windows.
* `OpcGateway!GatewayFairSpec`: the server's runtime drives its handlers and their
  timers.  The gateway may leave every call unanswered, and may send the events of
  a search without end.  Commands, which have no deadline, are not fair.
* `MrftEngine`: none; `SwingingTestEnds` says what cannot happen for ever.

## What is proved

TLAPS proves, for every value of the constants that satisfies the named
assumptions:

`LiveOwnershipProofs`, for any number of processes, runs, owners and loops, in
three layers.

1. `TypeCorrect`, `LockIsHeld` (`LockDiscipline`), `OneWriter` (`SingleWriter`)
   and `GuardsAreKept` (`NoTakeover`).  Neither of the last two is inductive.
   `IInv` adds that the locals of a process fit its program counter
   (`LocalsOK`), that a run row in use has a loop (`RunsHaveResource`) and that
   the run of an operation was started (`RunsStarted`).  The argument is the same
   for all: whoever changes an owner or a claim holds the lock, the lock belongs
   to one process, so a process that is guarded is the only one, and what it does
   to its own rows keeps them its own.  Deletion is the one step that needs no
   lock, which is why `NoTakeover` speaks of a deleted owner.
2. `RecoverableForever` (`RecoveryStaysPossible`) and `RetirementEarned`
   (`RetirementIsEarned`, an action property), whatever is deleted.  `CInv` says
   how the rows fit each other: a claim names an owner of its loop, an active
   tune has its claim, every unresolved recovery has its one source, a recovery
   attempt its source and its run (`RowInv`); that a guarded process and its
   owner row name the same operation and run (`GuardRows`); and that a sweep
   exports an owner before it retires it (`ExportedFirst`).
3. `PerturbationsAccounted` (`PerturbationEvidence`) and `OwnershipIsCustody`
   (`ImplementsCustody`), under the hypothesis `Deletions = {}`.  It cannot be
   dropped: with deletion TLC refutes both, and what deletion does to the
   evidence is the `retention` entry below.  `KInv` says what the loops carry and
   which rows tell of it: a step needs an intent (`StepsNeedIntent`), a run
   declared not recoverable never wrote (`NeverWrote`), a perturbed loop is under
   its claim or told of (`Perturbed`), and a tune that says it restored its loop
   did (`ConfirmedClean`).  The refinement is argued loop by loop: every action
   changes the custody of one loop at most, by a step of `LoopCustody`, and
   leaves that of the others alone; `AllInv` is the conjunction of the layers.

`MrftEngineProofs`, for every accepted configuration and every PV, as long as no
counter wraps (`NoWrap`): `EngineTypeCorrect`, `MeasurementNeverPanics`
(`CompleteIsMeasurable`), `AmplitudeNeverNegative` (`PairedExtremes`),
`MvStaysInRange` (`MvInRange`), `ExtremesNeverMiss` (`ExtremesAreTrue`) and the
refinement `EngineImplementsRelay` (`ImplementsRelay`).  The inductive invariant
ties the counter to completion (`CounterOK`), the MV to one of three levels and
to the first sign (`RelayOK`: without it nothing says that switches alternate),
the numbers of peaks and troughs to the counter's parity (`RecordOK`) and each
recorded extreme to its neighbours (`PairsOK`).  `NoWrap` cannot be dropped: see
`wrap` below.

`RunServerProofs`, for any number of clients, runs and samples, wherever a client
leaves and whatever fails: `LoopIsNeverShared` (`LoopIsExclusive`, which is
`WriteExcludesTunes` and `OneUserOfTheLoop`), `ClaimsOutliveRuns` (`ClaimOutlivesRun`),
`StreamsSendEverySample` (`DoneFollowsLastSample`) and `ShutdownLeavesNothing`
(`ShutdownEndsEveryRun`).  None of them is inductive.  The invariant follows a run
through its life: from the insert of its row to the start of its task it is in the
hands of at most one request (`StartsOK`), from then on its task is registered
until the watcher or the shutdown takes it out (`TasksOK`); a reservation is made
over an empty registry and keeps it empty (`ReservationOK`); a run once seen
finished is never driven again (`SeenOK`); past the drain no request is served
(`ShutdownOK`).  Whoever may call the driver of the loop holds the lock for its
own run (`GuardOK`), and `OneUserOfARun` shows from the other parts that no two of
them are of one run, so that neither a drop nor a release takes the lock from
another user.

`PeripheryProofs` proves what surrounds a tune, three components without common
state.

* The configuration page, for any number of tabs, any editor texts, requests and
  bounds: `AcknowledgedSavesSurvive` (`AcknowledgedIsAccountedFor`),
  `NothingIsOverwrittenUnseen` (`OverwriteIsAccountedFor`) and `TheStoreIsTheFile`
  (`StoreIsTheFile`).  The invariant says that the writer's lock makes store and
  request stand still from the checks to the answer, so that the temporary file is
  the patched text whose revision was checked (`RevisionOK`, `TempOK`), that the
  file is the store's text unless `drift` says otherwise (`FileOK`), and that a
  rename that power loss can undo is not acknowledged yet, or could not be synced
  and replaced a text that was copied before (`UndoOK`).  For the
  third theorem `StoreInv` adds where texts come from: what is on disk, or comes
  back there, was accepted by the parser and the startup (`AcceptedOK`), a save
  writes only a patch it has found valid (`SaveOK`), and only between rename and
  answer is the store behind the file (`LoadedOK`).
* The users of the gateway, for any number of them, of sessions, pages and
  restarts, whichever call fails or hangs and whenever a write given up lands: `AnswersStayTrue` (`AnswersAreTrue`).
  The invariant says where in its plan a request is (`Progresses`), that a listing
  under way has gathered a run of pages of one session that ends where the cursor
  points (`Gathers`), and that `opc write` owns the tag from the acquisition to
  the release (`Owns`), so that nobody writes it then except what was given up
  before.  Nothing is said of the sessions the gateway still knows:
  a listing whose session is gone is refused, not shortened.
* The preflight, for every request, configuration, template history, gateway and
  plant: `PreflightForetells` (`RefusalWasForetold`) and `PreflightSharesTemplate`
  (`SameTemplate`).  The invariant says what a passing report vouches for: the
  request, the tuning, the loop and the gateway (`PassedOK`, `GatewayOK`), and
  that every derived tag was answered once and the values fit (`ReadOK`).  So the
  first and the last answer are the same reading (`AnsweredOnce`), and the smaller
  batch of the start holds what the report saw (`SecondReadFits`).
  `SeedsWhatResolves` is the lemma about the templates: seeding the two catalogs
  leaves the definition in the row that `resolve_template` finds without seeding.

`TunePollProofs`, for any deadlines, latencies and number of switches that fit
each other as the code's constants do: `ViewsStayInStep` (`ConfirmationSound`,
with type correctness), `RestoreMayTrust` (`RestoreHandOff`) and the action
property `StepsAreConfirmedInTime` (`ConfirmationOrder`).  Engine, audit rows,
tracker and plant count the same commands, and none of them knows the others.
The invariant says at each program counter how far apart they can be: the engine
is one ahead of the rows while the MV is being written and level with them
otherwise, and only the newest row is open (`CountsOK`, `EngineOK`); what is on
its way to the plant is the pending command and nothing else (`PlantOK`); a
pending command is as old as its window and what is left of the call in hand allow
(`AgesOK`); and what is still pending after a read was seen by it (`TickOK`).

`LoopRestoreProofs`, for every policy and any number of Ctrl+C, whatever the
driver answers and whenever a write lands: `RestoreReportsTheLoop`
(`RestoreSafe`, with type correctness) and the action property
`ReleasedAtInitialMv` (`AutoReleasedAtInitialMv`).  What may be under way at each
step is known (`FlightOK`), so a write that was accepted has arrived
(`ArrivedOK`), and what a step has put back stays back (`MvOK`, `ManualOK`,
`DoneOK`).  Once a write is lost, none of this is promised, but the guard still
knows what the tune touched (`GuardOK`).  `ConfirmedMeansRestored`,
`NothingSkipped` and the release at the initial MV follow from where the code is
and what the report says.

`DemoServerProofs`, for any visitors, addresses, requests, runs and limits:
`TheLedgerIsKept` (the inductive invariant), `LimitsHold` (`DemoLimitsHold`) and
`StartsAreKept` (`StartedRunsAreKept`).  The invariant says who holds what: a
start its permits from admission to the end of its task (`PermitsInv`), the
admission mutex until its row is inserted (`AdmissionInv`), a slot in both
windows until it is released (`SlotsInv`), and its row and session while it is
driven (`RunsInv`).  A task gives back the permits of the request that started it,
so the invariant has to say that no two starts ever bear the same run, although
requests are dropped anywhere, semaphores reclaimed and run rows deleted.

`WriteBackProofs`, for any number of operations and response levels, wherever an
operation fails or crashes: `IntentsAreWrittenAhead` (`IntentPrecedesWrite`),
`RowsTellThePlant` (`RowTellsPlant`) and `RevertsGoBack` (`RevertGoesBack`).  The
properties are not inductive: the invariant says for each step how far the audit
row has got (`RowsFit`), that an operation past its acquisition owns the loop
(`OwnerOK`), what its owner row holds (`IntentOK`) and what it knows of each
constant (`PlantOK`).  As only the owner writes, what it knows stays true.  What a
revert has chosen stays the newest write until a newer row lands that it has not
listed (`TargetOK`).  That `SelectLastInSeq` finds the newest write needs the
largest element of a bounded set, which `MaxBelow` gets from the well-foundedness of `<`.

Only model-checked are the liveness properties `AbandonedIsSettled`, `RunEnds`,
`RestoreEnds`, `SwingingTestEnds`, `CancelTakesEffect`, `DemoStreamEnds` and
`RequestsEnd`: liveness under fairness and ENABLED are out of the prover's reach.
Every safety property, action property and refinement that a passing run checks
is proved.

`PeripheryProofs` extends three components at once, so two of them prefix the
names every module has: `GatewayInit`, `GatewayNext`, `GatewaySpec` and
`PreflightInit`, `PreflightNext`, `PreflightSpec`.  What the constants must
satisfy is in the named assumptions of the modules (`GatewayAssumption`,
`PreflightAssumption`, ...), which TLC evaluates on every instance.

No module with a theorem has a RECURSIVE operator; induction over data, which the
prover cannot do either, is not needed by any of the theorems.

## Where the code and its documentation disagree

`slow` is a run that TLC refutes, with the quotation in `PROJECT.json`.  The
others are definitions marked "Refuted" in their modules, or facts met while
modelling; naming such a definition in the component's configuration file
reproduces the counterexample.

* `slow` (`TunePoll!TimeoutEndsRun`): a driver as slow as the poll interval
  starves the whole-run timeout behind the biased select (`poll.rs:555`).
* `revert` (`WriteBack!RevertsMostRecentWrite`): a revert chooses the write to take
  back before it owns the loop, so a write of another process that completes in
  between is skipped, and older values are restored (`history.rs:126`;
  `routes/runs/handlers.rs:347` promises the most recent write-back).
* `search` (`OpcGateway!SearchesEnd`): the search route bounds the wait for each
  event, not the search; a gateway that keeps reporting progress keeps the request
  open (`routes/opc/handlers.rs:378`; `routes/opc/mod.rs:7` says that every OPC
  operation is bounded).
* `retention` (`LiveOwnership!EvidenceIsDurable`): retention can delete an
  interrupted run before any startup has looked at it, and its evidence with it
  (`tune_runs.rs:1136`).
* `http` (`LiveOwnership!DeletionSparesActiveRun`): a run can be deleted over
  HTTP while its PID write-back is under way (`routes/history.rs:723`).
* `press` (`LoopRestore!FirstCtrlCRestores`): the restore can take a single
  Ctrl+C for the second one (`restore.rs:512`).
* `hang` (`LoopRestore!CtrlCTakesEffect`): a driver call before the test, or in
  the write-back, that never returns is ended neither by a timeout nor by Ctrl+C
  (`prepare.rs:611`, `prepare.rs:1284`).
* `wrap`: an absurd number of cycles wraps the counter and makes the calculation
  panic instead of being rejected (`mrft.rs:234`).  With `Word` small and `NoWrap`
  left out of the instance, `CompleteIsMeasurable` fails.
* `rollback` (`WriteBack!RolledBackMeansPrevious`): a constant whose write was
  answered with an error may have been taken; it is not rolled back, and the row
  says all the same that the rollback succeeded (`writeback.rs:430`; the audit
  model, `tune_writes.rs:77`, says every written constant was written back).
* `cancel` (`RunServer!CancelledRunEnds`): a cancel between the insert of a run
  and the registration of its task is answered with 204, and the run goes on
  (`routes/runs/handlers.rs:156`; its documentation, line 152, says that
  cancellation was requested or the run was already inactive).
  A cancel that does reach a handle is not seen before the test: see `hang`.
* `orphan`: a run is left running by a start whose handler is dropped before its
  task is registered, by a task that panics, and by an outcome or a refusal that
  cannot be recorded (`active_run.rs:67`, `prepare.rs:507`,
  `routes/runs/handlers.rs:127`; the comment before the last says that the row is
  not left for ever).  With an owner row the next startup finds and ends it, which
  `ClaimOutlivesRun` is about; a simulated run, or one that had no owner yet, stays
  running and can neither be deleted nor retired.
* `stream` (`RunServer!StreamEnds`): the stream of a run that was deleted under
  it polls for ever (`routes/stream.rs:140`; line 67 promises one final event).
* `reservation` (`RunServer!ReservationIsReturned`): a client that leaves during
  a write or revert leaves the reservation behind, and no run starts until the
  server does (`reserve_connect_and_write` says every exit path releases it).
* `reload` (`ConfigStore!ReloadResolvesConflict`): after an external edit the
  page is told to reload and try again, but a reload answers from the store and
  the save conflicts again until a restart (`routes/config.rs:216`;
  `docs/guides/web-ui/templates-and-configuration.md:91`).
* The comparison that keeps a save from overwriting an external edit comes before
  the backup and the rename, so an edit in between is overwritten; after the copy
  it is in no backup either (`config/browser.rs:680` says the save prevents blind
  overwrites).  `OverwriteIsAccountedFor` allows exactly that.  A save whose
  directory was not synced is answered as any other (`config/browser.rs:602`).
* The preflight does not call `validate_relay_actuation_step`, does not ask for
  `--yes` with `--write-pid` and does not look whether the loop or the database is
  owned: `RefusalWasForetold` excepts these three (`NotLookedAt`,
  `docs/architecture/safety-model.md:37`).
* A demo start whose handler is dropped after the insert leaves its accepted slot
  and a running row until the next restart (`state.rs:106`); a session that
  expires before the insert is refused by a trigger; `max_runs_per_session`
  counts the rows there are, not the runs ever accepted (`config/demo.rs:215`).
* `opc write` does not require a compatible gateway (`gateway.rs:3` says that
  live mutations do), `opc browse` and the read, servers and search routes fail
  on an incompatible one (`gateway.rs:4` says that read-only surfaces degrade),
  `combine_write_and_release` reports a rejected write as completed when the
  release fails, commands have no deadline, and `browse --all` closes no session.

## Not modelled

Floating-point formulas and range conversion (left to the golden-master tests);
the simulator, a floating-point process model whose polling loop is TunePoll's
without a tracker; text (templates, reports, exports, JSON, argument parsing);
timing statistics, which control nothing; the connection pool, backup and
migrations, which are SQLite's and the file system's; HTTP security filters,
static files and the service wrapper, which keep no protocol state; the front end
and packaging.  The components in `PROJECT.json` say so one by one.  A rollback
write that is accepted is taken to have restored its value: `writeback.rs:151`
reads nothing back after it.  A write that
was given up may reach the plant after a confirmed restore: no software can
exclude this, and the restore properties except it by `lost`.

## Plan

Everything with a protocol of its own is modelled, and every safety property of
the ten checked components is proved.  What is worth adding next is the safety
half of the liveness properties: a variant for the restore and for the polling
loop that bounds the steps that are not waits.
