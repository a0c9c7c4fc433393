----------------------------- MODULE RunServer ------------------------------
(***************************************************************************)
(* One bhtune-server process in Full mode: the handlers that start,        *)
(* cancel, annotate, delete, write, revert and stream runs, the background *)
(* task of every run, the retention sweeper and the shutdown sequence      *)
(* (bhtune-server routes/runs, routes/stream.rs, routes/history.rs,        *)
(* run.rs).                                                                *)
(*                                                                         *)
(* A handler is a sequence of steps, one per await that another handler    *)
(* can slip into.  Its future is dropped at any of them when its client    *)
(* goes away, and any of its database calls may fail.  What the driver     *)
(* and the engine do inside a task is TunePoll's and LoopRestore's; the    *)
(* ownership rows are one claim here (LiveOwnership has the rest), beside  *)
(* the OS lock that the process holds for one live operation at a time.    *)
(***************************************************************************)
EXTENDS ActiveRun, Naturals

CONSTANTS
    Client,   \* requests; each client sends one
    Live,     \* the runs that use the OPC DA driver; all drive one loop
    MaxTick   \* bound: samples of one run

ASSUME RunServerConstants ==
    /\ None \notin Run /\ Live \subseteq Run /\ MaxTick \in Nat

VARIABLES
    server,   \* "up", "draining", "waiting", "abandoned", "down"
    row,      \* tune_runs
    task,     \* the background task of each run
    waits,    \* the tasks cancel_and_wait took out of the registry
    guard,    \* the run whose LiveOperationGuard this process holds
    claim,    \* the run whose owner row claims the loop
    req       \* the requests

vars == <<registry, server, row, task, waits, guard, claim, req>>

-----------------------------------------------------------------------------
(* Types *)

Terminal == {"completed", "aborted", "failed"}
Row == [outcome: Terminal \cup {"absent", "running", "deleted"},
        samples: 0..MaxTick]

\* spawned, before the test, polling, restoring, with its outcome recorded,
\* returned or dead, and its registration released by the watcher.
TaskState == {"none", "preparing", "polling", "restoring", "recorded", "returned", "over"}

Kinds == {"none", "start", "cancel", "notes", "delete", "write", "stream"}
ReqRec == [kind: Kinds, run: Run \cup {None},
           pc: {"idle", "insert", "own", "connect", "register", "found", "check", "reserved",
                "owned", "release", "poll", "samples", "done", "dropped"},
           status: {"none", "ok", "refused"},   \* "refused": any 4xx or 5xx
           last: 0..MaxTick, seen: {"unknown", "running", "over", "gone"}]

TypeOK ==
    /\ RegistryTypeOK
    /\ server \in {"up", "draining", "waiting", "abandoned", "down"}
    /\ row \in [Run -> Row]
    /\ task \in [Run -> TaskState]
    /\ waits \subseteq Run
    /\ guard \in Run \cup {None} /\ claim \in Run \cup {None}
    /\ req \in [Client -> ReqRec]

\* The database may hold finished runs of an earlier server process.
Init ==
    /\ RegistryInit
    /\ server = "up"
    /\ row \in [Run -> {[outcome |-> o, samples |-> 0] :
                            o \in {"absent", "completed"}}]
    /\ task = [r \in Run |-> "none"]
    /\ waits = {}
    /\ guard = None /\ claim = None
    /\ req = [c \in Client |-> [kind |-> "none", run |-> None, pc |-> "idle",
                                status |-> "none", last |-> 0, seen |-> "unknown"]]

Present(r) == row[r].outcome \notin {"absent", "deleted"}

\* What a handler that reads the row of r keeps of it.
Outcome(r) == IF ~Present(r) THEN "gone"
              ELSE IF row[r].outcome = "running" THEN "running" ELSE "over"

-----------------------------------------------------------------------------
(* Requests *)

Alive == server \notin {"down", "abandoned"}

At(c, k, pc) == req[c].kind = k /\ req[c].pc = pc
Ready(c, k, pc) == Alive /\ At(c, k, pc)
Goes(c, pc)  == req' = [req EXCEPT ![c].pc = pc]
Answers(c, status) == req' = [req EXCEPT ![c].pc = "done", ![c].status = status]
Releases(c, status) == req' = [req EXCEPT ![c].pc = "release", ![c].status = status]

\* What a guard that is dropped without a release gives back: the OS lock, but
\* not the owner row with its claim.
DropsGuard(r) == guard' = IF guard = r THEN None ELSE guard

\* The owner rows of a run, and the claim of one, go with the run.
Cascades(r) == claim' = IF claim = r THEN None ELSE claim

\* LiveOperationGuard::release, which may fail and leave the owner row.
MayReleaseClaim(r) ==
    \/ UNCHANGED claim
    \/ claim = r /\ claim' = None

\* Graceful shutdown accepts no new connection.
Sends(c, k, r, pc) ==
    /\ server = "up" /\ req[c].pc = "idle"
    /\ req' = [req EXCEPT ![c].kind = k, ![c].run = r, ![c].pc = pc,
                          ![c].seen = IF r = None THEN "unknown" ELSE Outcome(r)]

Refuses(c, k) ==
    /\ server = "up" /\ req[c].pc = "idle"
    /\ req' = [req EXCEPT ![c].kind = k, ![c].pc = "done", ![c].status = "refused"]

\* start_run: the optimistic check, then validation of the request.
StartRun(c) ==
    /\ \/ Refuses(c, "start")
       \/ exclusive = None /\ Sends(c, "start", None, "insert")
    /\ UNCHANGED <<registry, server, row, task, waits, guard, claim>>

\* prepare_internal refuses the request, or inserts the row (AUTOINCREMENT:
\* the id is new).
InsertRow(c) ==
    /\ Ready(c, "start", "insert")
    /\ \/ Answers(c, "refused") /\ UNCHANGED row
       \/ \E r \in Run :
            /\ row[r].outcome = "absent"
            /\ row' = [row EXCEPT ![r].outcome = "running"]
            /\ req' = [req EXCEPT ![c].pc = "own", ![c].run = r]
    /\ UNCHANGED <<registry, server, task, waits, guard, claim>>

\* finalize_preparation_failure: the row is marked failed, or else deleted, or
\* else left as it is.
FinalizesFailure(r) ==
    \E o \in {"failed", "deleted", "running"} : row' = [row EXCEPT ![r].outcome = o]

\* Mutant of LoopIsFree: the claim is asked for, the lock is not.
LoopIsUnclaimed == claim = None

\* LiveOperationGuard::acquire: the lock of the database, then the claim.
LoopIsFree == guard = None /\ claim = None

\* ... then records what the run was asked for and takes the loop, unless the
\* run is simulated.
TakeLoop(c) ==
    /\ Ready(c, "start", "own")
    /\ LET r == req[c].run IN
         \/ /\ IF r \in Live THEN LoopIsFree /\ guard' = r /\ claim' = r
                              ELSE UNCHANGED <<guard, claim>>
            /\ Goes(c, "connect")
            /\ UNCHANGED row
         \/ /\ FinalizesFailure(r)
            /\ Answers(c, "refused")
            /\ UNCHANGED <<guard, claim>>
    /\ UNCHANGED <<registry, server, task, waits>>

\* Mutant of ConnectDriver: the loop is given back although the failure of the
\* run could not be recorded.
ConnectDriverReleasing(c) ==
    /\ Ready(c, "start", "connect")
    /\ LET r == req[c].run IN
         \/ Goes(c, "register") /\ UNCHANGED <<row, guard, claim>>
         \/ /\ \E o \in {"failed", "running"} : row' = [row EXCEPT ![r].outcome = o]
            /\ MayReleaseClaim(r)
            /\ DropsGuard(r)
            /\ Answers(c, "refused")
    /\ UNCHANGED <<registry, server, task, waits>>

\* ... and connects the driver (complete_driver_setup).  When that fails, the
\* loop is given back only once the row is marked failed; either may fail, and
\* the claim stays then.
ConnectDriver(c) ==
    /\ Ready(c, "start", "connect")
    /\ LET r == req[c].run IN
         \/ Goes(c, "register") /\ UNCHANGED <<row, guard, claim>>
         \/ /\ \/ /\ row' = [row EXCEPT ![r].outcome = "failed"]
                  /\ MayReleaseClaim(r)
               \/ UNCHANGED <<row, claim>>
            /\ DropsGuard(r)
            /\ Answers(c, "refused")
    /\ UNCHANGED <<registry, server, task, waits>>

\* ActiveRun::start, the authoritative check; the read of the new run for the
\* answer may fail.  A refused start drops the prepared tune with its guard and
\* marks the row failed, which may fail.
RegisterTask(c) ==
    /\ Ready(c, "start", "register")
    /\ LET r == req[c].run IN
         \/ /\ StartAllowed(r)
            /\ StartTask(r)
            /\ task' = [task EXCEPT ![r] = "preparing"]
            /\ \E s \in {"ok", "refused"} : Answers(c, s)
            /\ UNCHANGED <<row, guard>>
         \/ /\ ~StartAllowed(r)
            /\ row' = [row EXCEPT ![r].outcome = "failed"] \/ UNCHANGED row
            /\ Answers(c, "refused")
            /\ DropsGuard(r)
            /\ UNCHANGED <<registry, task>>
    /\ UNCHANGED <<server, waits, claim>>

\* Looking a run up: the first step of every handler of one run.
Looks(c, k, r, pc) ==
    \/ Refuses(c, k)
    \/ Present(r) /\ Sends(c, k, r, pc)

LookUp(c) ==
    /\ \E r \in Run :
         \/ Looks(c, "cancel", r, "found") \/ Looks(c, "notes", r, "found")
         \/ Looks(c, "delete", r, "check") \/ Looks(c, "write", r, "check")
         \/ Looks(c, "stream", r, "poll")
    /\ UNCHANGED <<registry, server, row, task, waits, guard, claim>>

\* cancel_run: 204 whether or not a task was there to cancel.
Cancel(c) ==
    /\ Ready(c, "cancel", "found")
    /\ CancelRun(req[c].run)
    /\ Answers(c, "ok")
    /\ UNCHANGED <<server, row, task, waits, guard, claim>>

\* update_notes and delete_notes change nothing this module keeps; the update
\* touches no row when the run is gone by then, and the detail read after it
\* says so.
UpdateNotes(c) ==
    /\ Ready(c, "notes", "found")
    /\ Answers(c, IF Present(req[c].run) THEN "ok" ELSE "refused")
    /\ UNCHANGED <<registry, server, row, task, waits, guard, claim>>

\* delete_run, whose check is on the row it looked up; the DELETE itself
\* spares only unresolved recoveries.
Delete(c) ==
    /\ Ready(c, "delete", "check")
    /\ LET r == req[c].run IN
         \/ req[c].seen = "running" /\ Answers(c, "refused") /\ UNCHANGED <<row, claim>>
         \/ /\ req[c].seen = "over"
            /\ row' = [row EXCEPT ![r].outcome = "deleted"]
            /\ Cascades(r)
            /\ Answers(c, IF Present(r) THEN "ok" ELSE "refused")
    /\ UNCHANGED <<registry, server, task, waits, guard>>

\* TuneRunRow::delete_older_than: finished runs only.
Retention(r) ==
    /\ Alive /\ row[r].outcome \in Terminal
    /\ row' = [row EXCEPT ![r].outcome = "deleted"]
    /\ Cascades(r)
    /\ UNCHANGED <<registry, server, task, waits, guard, req>>

\* A query of a handler that fails after the look-up: the handler answers 500,
\* a stream says so and ends.
QueryFails(c) ==
    /\ \/ Ready(c, "notes", "found") \/ Ready(c, "delete", "check")
       \/ Ready(c, "write", "check")
       \/ Ready(c, "stream", "poll") \/ Ready(c, "stream", "samples")
    /\ Answers(c, "refused")
    /\ UNCHANGED <<registry, server, row, task, waits, guard, claim>>

-----------------------------------------------------------------------------
(* PID write and revert *)

\* require_writable_run on the row that was looked up (write_run; revert_run
\* asks the audit trail, which only a finished run has), then
\* ActiveRun::reserve.
ReserveForWrite(c) ==
    /\ Ready(c, "write", "check")
    /\ LET r == req[c].run
           writable == r \in Live /\ req[c].seen = "over"
       IN
         \/ /\ ~ (writable /\ ReserveAllowed)
            /\ Answers(c, "refused")
            /\ UNCHANGED registry
         \/ /\ writable /\ ReserveAllowed
            /\ Reserve(r)
            /\ Goes(c, "reserved")
    /\ UNCHANGED <<server, row, task, waits, guard, claim>>

\* LiveOperationGuard::acquire_for_recorded_run, which a failing query refuses
\* too; the owner row of a run that was deleted meanwhile cannot be inserted.
AcquireForWrite(c) ==
    /\ Ready(c, "write", "reserved")
    /\ \/ /\ LoopIsFree /\ Present(req[c].run)
          /\ guard' = req[c].run /\ claim' = req[c].run
          /\ Goes(c, "owned")
       \/ Releases(c, "refused") /\ UNCHANGED <<guard, claim>>
    /\ UNCHANGED <<registry, server, row, task, waits>>

\* The driver calls, then the release of the guard, whatever they returned; a
\* release that fails leaves the claim.
WriteConstants(c) ==
    /\ Ready(c, "write", "owned")
    /\ DropsGuard(req[c].run)
    /\ MayReleaseClaim(req[c].run)
    /\ \E s \in {"ok", "refused"} : Releases(c, s)
    /\ UNCHANGED <<registry, server, row, task, waits>>

ReleaseReservation(c) ==
    /\ Ready(c, "write", "release")
    /\ ReleaseRun(req[c].run)
    /\ Goes(c, "done")
    /\ UNCHANGED <<server, row, task, waits, guard, claim>>

-----------------------------------------------------------------------------
(* GET /api/runs/{id}/stream *)

\* One round of the loop: the outcome first ...
PollRun(c) ==
    /\ Ready(c, "stream", "poll")
    /\ LET r == req[c].run IN
         req' = [req EXCEPT ![c].pc = "samples",
                     ![c].seen = Outcome(r)]
    /\ UNCHANGED <<registry, server, row, task, waits, guard, claim>>

\* Mutant: a finished run is not asked for samples any more.
PollSamplesWhileRunning(c) ==
    /\ Ready(c, "stream", "samples")
    /\ LET r == req[c].run IN
         req' = [req EXCEPT ![c].last = IF req[c].seen = "running" THEN row[r].samples ELSE @,
                            ![c].pc = IF req[c].seen = "over" THEN "done" ELSE "poll",
                            ![c].status = IF req[c].seen = "over" THEN "ok" ELSE "none"]
    /\ UNCHANGED <<registry, server, row, task, waits, guard, claim>>

\* ... then the samples after the last one sent, then done when the outcome
\* was terminal, and a sleep when it was not.  The samples of a deleted run
\* are gone with it.
PollSamples(c) ==
    /\ Ready(c, "stream", "samples")
    /\ LET r == req[c].run IN
         req' = [req EXCEPT ![c].last = IF Present(r) THEN row[r].samples ELSE @,
                            ![c].pc = IF req[c].seen = "over" THEN "done" ELSE "poll",
                            ![c].status = IF req[c].seen = "over" THEN "ok" ELSE "none"]
    /\ UNCHANGED <<registry, server, row, task, waits, guard, claim>>

\* A client that goes away: the handler's future is dropped where it is.  Its
\* guard gives back the OS lock; nothing gives back the reservation, the
\* owner row or the row of a run that was being prepared.
Disconnect(c) ==
    /\ Alive /\ req[c].pc \notin {"idle", "done", "dropped"}
    /\ Goes(c, "dropped")
    /\ IF \/ At(c, "start", "connect") \/ At(c, "start", "register")
          \/ At(c, "write", "owned")
       THEN DropsGuard(req[c].run) ELSE UNCHANGED guard
    /\ UNCHANGED <<registry, server, row, task, waits, claim>>

-----------------------------------------------------------------------------
(* Background tasks *)

Busy(r, state) == Alive /\ task[r] = state

\* The initial readings and the transition to Manual: driver calls that know
\* neither Ctrl+C nor a deadline.
TestStarts(r) ==
    /\ Busy(r, "preparing")
    /\ task' = [task EXCEPT ![r] = "polling"]
    /\ UNCHANGED <<registry, server, row, waits, guard, claim, req>>

\* A polling tick records a sample.
Tick(r) ==
    /\ Busy(r, "polling") /\ row[r].samples < MaxTick
    /\ row' = [row EXCEPT ![r].samples = @ + 1]
    /\ UNCHANGED <<registry, server, task, waits, guard, claim, req>>

\* The test ends by itself, after however long, or does not come about.
TestEnds(r) ==
    /\ Busy(r, "preparing") \/ Busy(r, "polling")
    /\ task' = [task EXCEPT ![r] = "restoring"]
    /\ UNCHANGED <<registry, server, row, waits, guard, claim, req>>

\* Mutant: the handle is only looked at after a sample was recorded.
ObserveCancelWithSample(r) ==
    /\ Busy(r, "polling") /\ r \in cancelled
    /\ row[r].samples < MaxTick
    /\ row' = [row EXCEPT ![r].samples = @ + 1]
    /\ task' = [task EXCEPT ![r] = "restoring"]
    /\ UNCHANGED <<registry, server, waits, guard, claim, req>>

\* The polling loop's select! sees the triggered handle.
ObserveCancel(r) ==
    /\ Busy(r, "polling") /\ r \in cancelled
    /\ task' = [task EXCEPT ![r] = "restoring"]
    /\ UNCHANGED <<registry, server, row, waits, guard, claim, req>>

\* The restore ends and the outcome is recorded.  When that fails, and `fail`
\* after it, drive() returns with the row running and the loop claimed.
RecordOutcome(r) ==
    /\ Busy(r, "restoring")
    /\ \/ /\ task' = [task EXCEPT ![r] = "recorded"]
          /\ \E o \in Terminal :
                /\ o = "aborted" => r \in cancelled
                /\ row' = [row EXCEPT ![r].outcome = o]
          /\ UNCHANGED guard
       \/ /\ task' = [task EXCEPT ![r] = "returned"]
          /\ DropsGuard(r)
          /\ UNCHANGED row
    /\ UNCHANGED <<registry, server, waits, claim, req>>

\* The write-back, whose error still turns the outcome of the run into
\* "failed"; then drive() releases the ownership, which may fail and does when
\* the owner row went with the run, and returns.
DriveReturns(r) ==
    /\ Busy(r, "recorded")
    /\ task' = [task EXCEPT ![r] = "returned"]
    /\ \/ UNCHANGED row
       \/ Present(r) /\ row' = [row EXCEPT ![r].outcome = "failed"]
    /\ DropsGuard(r)
    /\ MayReleaseClaim(r)
    /\ UNCHANGED <<registry, server, waits, req>>

\* A panic of the task records and releases nothing.
TaskPanics(r) ==
    /\ \E state \in {"preparing", "polling", "restoring", "recorded"} : Busy(r, state)
    /\ task' = [task EXCEPT ![r] = "returned"]
    /\ DropsGuard(r)
    /\ UNCHANGED <<registry, server, row, waits, claim, req>>

\* The watcher spawned by ActiveRun::start.
WatcherReleases(r) ==
    /\ Busy(r, "returned")
    /\ task' = [task EXCEPT ![r] = "over"]
    /\ ReleaseRun(r)
    /\ UNCHANGED <<server, row, waits, guard, claim, req>>

-----------------------------------------------------------------------------
(* Shutdown *)

Shutdown ==
    /\ server = "up"
    /\ server' = "draining"
    /\ UNCHANGED <<registry, row, task, waits, guard, claim, req>>

Drained == \A c \in Client : req[c].pc \in {"idle", "done", "dropped"}

\* Mutant: the runs are cancelled as soon as the signal arrives.
CancelBeforeDrained ==
    /\ server = "draining"
    /\ server' = "waiting"
    /\ waits' = tasks
    /\ CancelAll
    /\ UNCHANGED <<row, task, guard, claim, req>>

\* serve_http: only when every connection is drained are the runs cancelled.
CancelRuns ==
    /\ server = "draining" /\ Drained
    /\ server' = "waiting"
    /\ waits' = tasks
    /\ CancelAll
    /\ UNCHANGED <<row, task, guard, claim, req>>

\* The process exits when every watcher has returned, or after the grace
\* period.
Exit ==
    /\ server = "waiting"
    /\ server' = IF \A r \in waits : task[r] = "over" THEN "down" ELSE "abandoned"
    /\ UNCHANGED <<registry, row, task, waits, guard, claim, req>>

-----------------------------------------------------------------------------

Handler(c) ==
    \/ StartRun(c) \/ InsertRow(c) \/ TakeLoop(c) \/ ConnectDriver(c) \/ RegisterTask(c)
    \/ LookUp(c) \/ Cancel(c) \/ UpdateNotes(c) \/ Delete(c)
    \/ ReserveForWrite(c) \/ AcquireForWrite(c) \/ WriteConstants(c) \/ ReleaseReservation(c)
    \/ PollRun(c) \/ PollSamples(c) \/ QueryFails(c)

Task(r) ==
    \/ TestStarts(r) \/ Tick(r) \/ TestEnds(r) \/ ObserveCancel(r) \/ RecordOutcome(r)
    \/ DriveReturns(r) \/ TaskPanics(r) \/ WatcherReleases(r)

Next ==
    \/ \E c \in Client : Handler(c) \/ Disconnect(c)
    \/ \E r \in Run : Task(r) \/ Retention(r)
    \/ Shutdown \/ CancelRuns \/ Exit

Spec == Init /\ [][Next]_vars

\* The runtime polls every task and every handler that is ready, and the
\* database answers or fails.  Fair is only what the code itself bounds: a task
\* in its polling loop looks at its handle, and one that restores ends within
\* the restore deadline and records, or fails to.  A driver call before the
\* test or in the write-back may never return, nor may one of a handler; a
\* client need not send, wait or leave, the operator need not stop the server.
LocalStep(c) ==
    /\ req[c].pc # "idle"
    /\ \/ RegisterTask(c) \/ Cancel(c) \/ UpdateNotes(c) \/ Delete(c)
       \/ ReserveForWrite(c) \/ AcquireForWrite(c) \/ ReleaseReservation(c)
       \/ PollRun(c) \/ PollSamples(c) \/ QueryFails(c)
FairSpec ==
    /\ Spec
    /\ \A r \in Run : WF_vars(ObserveCancel(r) \/ RecordOutcome(r))
    /\ \A c \in Client : WF_vars(LocalStep(c))

-----------------------------------------------------------------------------
(* Properties *)

Driving(r) == task[r] \in {"preparing", "polling", "restoring", "recorded"}

\* A PID write or revert never runs while a tune of this server does, although
\* starts are checked twice with a whole preparation between the checks, and
\* although clients leave at any point.
WriteExcludesTunes ==
    (\E c \in Client : At(c, "write", "owned") \/ At(c, "write", "reserved")) =>
        \A r \in Run : ~Driving(r)

\* Who may call the driver of the loop: a live task before it returns, a start
\* that took the loop, and a write that owns it.
LoopUsers ==
    {<<"task", r>> : r \in {q \in Live : Driving(q)}} \cup
    {<<"start", c>> : c \in {d \in Client :
        req[d].run \in Live /\ (At(d, "start", "connect") \/ At(d, "start", "register"))}} \cup
    {<<"write", c>> : c \in {d \in Client : At(d, "write", "owned")}}

\* The loop has one user at a time, although a deletion takes the claim away
\* under a user that still drives it, although clients leave with the loop in
\* hand, and whatever fails to be recorded or released.
OneUserOfTheLoop == \A u, v \in LoopUsers : u = v

\* Both exclusions: that of the registry, which knows simulated runs too, and
\* that of the lock, which knows no claim of a deleted run (ActiveRun::reserve,
\* LiveOperationGuard::acquire).
LoopIsExclusive == WriteExcludesTunes /\ OneUserOfTheLoop

\* The claim of a run outlives it: no step gives it up while the run is still
\* shown as running, be it a failed preparation, a client that leaves, a
\* refused registration, an outcome that cannot be recorded or a panic, so
\* that the next startup finds the owner of every live run left behind.
ClaimOutlivesRun ==
    [][\A r \in Run : claim = r /\ claim' # r => row'[r].outcome # "running"]_vars

\* The event stream of a run ends with every sample sent: a done event comes
\* after the last sample the run ever recorded, unless the run was deleted
\* meanwhile.
DoneFollowsLastSample ==
    \A c \in Client : LET r == req[c].run IN
        At(c, "stream", "done") /\ req[c].status = "ok" /\ Present(r) =>
            req[c].last = row[r].samples

\* Shutdown abandons no task: a process that exits within the grace period has
\* seen the end of every task it started, the ones too that were being prepared
\* when the signal arrived.
ShutdownEndsEveryRun ==
    server = "down" => \A r \in Run : task[r] \in {"none", "over"}

\* A test whose handle was triggered ends, however long it would have run, and
\* its restore after it, while the process lives.  Before the test a driver
\* call that hangs knows of no handle.
CancelTakesEffect ==
    \A r \in Run : (r \in cancelled /\ task[r] = "polling") ~>
                      (task[r] \notin {"polling", "restoring"} \/ ~Alive)

\* Refuted, see the README. Stated by cancel_run: 204 means cancellation was
\* requested, or the run was already inactive.
CancelledRunEnds ==
    \A c \in Client, r \in Run :
        At(c, "cancel", "done") /\ req[c].status = "ok" /\ req[c].run = r
            ~> (row[r].outcome # "running" \/ ~Alive)

\* Refuted, see the README. Stated by stream_run: once the run is not running
\* any more, one final done event, after which the connection closes.
StreamEnds ==
    \A c \in Client, r \in Run :
        At(c, "stream", "poll") /\ req[c].run = r /\ row[r].outcome # "running"
            ~> (req[c].pc \in {"done", "dropped"} \/ ~Alive)

\* Refuted, see the README. Stated by reserve_connect_and_write: the
\* reservation is released on every exit path.
ReservationIsReturned ==
    \A r \in Run : (exclusive = r) ~> (exclusive # r \/ ~Alive)
=============================================================================
