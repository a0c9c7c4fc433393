----------------------------- MODULE DemoServer -----------------------------
(***************************************************************************)
(* The server in Demo mode: anonymous visitors start simulated runs under  *)
(* quotas (bhtune-server routes/demo, state.rs; bhtune-db                  *)
(* demo_sessions.rs and the Demo queries of tune_runs.rs).                 *)
(*                                                                         *)
(* A start passes an admission mutex, two run permits, two windows of      *)
(* accepted starts, the row limits and the database's triggers.  The       *)
(* router's timeout, or a visitor who leaves, drops a handler at any await.*)
(* A request uses one id of Req, which also names its accepted-start slot. *)
(* Samples and the engine are RunServer's and TunePoll's.                  *)
(***************************************************************************)
EXTENDS ActiveRun, Integers, FiniteSets

CONSTANTS
    Req,        \* requests
    Visitor,    \* token hashes
    Ip,         \* quota keys of client addresses
    Proxy,      \* the configured trusted proxy, an element of Ip
    \* DemoPolicy
    GlobalRuns, VisitorRuns, GlobalStreams, VisitorStreams, Ordinary,
    TokenStarts, IpStarts, Window, SessionTtl, Retained, SessionRuns, GlobalRows,
    \* bounds
    MaxTime, MaxSession, MaxRestarts

ASSUME DemoConstants ==
    /\ Run \subseteq Nat /\ IsFiniteSet(Run) /\ IsFiniteSet(Req)
    /\ None \notin Run \cup Visitor \cup Ip \cup Req /\ Proxy \in Ip
    /\ {GlobalRuns, VisitorRuns, GlobalStreams, VisitorStreams, Retained, GlobalRows} \subseteq Nat
    /\ {SessionRuns, SessionTtl, Window, MaxSession} \subseteq Nat \ {0}
    /\ {MaxTime, MaxRestarts} \subseteq Nat
    /\ Retained <= SessionRuns

VARIABLES
    now,        \* the clock
    session,    \* demo_sessions by token hash; id 0 is no row
    lastId,     \* AUTOINCREMENT of demo_sessions
    row,        \* tune_runs
    task,       \* background tasks
    admission,  \* holder of the start_admission mutex
    byToken,    \* accepted starts of each token
    byIp,       \* accepted starts of each client address
    runSem,     \* visitor_run_permits: the entry, and who holds its permits
    streamSem,  \* visitor_sse_permits
    globalRun,  \* holders of run_permits
    req,        \* the requests
    restarts

windows == <<byToken, byIp>>
permits == <<runSem, streamSem, globalRun>>
database == <<session, lastId, row>>
vars == <<registry, now, database, task, admission, windows, permits, req, restarts>>

-----------------------------------------------------------------------------
(* Types *)

Slot == [id: Req, at: 0..MaxTime]
Semaphore == [entry: BOOLEAN, held: SUBSET Req]
Kinds == {"none", "start", "read", "cancel", "delete", "stream"}
ReqRec == [kind: Kinds, visitor: Visitor \cup {None}, ip: Ip \cup {None},
           run: Run \cup {None}, owner: 0..MaxSession, at: 0..MaxTime,
           pc: {"idle", "admit", "reserve", "clean", "session", "insert",
                "register", "detail", "found", "poll", "done", "dropped"},
           status: {"none", "ok", "refused"}]

TypeOK ==
    /\ RegistryTypeOK
    /\ now \in 0..MaxTime /\ lastId \in 0..MaxSession /\ restarts \in 0..MaxRestarts
    /\ session \in [Visitor -> [id: 0..MaxSession, expires: 0..(MaxTime + SessionTtl)]]
    /\ row \in [Run -> [owner: 0..MaxSession,
                        outcome: {"absent", "running", "completed", "failed", "aborted", "deleted"}]]
    /\ task \in [Run -> {"none", "driving", "driven"}]
    /\ admission \in Req \cup {None}
    /\ byToken \in [Visitor -> SUBSET Slot] /\ byIp \in [Ip -> SUBSET Slot]
    /\ runSem \in [Visitor -> Semaphore] /\ streamSem \in [Visitor -> Semaphore]
    /\ globalRun \subseteq Req
    /\ req \in [Req -> ReqRec]

NoSession == [id |-> 0, expires |-> 0]
Fresh == [entry |-> FALSE, held |-> {}]
Rest == [kind |-> "none", visitor |-> None, ip |-> None, run |-> None, owner |-> 0,
         at |-> 0, pc |-> "idle", status |-> "none"]

\* One visitor may come back with a finished run of an earlier process.
Init ==
    /\ RegistryInit
    /\ now = 0 /\ lastId = 1 /\ restarts = 0
    /\ \E v \in Visitor, o \in {"absent", "completed"} :
         /\ session = [w \in Visitor |->
                         IF w = v THEN [id |-> 1, expires |-> SessionTtl] ELSE NoSession]
         /\ row = [r \in Run |-> IF r = 1 THEN [owner |-> 1, outcome |-> o]
                                          ELSE [owner |-> 0, outcome |-> "absent"]]
    /\ task = [r \in Run |-> "none"]
    /\ admission = None
    /\ byToken = [v \in Visitor |-> {}] /\ byIp = [i \in Ip |-> {}]
    /\ runSem = [v \in Visitor |-> Fresh] /\ streamSem = [v \in Visitor |-> Fresh]
    /\ globalRun = {}
    /\ req = [c \in Req |-> Rest]

-----------------------------------------------------------------------------
(* demo_sessions and the Demo rows of tune_runs *)

Present(r) == row[r].outcome \notin {"absent", "deleted"}
Terminal(rows, r) == rows[r].outcome \notin {"absent", "deleted", "running"}

\* get_by_token_hash: an expired row is no row.
Valid(v, t) == session[v].id # 0 /\ session[v].expires > t

\* get_for_demo_session
Owned(r, owner) == Present(r) /\ row[r].owner = owner

CountOwned(owner) == Cardinality({r \in Run : Owned(r, owner)})
CountDemoOwned == Cardinality({r \in Run : Present(r)})

Without(rows, rs) == [r \in Run |-> IF r \in rs THEN [rows[r] EXCEPT !.outcome = "deleted"]
                                                ELSE rows[r]]

\* prune_terminal_for_demo_session: what is older than the newest Retained.
Excess(rows, owner) ==
    LET own == {r \in Run : Terminal(rows, r) /\ rows[r].owner = owner}
    IN {r \in own : Cardinality({q \in own : q > r}) >= Retained}

\* prune_terminal_demo_owned
ExcessOfAll(rows) == UNION {Excess(rows, o) : o \in 1..MaxSession}

\* Mutant: every expired session goes, with everything it owns.
ExpiredWithRuns(t) == {v \in Visitor : session[v].id # 0 /\ session[v].expires <= t}

\* cleanup_expired: a session with a running run stays.
Expired(t) ==
    {v \in Visitor : /\ session[v].id # 0 /\ session[v].expires <= t
                     /\ ~\E r \in Run : row[r].owner = session[v].id /\ row[r].outcome = "running"}
\* The rows of a removed session go by ON DELETE CASCADE.
CleanUpExpired(rows, gone) ==
    LET cascaded == {r \in Run : Present(r) /\ \E v \in gone : rows[r].owner = session[v].id}
    IN /\ session' = [v \in Visitor |-> IF v \in gone THEN NoSession ELSE session[v]]
       /\ row' = Without(rows, cascaded \cup ExcessOfAll(rows))
       /\ UNCHANGED lastId

-----------------------------------------------------------------------------
(* DemoRuntime: windows of accepted starts, permits *)

\* prune_start_windows.  A window is in the order of its starts, since each
\* was timed under the admission mutex: what is popped is what is too old.
Pruned(starts, t) == {s \in starts : s.at > t - Window}
PruneWindows(t) ==
    /\ byToken' = [v \in Visitor |-> Pruned(byToken[v], t)]
    /\ byIp' = [i \in Ip |-> Pruned(byIp[i], t)]

\* quota_retry_after, on the windows reserve_accepted_start has just pruned.
QuotaExceeded(v, i, t) ==
    \/ Cardinality(Pruned(byToken[v], t)) >= TokenStarts
    \/ Cardinality(Pruned(byIp[i], t)) >= IpStarts

Unslotted(starts, c) == {s \in starts : s.id # c}

\* Mutant: the slot is given back by its place in the window.
ReleaseOldest(c) ==
    /\ byToken' = [byToken EXCEPT ![req[c].visitor] = Unslotted(@, c)]
    /\ byIp' = [byIp EXCEPT ![req[c].ip] = {s \in @ : \E q \in @ : q.at < s.at}]

\* release_accepted_start: by id, in both windows, pruned meanwhile or not.
ReleaseAccepted(c) ==
    /\ byToken' = [byToken EXCEPT ![req[c].visitor] = Unslotted(@, c)]
    /\ byIp' = [byIp EXCEPT ![req[c].ip] = Unslotted(@, c)]

\* Mutant: the map is emptied of every visitor but the caller.
RetainNone(sem) == [v \in Visitor |-> Fresh]

\* retain_active_visitor_semaphores: an entry goes when no permit of it is
\* out (a permit holds a reference to its semaphore).
RetainActive(sem) == [v \in Visitor |-> IF sem[v].held = {} THEN Fresh ELSE sem[v]]

\* visitor_semaphore and try_acquire_owned.
Available(sem, v, limit) == Cardinality(RetainActive(sem)[v].held) < limit
Entered(sem, v) == [RetainActive(sem) EXCEPT ![v].entry = TRUE]
Acquired(sem, v, c) ==
    [RetainActive(sem) EXCEPT ![v] = [entry |-> TRUE, held |-> @.held \cup {c}]]
Returned(sem, c) == [v \in Visitor |-> [sem[v] EXCEPT !.held = @ \ {c}]]

-----------------------------------------------------------------------------
(* Requests *)

At(c, k, pc) == req[c].kind = k /\ req[c].pc = pc
InHandler(c) == req[c].pc \notin {"idle", "done", "dropped"}
Goes(c, pc) == req' = [req EXCEPT ![c].pc = pc]
Over(status) == [Rest EXCEPT !.pc = "done", !.status = status]
Answers(c, status) == req' = [req EXCEPT ![c] = Over(status)]

\* ordinary_request_permit: held while the handler lives.
OrdinaryFree == Cardinality({c \in Req : InHandler(c) /\ req[c].kind # "stream"}) < Ordinary

\* client_ip: the forwarded address counts only from the trusted proxy, and
\* only when it is one well-formed address.
ClientIp(peer, forwarded) ==
    IF peer = Proxy /\ forwarded # None THEN forwarded ELSE peer

\* start_run: the body is parsed and validated, the permit taken and the
\* cookie read before anything else.
StartRun(c) ==
    /\ req[c].pc = "idle"
    /\ \E v \in Visitor :
         \/ Answers(c, "refused")
         \/ /\ OrdinaryFree
            /\ \E peer \in Ip, forwarded \in Ip \cup {None} :
                 req' = [req EXCEPT ![c].kind = "start", ![c].visitor = v, ![c].pc = "admit",
                                    ![c].ip = ClientIp(peer, forwarded)]
    /\ UNCHANGED <<registry, now, database, task, admission, windows, permits, restarts>>

\* Mutant: the permits alone are trusted to serialize starts.
AdmitAtOnce(c) ==
    /\ At(c, "start", "admit")
    /\ LET v == req[c].visitor IN
       /\ Cardinality(globalRun) < GlobalRuns /\ Available(runSem, v, VisitorRuns)
       /\ runSem' = Acquired(runSem, v, c)
       /\ globalRun' = globalRun \cup {c}
       /\ Goes(c, "reserve")
    /\ UNCHANGED <<registry, now, database, task, admission, windows, streamSem, restarts>>

\* lock_start_admission, then the global and the visitor's run permit.
Admit(c) ==
    /\ At(c, "start", "admit") /\ admission = None
    /\ LET v == req[c].visitor IN
       \/ /\ Cardinality(globalRun) >= GlobalRuns
          /\ Answers(c, "refused") /\ UNCHANGED <<runSem, globalRun, admission>>
       \/ /\ Cardinality(globalRun) < GlobalRuns /\ ~Available(runSem, v, VisitorRuns)
          /\ runSem' = Entered(runSem, v)
          /\ Answers(c, "refused") /\ UNCHANGED <<globalRun, admission>>
       \/ /\ Cardinality(globalRun) < GlobalRuns /\ Available(runSem, v, VisitorRuns)
          /\ runSem' = Acquired(runSem, v, c)
          /\ globalRun' = globalRun \cup {c}
          /\ admission' = c
          /\ Goes(c, "reserve")
    /\ UNCHANGED <<registry, now, database, task, windows, streamSem, restarts>>

\* What a handler that ends gives back by dropping its locals.
DropsLocals(c) ==
    /\ runSem' = Returned(runSem, c)
    /\ globalRun' = globalRun \ {c}
    /\ admission' = IF admission = c THEN None ELSE admission
    /\ UNCHANGED streamSem

\* reserve_accepted_start
ReserveStart(c) ==
    /\ At(c, "start", "reserve")
    /\ LET v == req[c].visitor
           i == req[c].ip
           slot == [id |-> c, at |-> now] IN
       \/ /\ QuotaExceeded(v, i, now)
          /\ PruneWindows(now) /\ DropsLocals(c) /\ Answers(c, "refused")
       \/ /\ ~QuotaExceeded(v, i, now)
          /\ byToken' = [w \in Visitor |-> Pruned(byToken[w], now) \cup
                                           IF w = v THEN {slot} ELSE {}]
          /\ byIp' = [j \in Ip |-> Pruned(byIp[j], now) \cup
                                   IF j = i THEN {slot} ELSE {}]
          /\ req' = [req EXCEPT ![c].pc = "clean", ![c].at = now]
          /\ UNCHANGED <<permits, admission>>
    /\ UNCHANGED <<registry, now, database, task, restarts>>

\* A preparation that fails returns the slot before anything else is dropped.
Abandons(c, status) == ReleaseAccepted(c) /\ DropsLocals(c) /\ Answers(c, status)
Keeps == UNCHANGED <<windows, permits, admission>>

\* On-demand cleanup and ensure_global_run_capacity, with the time read
\* before the slot was taken.
CleanUp(c) ==
    /\ At(c, "start", "clean")
    /\ CleanUpExpired(row, Expired(req[c].at))
    /\ \/ Cardinality({r \in Run : Present(r)'}) >= GlobalRows /\ Abandons(c, "refused")
       \/ Cardinality({r \in Run : Present(r)'}) < GlobalRows /\ Goes(c, "session") /\ Keeps
    /\ UNCHANGED <<registry, now, task, restarts>>

\* get_by_token_hash or get_or_create; trim_owned_history; the session's limit.
\* An expired row that is still there is never revived.
TakeSession(c) ==
    /\ At(c, "start", "session")
    /\ LET v == req[c].visitor
           t == req[c].at
           owner == session[v].id IN
       \/ /\ session[v].id # 0 /\ ~Valid(v, t)
          /\ Abandons(c, "refused") /\ UNCHANGED database
       \/ /\ session[v].id = 0 /\ lastId < MaxSession
          /\ lastId' = lastId + 1
          /\ session' = [session EXCEPT ![v] = [id |-> lastId + 1, expires |-> t + SessionTtl]]
          /\ req' = [req EXCEPT ![c].pc = "insert", ![c].owner = lastId + 1]
          /\ Keeps /\ UNCHANGED row
       \/ /\ Valid(v, t)
          /\ row' = Without(row, Excess(row, owner))
          /\ IF CountOwned(owner) - Cardinality(Excess(row, owner)) >= SessionRuns THEN Abandons(c, "refused")
             ELSE req' = [req EXCEPT ![c].pc = "insert", ![c].owner = owner] /\ Keeps
          /\ UNCHANGED <<session, lastId>>
    /\ UNCHANGED <<registry, now, task, restarts>>

\* AUTOINCREMENT of tune_runs.
NewRuns == {r \in Run : row[r].outcome = "absent" /\ \A q \in Run : q < r => row[q].outcome # "absent"}

ActiveSession(owner) == \E v \in Visitor : session[v].id = owner /\ Valid(v, now)

\* prepare_owned: the triggers refuse the row, the metadata fails it, or the
\* run is ready to be driven.
PrepareOwned(c) ==
    /\ At(c, "start", "insert")
    /\ \/ /\ CountDemoOwned >= GlobalRows \/ ~ActiveSession(req[c].owner)
          /\ Abandons(c, "refused") /\ UNCHANGED row
       \/ /\ CountDemoOwned < GlobalRows /\ ActiveSession(req[c].owner)
          /\ \E r \in NewRuns, o \in {"running", "failed"} :
               /\ row' = [row EXCEPT ![r] = [owner |-> req[c].owner, outcome |-> o]]
               /\ IF o = "failed" THEN Abandons(c, "refused")
                  ELSE req' = [req EXCEPT ![c].pc = "register", ![c].run = r] /\ Keeps
    /\ UNCHANGED <<registry, now, session, lastId, task, restarts>>

\* A statement of the preparation fails.
PreparationFails(c) ==
    /\ \E pc \in {"clean", "session", "insert"} : At(c, "start", pc)
    /\ Abandons(c, "refused")
    /\ UNCHANGED <<registry, now, database, task, restarts>>

\* ActiveRun::start: the permits move into the task.
RegisterRun(c) ==
    /\ At(c, "start", "register")
    /\ IF StartAllowed(req[c].run)
       THEN /\ StartTask(req[c].run)
            /\ task' = [task EXCEPT ![req[c].run] = "driving"]
            /\ Goes(c, "detail") /\ Keeps /\ UNCHANGED row
       ELSE /\ row' = Without(row, {req[c].run})
            /\ Abandons(c, "refused") /\ UNCHANGED <<registry, task>>
    /\ UNCHANGED <<now, session, lastId, restarts>>

\* build_owned_run_detail: the run may have ended and be deleted by now.
AnswerDetail(c) ==
    /\ At(c, "start", "detail")
    /\ req' = [req EXCEPT ![c].pc = "done",
                  ![c].status = IF Owned(req[c].run, req[c].owner) THEN "ok" ELSE "refused"]
    /\ admission' = IF admission = c THEN None ELSE admission
    /\ UNCHANGED <<registry, now, database, task, windows, permits, restarts>>

\* list_runs, get_run, last_request, export_run, cancel_run, delete_run and
\* stream_run: identify and owner_id.  A visitor without a session has no runs.
LookUp(c) ==
    /\ req[c].pc = "idle"
    /\ \E k \in {"read", "cancel", "delete", "stream"}, v \in Visitor, r \in Run :
         /\ row[r].outcome # "absent"
         /\ IF \/ k # "stream" /\ ~OrdinaryFree
               \/ ~Valid(v, now) \/ ~Owned(r, session[v].id) THEN Answers(c, "refused")
            ELSE req' = [req EXCEPT ![c].kind = k, ![c].visitor = v, ![c].pc = "found",
                            ![c].run = r, ![c].owner = session[v].id]
    /\ UNCHANGED <<registry, now, database, task, admission, windows, permits, restarts>>

\* The queries of a read-only handler, each scoped to the owner.
ReadRun(c) ==
    /\ At(c, "read", "found")
    /\ Answers(c, IF Owned(req[c].run, req[c].owner) THEN "ok" ELSE "refused")
    /\ UNCHANGED <<registry, now, database, task, admission, windows, permits, restarts>>

CancelOwned(c) ==
    /\ At(c, "cancel", "found")
    /\ IF Owned(req[c].run, req[c].owner)
       THEN /\ IF row[req[c].run].outcome = "running" THEN CancelRun(req[c].run)
                                                      ELSE UNCHANGED registry
            /\ Answers(c, "ok")
       ELSE Answers(c, "refused") /\ UNCHANGED registry
    /\ UNCHANGED <<now, database, task, admission, windows, permits, restarts>>

DeleteOwned(c) ==
    /\ At(c, "delete", "found")
    /\ LET r == req[c].run IN
       IF ~Owned(r, req[c].owner) THEN Answers(c, "refused") /\ UNCHANGED row
       ELSE IF row[r].outcome = "running" THEN Answers(c, "refused") /\ UNCHANGED row
       ELSE Answers(c, "ok") /\ row' = Without(row, {r})
    /\ UNCHANGED <<registry, now, session, lastId, task, admission, windows, permits, restarts>>

-----------------------------------------------------------------------------
(* Event streams *)

OpenStreams == {c \in Req : At(c, "stream", "poll")}

\* The global, then the visitor's stream permit.
OpenStream(c) ==
    /\ At(c, "stream", "found")
    /\ LET v == req[c].visitor IN
       \/ Cardinality(OpenStreams) >= GlobalStreams /\ Answers(c, "refused") /\ UNCHANGED streamSem
       \/ /\ Cardinality(OpenStreams) < GlobalStreams /\ ~Available(streamSem, v, VisitorStreams)
          /\ streamSem' = Entered(streamSem, v) /\ Answers(c, "refused")
       \/ /\ Cardinality(OpenStreams) < GlobalStreams /\ Available(streamSem, v, VisitorStreams)
          /\ streamSem' = Acquired(streamSem, v, c) /\ Goes(c, "poll")
    /\ UNCHANGED <<registry, now, database, task, admission, windows, runSem, globalRun, restarts>>

Closes(c, status) ==
    /\ Answers(c, status)
    /\ streamSem' = Returned(streamSem, c)
    /\ UNCHANGED <<registry, now, database, task, admission, windows, runSem, globalRun, restarts>>

\* A poll that ends the stream: the run is gone, or not running any more.
PollStream(c) ==
    /\ At(c, "stream", "poll")
    /\ \/ ~Owned(req[c].run, req[c].owner) /\ Closes(c, "refused")
       \/ Owned(req[c].run, req[c].owner) /\ Terminal(row, req[c].run) /\ Closes(c, "ok")

\* Mutant: the lifetime is looked at only when a run has samples to send.
ExpireDriven(c) ==
    /\ At(c, "stream", "poll") /\ task[req[c].run] = "driving"
    /\ Closes(c, "refused")

\* The deadline passes: every await of the loop is bounded by it.
ExpireStream(c) ==
    /\ At(c, "stream", "poll")
    /\ Closes(c, "refused")

-----------------------------------------------------------------------------
(* Dropped handlers *)

\* The router's timeout, or the visitor's connection closes.  Until the task
\* has the permits they return; the slot and the row stay as they are.
Drop(c) ==
    /\ InHandler(c)
    /\ IF req[c].kind = "start" THEN Goes(c, "dropped") ELSE Answers(c, "refused")
    /\ IF At(c, "start", "detail") THEN UNCHANGED <<runSem, globalRun>>
       ELSE runSem' = Returned(runSem, c) /\ globalRun' = globalRun \ {c}
    /\ streamSem' = Returned(streamSem, c)
    /\ admission' = IF admission = c THEN None ELSE admission
    /\ UNCHANGED <<registry, now, database, task, windows, restarts>>

-----------------------------------------------------------------------------
(* Tasks, the cleanup loop, time, restarts *)

\* drive() returns with the outcome recorded; a triggered handle aborts it.
DriveEnds(r) ==
    /\ task[r] = "driving"
    /\ task' = [task EXCEPT ![r] = "driven"]
    /\ \E o \in {"completed", "failed", "aborted"} :
         /\ r \in cancelled => o = "aborted"
         /\ o = "aborted" => r \in cancelled
         /\ row' = [row EXCEPT ![r].outcome = o]
    /\ UNCHANGED <<registry, now, session, lastId, admission, windows, permits, req, restarts>>

Starter(r) == CHOOSE c \in Req : req[c].kind = "start" /\ req[c].run = r

\* trim_owned_history; the task's permits are dropped; the watcher releases
\* the registration.
TaskEnds(r) ==
    /\ task[r] = "driven"
    /\ task' = [task EXCEPT ![r] = "none"]
    /\ row' = Without(row, Excess(row, row[r].owner))
    /\ runSem' = Returned(runSem, Starter(r))
    /\ globalRun' = globalRun \ {Starter(r)}
    /\ ReleaseRun(r)
    /\ UNCHANGED <<now, session, lastId, admission, windows, streamSem, req, restarts>>

\* demo_cleanup_tick
CleanupTick ==
    /\ CleanUpExpired(row, Expired(now))
    /\ PruneWindows(now)
    /\ runSem' = RetainActive(runSem) /\ streamSem' = RetainActive(streamSem)
    /\ UNCHANGED <<registry, now, task, admission, globalRun, req, restarts>>

Advance ==
    /\ now < MaxTime /\ now' = now + 1
    /\ UNCHANGED <<registry, database, task, admission, windows, permits, req, restarts>>

\* The process dies and starts again: recover_running_demo_runs, then a
\* cleanup of what that made terminal.
Recovered == [r \in Run |-> IF row[r].outcome = "running"
                            THEN [row[r] EXCEPT !.outcome = "failed"] ELSE row[r]]
Restart ==
    /\ restarts < MaxRestarts /\ restarts' = restarts + 1
    /\ tasks' = {} /\ exclusive' = None /\ cancelled' = {}
    /\ task' = [r \in Run |-> "none"]
    /\ admission' = None
    /\ byToken' = [v \in Visitor |-> {}] /\ byIp' = [i \in Ip |-> {}]
    /\ runSem' = [v \in Visitor |-> Fresh] /\ streamSem' = [v \in Visitor |-> Fresh]
    /\ globalRun' = {}
    /\ req' = [c \in Req |-> IF req[c].pc = "idle" THEN req[c] ELSE Over("refused")]
    /\ CleanUpExpired(Recovered, {v \in Visitor : session[v].id # 0 /\ session[v].expires <= now})
    /\ UNCHANGED now

-----------------------------------------------------------------------------

Handler(c) ==
    \/ StartRun(c) \/ Admit(c) \/ ReserveStart(c) \/ CleanUp(c) \/ TakeSession(c)
    \/ PrepareOwned(c) \/ PreparationFails(c) \/ RegisterRun(c) \/ AnswerDetail(c)
    \/ LookUp(c) \/ ReadRun(c) \/ CancelOwned(c) \/ DeleteOwned(c)
    \/ OpenStream(c) \/ PollStream(c) \/ ExpireStream(c)

Next ==
    \/ \E c \in Req : Handler(c) \/ Drop(c)
    \/ \E r \in Run : DriveEnds(r) \/ TaskEnds(r)
    \/ CleanupTick \/ Advance \/ Restart

Spec == Init /\ [][Next]_vars

\* A timer fires and the runtime polls what is ready; nothing makes a visitor
\* send or leave, or a test end early.
FairSpec ==
    /\ Spec
    /\ \A c \in Req : WF_vars(OpenStream(c) \/ PollStream(c) \/ ExpireStream(c))

-----------------------------------------------------------------------------
(* Properties *)

\* The runs of visitor v that are being admitted or driven.
Active(v) == {c \in Req : /\ req[c].kind = "start" /\ req[c].visitor = v
                          /\ \/ req[c].pc \in {"reserve", "clean", "session", "insert", "register"}
                             \/ req[c].run # None /\ task[req[c].run] # "none"}

\* The semaphores bound what is really active although their entries are
\* reclaimed while permits, handlers and tasks come and go: per visitor and in
\* all, runs and streams alike.
ActiveWithinLimits ==
    /\ \A v \in Visitor : /\ Cardinality(Active(v)) <= VisitorRuns
                          /\ Cardinality({c \in OpenStreams : req[c].visitor = v}) <= VisitorStreams
    /\ Cardinality(UNION {Active(v) : v \in Visitor}) <= GlobalRuns
    /\ Cardinality(OpenStreams) <= GlobalStreams

\* The row limits a start has checked still hold when it inserts its row, so
\* that no two starts share the last free row (lock_start_admission).
CapacityHeldUntilInsert ==
    \A c \in Req : At(c, "start", "insert") =>
        CountDemoOwned < GlobalRows /\ CountOwned(req[c].owner) < SessionRuns

\* No limit is passed, neither by what is active nor by the rows it leaves.
DemoLimitsHold == ActiveWithinLimits /\ CapacityHeldUntilInsert

\* A run that was scheduled in the current window is counted against its
\* token and its address until the window has passed, whatever other starts
\* were refused, abandoned or dropped; and the two windows agree.
ScheduledStartsCount ==
    \A c \in Req :
        /\ req[c].kind = "start" /\ req[c].visitor # None /\ req[c].ip # None
             => ((\E s \in byToken[req[c].visitor] : s.id = c)
                 <=> (\E s \in byIp[req[c].ip] : s.id = c))
        /\ req[c].run # None /\ task[req[c].run] # "none" /\ req[c].kind = "start"
              /\ req[c].at > now - Window
             => \E s \in byToken[req[c].visitor] : s.id = c

\* A run that is driven keeps its row and its session, however long the
\* session has expired and whichever cleanup ran.
DrivenKeepsSession ==
    \A r \in Run : task[r] = "driving" =>
        row[r].outcome = "running" /\ \E v \in Visitor : session[v].id = row[r].owner

\* What a visitor has started stays his: counted in his windows and kept by
\* his session while it is driven.
StartedRunsAreKept == ScheduledStartsCount /\ DrivenKeepsSession

\* Every event stream ends, those too of a run that nobody drives.
DemoStreamEnds ==
    \A c \in Req : At(c, "stream", "poll") ~> req[c].pc = "done"
=============================================================================
