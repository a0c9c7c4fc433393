-------------------------- MODULE RunServerProofs ---------------------------
(***************************************************************************)
(* Safety of one server process for any number of clients, runs and        *)
(* samples.                                                                *)
(*                                                                         *)
(* The argument follows a run through its life.  From the insert of its    *)
(* row to the start of its task at most one request has it in its hands;   *)
(* from then on the task is in the registry until the task has returned or *)
(* the shutdown has taken it out.  A reservation is only made over an      *)
(* empty registry and shuts it for tasks, and a run that was seen finished *)
(* can neither be driven nor gain samples any more.  Whoever may call the  *)
(* driver of the loop holds the lock of this process, under the number of  *)
(* its own run, and no two of them can be of one run.                      *)
(***************************************************************************)
EXTENDS RunServer, TLAPS

RowFields(o, n) == [outcome |-> o, samples |-> n]
ReqFields(k, r, p, s, l, n) ==
    [kind |-> k, run |-> r, pc |-> p, status |-> s, last |-> l, seen |-> n]

TablesOK ==
    /\ row = [r \in Run |-> row[r]]
    /\ \A r \in Run : row[r] = RowFields(row[r].outcome, row[r].samples)
    /\ task = [r \in Run |-> task[r]]
    /\ req = [c \in Client |-> req[c]]
    /\ \A c \in Client :
          req[c] = ReqFields(req[c].kind, req[c].run, req[c].pc, req[c].status, req[c].last,
                             req[c].seen)

\* A request that works on a run names one; a start has not looked at any.
RequestsOK ==
    \A c \in Client :
        /\ req[c].kind \notin {"none", "start"} /\ req[c].pc \notin {"done", "dropped"}
              => req[c].run \in Run
        /\ req[c].kind = "none" <=> req[c].pc = "idle"
        /\ req[c].kind \in {"none", "start"} => req[c].seen = "unknown"

\* The request that prepares a run.
Starting(c) == req[c].kind = "start" /\ req[c].pc \in {"own", "connect", "register"}

\* A run that is being prepared is shown as running, has no task yet, and is
\* in the hands of one request.
StartsOK ==
    \A c \in Client : Starting(c) =>
        /\ req[c].run \in Run
        /\ row[req[c].run].outcome = "running" /\ task[req[c].run] = "none"
        /\ \A d \in Client : Starting(d) /\ req[d].run = req[c].run => d = c

Unreturned == {"preparing", "polling", "restoring", "recorded", "returned"}

\* A task drives a running run until its outcome is recorded, and until the
\* shutdown every task that has not been watched to its end is registered.
TasksOK ==
    \A r \in Run :
        /\ task[r] \in TaskState
        /\ row[r].outcome \in Terminal \cup {"absent", "running", "deleted"}
        /\ task[r] \in {"preparing", "polling", "restoring"} => row[r].outcome = "running"
        /\ task[r] = "recorded" => row[r].outcome \in Terminal \cup {"deleted"}
        /\ row[r].outcome = "absent" => task[r] = "none"
        /\ server \in {"up", "draining"} /\ task[r] \in Unreturned => r \in tasks

\* The request that holds the reservation.
Writing(c) == req[c].kind = "write" /\ req[c].pc \in {"reserved", "owned", "release"}

\* The reservation excludes every task and every other reservation, and is
\* only given over a run that was seen finished.
ReservationOK ==
    /\ exclusive # None => tasks = {}
    /\ \A c \in Client : Writing(c) =>
          /\ exclusive = req[c].run /\ req[c].seen = "over"
          /\ \A d \in Client : Writing(d) => d = c

\* A run that was seen finished has not started again.
SeenOK ==
    \A c \in Client : req[c].seen = "over" =>
        /\ req[c].run \in Run
        /\ row[req[c].run].outcome \in Terminal \cup {"deleted"}

\* A stream that sent its done event had seen the run finished.
StreamsOK ==
    \A c \in Client :
        At(c, "stream", "done") /\ req[c].status = "ok" => req[c].seen = "over"

\* The request that has its run in hand, and may call the driver of the loop
\* unless it starts a simulated run.
Handling(c) ==
    At(c, "start", "connect") \/ At(c, "start", "register") \/ At(c, "write", "owned")
OnLoop(c) == Handling(c) /\ (req[c].kind = "start" => req[c].run \in Live)

\* Whoever may call the driver of the loop holds the lock for its run.
GuardOK ==
    /\ \A r \in Live : Driving(r) => guard = r
    /\ \A c \in Client : OnLoop(c) => guard = req[c].run

\* Past the drain no request is being served, and the shutdown waits for
\* every task there is.
ShutdownOK ==
    /\ server \in {"up", "draining", "waiting", "abandoned", "down"}
    /\ server \notin {"up", "draining"} => Drained
    /\ server = "waiting" => \A r \in Run : task[r] \in Unreturned => r \in waits

\* The inductive invariant.
IInv ==
    /\ TablesOK /\ RequestsOK /\ StartsOK /\ TasksOK /\ ReservationOK /\ SeenOK
    /\ StreamsOK /\ ShutdownOK
    /\ GuardOK /\ DoneFollowsLastSample /\ ShutdownEndsEveryRun

-----------------------------------------------------------------------------
(* What a step does to one row of a table.                                 *)

\* The request of c takes these fields and no other request changes.
ReqSet(c, k, r, p, s, l, n) ==
    /\ req' = [d \in Client |-> req'[d]]
    /\ req'[c] = ReqFields(k, r, p, s, l, n)
    /\ req'[c].kind = k /\ req'[c].run = r /\ req'[c].pc = p
    /\ req'[c].status = s /\ req'[c].last = l /\ req'[c].seen = n
    /\ \A d \in Client : d # c => req'[d] = req[d]

\* ... where only its place and its answer may be new.
Moves(c, p, s) == ReqSet(c, req[c].kind, req[c].run, p, s, req[c].last, req[c].seen)

RowSet(r, o, n) ==
    /\ row' = [q \in Run |-> row'[q]]
    /\ row'[r] = RowFields(o, n)
    /\ row'[r].outcome = o /\ row'[r].samples = n
    /\ \A q \in Run : q # r => row'[q] = row[q]

TaskSet(r, v) ==
    /\ task' = [q \in Run |-> task'[q]]
    /\ task'[r] = v
    /\ \A q \in Run : q # r => task'[q] = task[q]

LEMMA ReqStep ==
    ASSUME TablesOK, NEW c \in Client, NEW p, NEW s
    PROVE  /\ Goes(c, p) => Moves(c, p, req[c].status)
           /\ Answers(c, s) => Moves(c, "done", s)
           /\ Releases(c, s) => Moves(c, "release", s)
<1>1. ASSUME Goes(c, p) PROVE Moves(c, p, req[c].status)
  <2>1. /\ req' = [d \in Client |-> req'[d]]
        /\ \A d \in Client : d # c => req'[d] = req[d]
        /\ req'[c] = [req[c] EXCEPT !.pc = p]
    BY <1>1 DEF TablesOK, Goes
  <2> QED
    BY <2>1 DEF TablesOK, Moves, ReqSet, ReqFields
<1>2. ASSUME Answers(c, s) PROVE Moves(c, "done", s)
  <2>1. /\ req' = [d \in Client |-> req'[d]]
        /\ \A d \in Client : d # c => req'[d] = req[d]
        /\ req'[c] = [req[c] EXCEPT !.pc = "done", !.status = s]
    BY <1>2 DEF TablesOK, Answers
  <2> QED
    BY <2>1 DEF TablesOK, Moves, ReqSet, ReqFields
<1>3. ASSUME Releases(c, s) PROVE Moves(c, "release", s)
  <2>1. /\ req' = [d \in Client |-> req'[d]]
        /\ \A d \in Client : d # c => req'[d] = req[d]
        /\ req'[c] = [req[c] EXCEPT !.pc = "release", !.status = s]
    BY <1>3 DEF TablesOK, Releases
  <2> QED
    BY <2>1 DEF TablesOK, Moves, ReqSet, ReqFields
<1> QED
  BY <1>1, <1>2, <1>3

\* Sending a request, and being refused at once.
LEMMA SendStep ==
    ASSUME TablesOK, NEW c \in Client, NEW k, NEW r, NEW p
    PROVE  /\ Sends(c, k, r, p) =>
                ReqSet(c, k, r, p, req[c].status, req[c].last,
                       IF r = None THEN "unknown" ELSE Outcome(r))
           /\ Refuses(c, k) =>
                ReqSet(c, k, req[c].run, "done", "refused", req[c].last, req[c].seen)
<1>1. ASSUME Sends(c, k, r, p)
      PROVE  ReqSet(c, k, r, p, req[c].status, req[c].last,
                    IF r = None THEN "unknown" ELSE Outcome(r))
  <2>1. /\ req' = [d \in Client |-> req'[d]]
        /\ \A d \in Client : d # c => req'[d] = req[d]
        /\ req'[c] = [req[c] EXCEPT !.kind = k, !.run = r, !.pc = p,
                                     !.seen = IF r = None THEN "unknown" ELSE Outcome(r)]
    BY <1>1 DEF TablesOK, Sends
  <2> QED
    BY <2>1 DEF TablesOK, ReqSet, ReqFields
<1>2. ASSUME Refuses(c, k)
      PROVE  ReqSet(c, k, req[c].run, "done", "refused", req[c].last, req[c].seen)
  <2>1. /\ req' = [d \in Client |-> req'[d]]
        /\ \A d \in Client : d # c => req'[d] = req[d]
        /\ req'[c] = [req[c] EXCEPT !.kind = k, !.pc = "done", !.status = "refused"]
    BY <1>2 DEF TablesOK, Refuses
  <2> QED
    BY <2>1 DEF TablesOK, ReqSet, ReqFields
<1> QED
  BY <1>1, <1>2

LEMMA RowStep ==
    ASSUME TablesOK, NEW r \in Run, NEW o,
           row' = [row EXCEPT ![r].outcome = o]
    PROVE  RowSet(r, o, row[r].samples)
<1>1. /\ row' = [q \in Run |-> row'[q]]
      /\ row'[r] = [row[r] EXCEPT !.outcome = o]
      /\ \A q \in Run : q # r => row'[q] = row[q]
  BY DEF TablesOK
<1> QED
  BY <1>1 DEF TablesOK, RowSet, RowFields

-----------------------------------------------------------------------------

\* A reservation is over an empty registry, in which nothing is driven.
LEMMA ReservedExcludes ==
    ASSUME IInv, NEW c \in Client, NEW r \in Run,
           At(c, "write", "owned") \/ At(c, "write", "reserved")
    PROVE  ~Driving(r)
<1>1. exclusive = req[c].run /\ req[c].run \in Run
  BY DEF IInv, ReservationOK, RequestsOK, Writing, At
<1>2. tasks = {}
  BY <1>1, RunServerConstants DEF IInv, ReservationOK
<1>3. server \in {"up", "draining"}
  BY DEF IInv, ShutdownOK, Drained, At
<1> QED
  BY <1>2, <1>3 DEF IInv, TasksOK, Unreturned, Driving

\* No two of those who may call the driver of the loop are of one run.
LEMMA OneUserOfARun ==
    ASSUME IInv
    PROVE  /\ \A c, d \in Client :
                Handling(c) /\ Handling(d) /\ req[c].run = req[d].run => c = d
           /\ \A c \in Client : Handling(c) => req[c].run \in Run /\ ~Driving(req[c].run)
<1>1. ASSUME NEW c \in Client, At(c, "write", "owned")
      PROVE  /\ req[c].run \in Run /\ req[c].seen = "over" /\ Writing(c)
             /\ row[req[c].run].outcome # "running"
             /\ ~Driving(req[c].run)
  <2>1. Writing(c) /\ req[c].run \in Run
    BY <1>1 DEF IInv, RequestsOK, Writing, At
  <2>2. req[c].seen = "over"
    BY <2>1 DEF IInv, ReservationOK
  <2>3. row[req[c].run].outcome # "running"
    BY <2>2 DEF IInv, SeenOK, Terminal
  <2>4. ~Driving(req[c].run)
    BY <1>1, <2>1, ReservedExcludes
  <2> QED
    BY <2>1, <2>2, <2>3, <2>4
<1>2. ASSUME NEW c \in Client, At(c, "start", "connect") \/ At(c, "start", "register")
      PROVE  /\ Starting(c) /\ req[c].run \in Run
             /\ row[req[c].run].outcome = "running"
             /\ ~Driving(req[c].run)
  BY <1>2 DEF IInv, StartsOK, Starting, At, Driving
<1>3. ASSUME NEW c \in Client, NEW d \in Client, Starting(c), Starting(d),
             req[c].run = req[d].run
      PROVE  c = d
  BY <1>3 DEF IInv, StartsOK
<1>4. ASSUME NEW c \in Client, NEW d \in Client, Writing(c), Writing(d)
      PROVE  c = d
  BY <1>4 DEF IInv, ReservationOK
<1>5. ASSUME NEW c \in Client, NEW d \in Client, Handling(c), Handling(d),
             req[c].run = req[d].run
      PROVE  c = d
  BY <1>1, <1>2, <1>3, <1>4, <1>5 DEF Handling
<1>6. ASSUME NEW c \in Client, Handling(c)
      PROVE  req[c].run \in Run /\ ~Driving(req[c].run)
  BY <1>1, <1>2, <1>6 DEF Handling
<1> QED
  BY <1>5, <1>6

-----------------------------------------------------------------------------

LEMMA InitIInv == Init => IInv
<1> SUFFICES ASSUME Init PROVE IInv
  OBVIOUS
<1>1. TablesOK
  BY DEF Init, TablesOK, RowFields, ReqFields
<1>2. RequestsOK /\ StartsOK /\ SeenOK /\ StreamsOK /\ DoneFollowsLastSample
  BY DEF Init, RequestsOK, StartsOK, SeenOK, StreamsOK, DoneFollowsLastSample, Starting
<1>3. TasksOK /\ ShutdownOK /\ ShutdownEndsEveryRun /\ GuardOK
  BY RunServerConstants DEF Init, TasksOK, TaskState, Terminal, Unreturned, ShutdownOK,
         ShutdownEndsEveryRun, GuardOK, OnLoop, Handling, At, Driving
<1>4. ReservationOK
  BY DEF Init, RegistryInit, ReservationOK, Writing
<1> QED
  BY <1>1, <1>2, <1>3, <1>4 DEF IInv

-----------------------------------------------------------------------------
(* One lemma for each action, one step for each part of the invariant.     *)

LEMMA StartRunIInv ==
    ASSUME IInv, NEW c \in Client, StartRun(c)
    PROVE  IInv'
<1>1. ASSUME Refuses(c, "start")
      PROVE  /\ server = "up" /\ req[c].pc = "idle"
             /\ ReqSet(c, "start", req[c].run, "done", "refused", req[c].last, req[c].seen)
  BY <1>1, SendStep DEF IInv, Refuses
<1>2. ASSUME Sends(c, "start", None, "insert")
      PROVE  /\ server = "up" /\ req[c].pc = "idle"
             /\ ReqSet(c, "start", None, "insert", req[c].status, req[c].last, "unknown")
  <2>1. ReqSet(c, "start", None, "insert", req[c].status, req[c].last,
               IF None = None THEN "unknown" ELSE Outcome(None))
    BY <1>2, SendStep DEF IInv
  <2> QED
    BY <1>2, <2>1 DEF Sends
<1>3. /\ server = "up" /\ req[c].pc = "idle"
      /\ \/ ReqSet(c, "start", req[c].run, "done", "refused", req[c].last, req[c].seen)
         \/ ReqSet(c, "start", None, "insert", req[c].status, req[c].last, "unknown")
      /\ UNCHANGED <<tasks, exclusive, server, row, task, waits, guard>>
  BY <1>1, <1>2 DEF StartRun, registry
<1>4. TablesOK'
  BY <1>3 DEF IInv, TablesOK, ReqSet
<1>5. RequestsOK'
  BY <1>3 DEF IInv, RequestsOK, ReqSet
<1>6. StartsOK'
  BY <1>3 DEF IInv, StartsOK, ReqSet, Starting
<1>7. TasksOK'
  BY <1>3 DEF IInv, TasksOK
<1>8. ReservationOK'
  BY <1>3 DEF IInv, ReservationOK, ReqSet, Writing
<1>9. SeenOK'
  BY <1>3 DEF IInv, SeenOK, ReqSet
<1>10. StreamsOK'
  BY <1>3 DEF IInv, StreamsOK, ReqSet, At
<1>11. ShutdownOK'
  BY <1>3 DEF ShutdownOK
<1>12. GuardOK'
  BY <1>3 DEF IInv, GuardOK, OnLoop, Handling, At, Driving, ReqSet
<1>13. DoneFollowsLastSample'
  BY <1>3 DEF IInv, DoneFollowsLastSample, ReqSet, Present, At
<1>14. ShutdownEndsEveryRun'
  BY <1>3 DEF ShutdownEndsEveryRun
<1> QED
  BY <1>4, <1>5, <1>6, <1>7, <1>8, <1>9, <1>10, <1>11, <1>12, <1>13, <1>14 DEF IInv

LEMMA InsertRowIInv ==
    ASSUME IInv, NEW c \in Client, InsertRow(c)
    PROVE  IInv'
<1>1. ASSUME NEW r \in Run,
             row' = [row EXCEPT ![r].outcome = "running"],
             req' = [req EXCEPT ![c].pc = "own", ![c].run = r],
             req[c].kind = "start"
      PROVE  /\ RowSet(r, "running", row[r].samples)
             /\ ReqSet(c, "start", r, "own", req[c].status, req[c].last, req[c].seen)
  <2>1. /\ req' = [d \in Client |-> req'[d]]
        /\ \A d \in Client : d # c => req'[d] = req[d]
        /\ req'[c] = [req[c] EXCEPT !.pc = "own", !.run = r]
    BY <1>1 DEF IInv, TablesOK
  <2>2. RowSet(r, "running", row[r].samples)
    BY <1>1, RowStep DEF IInv
  <2>3. ReqSet(c, "start", r, "own", req[c].status, req[c].last, req[c].seen)
    BY <1>1, <2>1 DEF IInv, TablesOK, ReqSet, ReqFields
  <2> QED
    BY <2>2, <2>3
<1>2. /\ req[c].kind = "start" /\ req[c].pc = "insert"
      /\ server \notin {"down", "abandoned"}
      /\ \/ \E s : Moves(c, "done", s) /\ UNCHANGED row
         \/ \E r \in Run : /\ row[r].outcome = "absent"
                          /\ RowSet(r, "running", row[r].samples)
                          /\ ReqSet(c, "start", r, "own", req[c].status, req[c].last, req[c].seen)
      /\ UNCHANGED <<tasks, exclusive, server, task, waits, guard>>
  BY <1>1, ReqStep DEF InsertRow, IInv, Ready, At, Alive, registry
<1>3. TablesOK'
  <2>1. /\ row' = [q \in Run |-> row'[q]]
        /\ \A q \in Run : row'[q] = RowFields(row'[q].outcome, row'[q].samples)
    BY <1>2 DEF IInv, TablesOK, RowSet
  <2>2. task' = [q \in Run |-> task'[q]]
    BY <1>2 DEF IInv, TablesOK
  <2>3. /\ req' = [d \in Client |-> req'[d]]
        /\ \A d \in Client :
              req'[d] = ReqFields(req'[d].kind, req'[d].run, req'[d].pc, req'[d].status,
                                  req'[d].last, req'[d].seen)
    BY <1>2 DEF IInv, TablesOK, Moves, ReqSet
  <2> QED
    BY <2>1, <2>2, <2>3 DEF TablesOK
<1>4. RequestsOK'
  BY <1>2 DEF IInv, RequestsOK, Moves, ReqSet
<1>5. StartsOK'
  BY <1>2 DEF IInv, StartsOK, Moves, ReqSet, RowSet, Starting, TasksOK, Terminal, ShutdownOK
<1>6. TasksOK'
  BY <1>2 DEF IInv, TasksOK, RowSet
<1>7. ReservationOK'
  BY <1>2 DEF IInv, ReservationOK, Moves, ReqSet, Writing
<1>8. SeenOK'
  BY <1>2 DEF IInv, SeenOK, Moves, ReqSet, RowSet, RequestsOK, Terminal
<1>9. StreamsOK'
  BY <1>2 DEF IInv, StreamsOK, Moves, ReqSet, At
<1>10. ShutdownOK'
  BY <1>2 DEF IInv, ShutdownOK, Drained
<1>11. GuardOK'
  BY <1>2 DEF IInv, GuardOK, OnLoop, Handling, At, Driving, Moves, ReqSet, RowSet
<1>12. DoneFollowsLastSample'
  BY <1>2 DEF IInv, DoneFollowsLastSample, Moves, ReqSet, RowSet, StreamsOK, SeenOK, Terminal,
         Present, At
<1>13. ShutdownEndsEveryRun'
  BY <1>2 DEF ShutdownEndsEveryRun
<1> QED
  BY <1>3, <1>4, <1>5, <1>6, <1>7, <1>8, <1>9, <1>10, <1>11, <1>12, <1>13 DEF IInv

LEMMA TakeLoopIInv ==
    ASSUME IInv, NEW c \in Client, TakeLoop(c)
    PROVE  IInv'
<1>1. /\ req[c].kind = "start" /\ req[c].pc = "own"
      /\ server \notin {"down", "abandoned"}
      /\ req[c].run \in Run
      /\ \/ /\ Moves(c, "connect", req[c].status) /\ UNCHANGED row
            /\ \/ req[c].run \in Live /\ guard = None /\ guard' = req[c].run
               \/ req[c].run \notin Live /\ UNCHANGED guard
         \/ /\ \E s : Moves(c, "done", s)
            /\ \E o \in {"failed", "deleted", "running"} :
                  RowSet(req[c].run, o, row[req[c].run].samples)
            /\ UNCHANGED guard
      /\ UNCHANGED <<tasks, exclusive, server, task, waits>>
  BY ReqStep, RowStep DEF TakeLoop, FinalizesFailure, LoopIsFree, IInv, StartsOK, Starting,
     Ready, At, Alive, registry
<1>2. TablesOK'
  BY <1>1 DEF IInv, TablesOK, Moves, ReqSet, RowSet
<1>3. RequestsOK'
  BY <1>1 DEF IInv, RequestsOK, Moves, ReqSet
<1>4. StartsOK'
  BY <1>1 DEF IInv, StartsOK, Moves, ReqSet, RowSet, Starting
<1>5. TasksOK'
  BY <1>1 DEF IInv, TasksOK, RowSet, Terminal, StartsOK, Starting
<1>6. ReservationOK'
  BY <1>1 DEF IInv, ReservationOK, Moves, ReqSet, Writing
<1>7. SeenOK'
  BY <1>1 DEF IInv, SeenOK, Moves, ReqSet, RowSet, Terminal, StartsOK, Starting
<1>8. StreamsOK'
  BY <1>1 DEF IInv, StreamsOK, Moves, ReqSet, At
<1>9. ShutdownOK'
  BY <1>1 DEF IInv, ShutdownOK, Drained
<1>10. GuardOK'
  <2>1. CASE guard = None
    BY <1>1, <2>1, OneUserOfARun, RunServerConstants
    DEF IInv, GuardOK, OnLoop, Handling, At, Driving, Moves, ReqSet
  <2>2. CASE guard # None
    BY <1>1, <2>2 DEF IInv, GuardOK, OnLoop, Handling, At, Driving, Moves, ReqSet
  <2> QED
    BY <2>1, <2>2
<1>11. DoneFollowsLastSample'
  BY <1>1 DEF IInv, DoneFollowsLastSample, Moves, ReqSet, RowSet, StreamsOK, SeenOK, StartsOK,
         Starting, Present, At
<1>12. ShutdownEndsEveryRun'
  BY <1>1 DEF ShutdownEndsEveryRun
<1> QED
  BY <1>2, <1>3, <1>4, <1>5, <1>6, <1>7, <1>8, <1>9, <1>10, <1>11, <1>12 DEF IInv

LEMMA ConnectDriverIInv ==
    ASSUME IInv, NEW c \in Client, ConnectDriver(c)
    PROVE  IInv'
<1>1. /\ req[c].kind = "start" /\ req[c].pc = "connect"
      /\ server \notin {"down", "abandoned"}
      /\ req[c].run \in Run
      /\ \/ Moves(c, "register", req[c].status) /\ UNCHANGED <<row, guard>>
         \/ /\ Moves(c, "done", "refused")
            /\ \/ RowSet(req[c].run, "failed", row[req[c].run].samples)
               \/ UNCHANGED row
            /\ DropsGuard(req[c].run)
      /\ UNCHANGED <<tasks, exclusive, server, task, waits>>
  BY ReqStep, RowStep DEF ConnectDriver, IInv, StartsOK, Starting, Ready, At, Alive, registry
<1>2. TablesOK'
  BY <1>1 DEF IInv, TablesOK, Moves, ReqSet, RowSet
<1>3. RequestsOK'
  BY <1>1 DEF IInv, RequestsOK, Moves, ReqSet
<1>4. StartsOK'
  BY <1>1 DEF IInv, StartsOK, Moves, ReqSet, RowSet, Starting
<1>5. TasksOK'
  BY <1>1 DEF IInv, TasksOK, RowSet, Terminal, StartsOK, Starting
<1>6. ReservationOK'
  BY <1>1 DEF IInv, ReservationOK, Moves, ReqSet, Writing
<1>7. SeenOK'
  BY <1>1 DEF IInv, SeenOK, Moves, ReqSet, RowSet, Terminal
<1>8. StreamsOK'
  BY <1>1 DEF IInv, StreamsOK, Moves, ReqSet, At
<1>9. ShutdownOK'
  BY <1>1 DEF IInv, ShutdownOK, Drained
<1>10. GuardOK'
  <2>1. Handling(c)
    BY <1>1 DEF Handling, At
  <2>2. \A d \in Client : d # c => (OnLoop(d)' <=> OnLoop(d)) /\ req'[d].run = req[d].run
    BY <1>1 DEF OnLoop, Handling, At, Moves, ReqSet
  <2>3. CASE Moves(c, "register", req[c].status) /\ UNCHANGED guard
    <3>1. (OnLoop(c)' <=> OnLoop(c)) /\ req'[c].run = req[c].run
      BY <1>1, <2>3 DEF OnLoop, Handling, At, Moves, ReqSet
    <3> QED
      BY <1>1, <2>2, <2>3, <3>1 DEF IInv, GuardOK, Driving
  <2>4. CASE Moves(c, "done", "refused") /\ DropsGuard(req[c].run)
    <3>1. ~OnLoop(c)'
      BY <2>4 DEF OnLoop, Handling, At, Moves, ReqSet
    <3>2. \A d \in Client : OnLoop(d) /\ req[d].run = req[c].run => d = c
      BY <2>1, OneUserOfARun DEF OnLoop
    <3>3. ~Driving(req[c].run)
      BY <2>1, OneUserOfARun
    <3> QED
      BY <1>1, <2>2, <2>4, <3>1, <3>2, <3>3 DEF IInv, GuardOK, DropsGuard, Driving
  <2> QED
    BY <1>1, <2>3, <2>4
<1>11. DoneFollowsLastSample'
  BY <1>1 DEF IInv, DoneFollowsLastSample, Moves, ReqSet, RowSet, StreamsOK, SeenOK, StartsOK,
         Starting, Present, At
<1>12. ShutdownEndsEveryRun'
  BY <1>1 DEF ShutdownEndsEveryRun
<1> QED
  BY <1>2, <1>3, <1>4, <1>5, <1>6, <1>7, <1>8, <1>9, <1>10, <1>11, <1>12 DEF IInv

LEMMA RegisterTaskIInv ==
    ASSUME IInv, NEW c \in Client, RegisterTask(c)
    PROVE  IInv'
<1>1. /\ req[c].kind = "start" /\ req[c].pc = "register"
      /\ server \notin {"down", "abandoned"}
      /\ req[c].run \in Run
      /\ \/ /\ exclusive = None
            /\ tasks' = tasks \cup {req[c].run} /\ UNCHANGED <<exclusive, row, guard>>
            /\ TaskSet(req[c].run, "preparing")
            /\ \E s : Moves(c, "done", s)
         \/ /\ \/ RowSet(req[c].run, "failed", row[req[c].run].samples)
               \/ UNCHANGED row
            /\ \E s : Moves(c, "done", s)
            /\ DropsGuard(req[c].run)
            /\ UNCHANGED <<tasks, exclusive, task>>
      /\ UNCHANGED <<server, waits>>
  BY ReqStep, RowStep DEF RegisterTask, StartTask, StartAllowed, IInv, TablesOK, TaskSet,
         StartsOK, Starting, Ready, At, Alive, registry
<1>2. TablesOK'
  <2>1. /\ row' = [q \in Run |-> row'[q]]
        /\ \A q \in Run : row'[q] = RowFields(row'[q].outcome, row'[q].samples)
    BY <1>1 DEF IInv, TablesOK, RowSet
  <2>2. task' = [q \in Run |-> task'[q]]
    BY <1>1 DEF IInv, TablesOK, TaskSet
  <2>3. /\ req' = [d \in Client |-> req'[d]]
        /\ \A d \in Client :
              req'[d] = ReqFields(req'[d].kind, req'[d].run, req'[d].pc, req'[d].status,
                                  req'[d].last, req'[d].seen)
    BY <1>1 DEF IInv, TablesOK, Moves, ReqSet
  <2> QED
    BY <2>1, <2>2, <2>3 DEF TablesOK
<1>3. RequestsOK'
  BY <1>1 DEF IInv, RequestsOK, Moves, ReqSet
<1>4. StartsOK'
  BY <1>1 DEF IInv, StartsOK, Moves, ReqSet, RowSet, TaskSet, Starting, TaskState, SeenOK,
         Terminal, ShutdownOK, Drained
<1>5. TasksOK'
  BY <1>1 DEF IInv, TasksOK, RowSet, TaskSet, Terminal, StartsOK, Starting, TaskState
<1>6. ReservationOK'
  BY <1>1 DEF IInv, ReservationOK, Moves, ReqSet, Writing
<1>7. SeenOK'
  BY <1>1 DEF IInv, SeenOK, Moves, ReqSet, RowSet, Terminal
<1>8. StreamsOK'
  BY <1>1 DEF IInv, StreamsOK, Moves, ReqSet, At
<1>9. ShutdownOK'
  BY <1>1 DEF IInv, ShutdownOK, Drained
<1>10. GuardOK'
  <2>1. \A d \in Client : OnLoop(d) /\ req[d].run = req[c].run => d = c
    BY <1>1, OneUserOfARun DEF OnLoop, Handling, At
  <2>2. \A d \in Client : d # c => (OnLoop(d)' <=> OnLoop(d)) /\ req'[d].run = req[d].run
    BY <1>1 DEF OnLoop, Handling, At, Moves, ReqSet
  <2>3. ~OnLoop(c)' /\ ~Driving(req[c].run)
    BY <1>1 DEF IInv, StartsOK, Starting, Driving, OnLoop, Handling, At, Moves, ReqSet
  <2>4. \A q \in Live : Driving(q)' => Driving(q) \/ q = req[c].run
    BY <1>1, RunServerConstants DEF Driving, TaskSet
  <2>5. CASE guard' = guard
    <3>1. req[c].run \in Live => guard = req[c].run
      BY <1>1 DEF IInv, GuardOK, OnLoop, Handling, At
    <3> QED
      BY <2>2, <2>3, <2>4, <2>5, <3>1 DEF IInv, GuardOK
  <2>6. CASE DropsGuard(req[c].run) /\ UNCHANGED task
    BY <2>1, <2>2, <2>3, <2>6 DEF IInv, GuardOK, DropsGuard, Driving
  <2> QED
    BY <1>1, <2>5, <2>6
<1>11. DoneFollowsLastSample'
  BY <1>1 DEF IInv, DoneFollowsLastSample, Moves, ReqSet, RowSet, StreamsOK, SeenOK, StartsOK,
         Starting, Present, At
<1>12. ShutdownEndsEveryRun'
  BY <1>1 DEF ShutdownEndsEveryRun
<1> QED
  BY <1>2, <1>3, <1>4, <1>5, <1>6, <1>7, <1>8, <1>9, <1>10, <1>11, <1>12 DEF IInv

LEMMA LookUpIInv ==
    ASSUME IInv, NEW c \in Client, LookUp(c)
    PROVE  IInv'
<1>1. ASSUME NEW k, NEW r \in Run, NEW p, Looks(c, k, r, p)
      PROVE  /\ server = "up" /\ req[c].pc = "idle"
             /\ \/ ReqSet(c, k, req[c].run, "done", "refused", req[c].last, req[c].seen)
                \/ ReqSet(c, k, r, p, req[c].status, req[c].last, Outcome(r))
  <2>1. /\ r # None
        /\ server = "up" /\ req[c].pc = "idle"
        /\ Sends(c, k, r, p) \/ Refuses(c, k)
    BY <1>1, RunServerConstants DEF Looks, Sends, Refuses
  <2> QED
    BY <2>1, SendStep DEF IInv
<1>2. /\ server = "up" /\ req[c].pc = "idle"
      /\ \E k \in {"cancel", "notes", "delete", "write", "stream"} :
            \/ ReqSet(c, k, req[c].run, "done", "refused", req[c].last, req[c].seen)
            \/ \E r \in Run, p \in {"found", "check", "poll"} :
                 ReqSet(c, k, r, p, req[c].status, req[c].last, Outcome(r))
      /\ UNCHANGED <<tasks, exclusive, server, row, task, waits, guard>>
  BY <1>1 DEF LookUp, registry
<1>3. TablesOK'
  BY <1>2 DEF IInv, TablesOK, ReqSet
<1>4. RequestsOK'
  BY <1>2 DEF IInv, RequestsOK, ReqSet
<1>5. StartsOK'
  BY <1>2 DEF IInv, StartsOK, ReqSet, Starting
<1>6. TasksOK'
  BY <1>2 DEF IInv, TasksOK
<1>7. ReservationOK'
  BY <1>2 DEF IInv, ReservationOK, ReqSet, Writing
<1>8. SeenOK'
  BY <1>2 DEF IInv, SeenOK, ReqSet, TasksOK, Outcome, Present
<1>9. StreamsOK'
  BY <1>2 DEF IInv, StreamsOK, ReqSet, At
<1>10. ShutdownOK'
  BY <1>2 DEF ShutdownOK
<1>11. GuardOK'
  BY <1>2 DEF IInv, GuardOK, OnLoop, Handling, At, Driving, ReqSet
<1>12. DoneFollowsLastSample'
  BY <1>2 DEF IInv, DoneFollowsLastSample, ReqSet, Present, At
<1>13. ShutdownEndsEveryRun'
  BY <1>2 DEF ShutdownEndsEveryRun
<1> QED
  BY <1>3, <1>4, <1>5, <1>6, <1>7, <1>8, <1>9, <1>10, <1>11, <1>12, <1>13 DEF IInv

LEMMA CancelIInv ==
    ASSUME IInv, NEW c \in Client, Cancel(c)
    PROVE  IInv'
<1>1. /\ req[c].kind = "cancel" /\ req[c].pc = "found"
      /\ server \notin {"down", "abandoned"}
      /\ Moves(c, "done", "ok")
      /\ UNCHANGED <<tasks, exclusive, server, row, task, waits, guard>>
  BY ReqStep DEF Cancel, CancelRun, IInv, Ready, At, Alive
<1>2. TablesOK'
  BY <1>1 DEF IInv, TablesOK, Moves, ReqSet
<1>3. RequestsOK'
  BY <1>1 DEF IInv, RequestsOK, Moves, ReqSet
<1>4. StartsOK'
  BY <1>1 DEF IInv, StartsOK, Moves, ReqSet, Starting
<1>5. TasksOK'
  BY <1>1 DEF IInv, TasksOK
<1>6. ReservationOK'
  BY <1>1 DEF IInv, ReservationOK, Moves, ReqSet, Writing
<1>7. SeenOK'
  BY <1>1 DEF IInv, SeenOK, Moves, ReqSet
<1>8. StreamsOK'
  BY <1>1 DEF IInv, StreamsOK, Moves, ReqSet, At
<1>9. ShutdownOK'
  BY <1>1 DEF IInv, ShutdownOK, Drained
<1>10. GuardOK'
  BY <1>1 DEF IInv, GuardOK, OnLoop, Handling, At, Driving, Moves, ReqSet
<1>11. DoneFollowsLastSample'
  BY <1>1 DEF IInv, DoneFollowsLastSample, Moves, ReqSet, Present, At
<1>12. ShutdownEndsEveryRun'
  BY <1>1 DEF ShutdownEndsEveryRun
<1> QED
  BY <1>2, <1>3, <1>4, <1>5, <1>6, <1>7, <1>8, <1>9, <1>10, <1>11, <1>12 DEF IInv

LEMMA UpdateNotesIInv ==
    ASSUME IInv, NEW c \in Client, UpdateNotes(c)
    PROVE  IInv'
<1>1. /\ req[c].kind = "notes" /\ req[c].pc = "found"
      /\ server \notin {"down", "abandoned"}
      /\ \E s : Moves(c, "done", s)
      /\ UNCHANGED <<tasks, exclusive, server, row, task, waits, guard>>
  BY ReqStep DEF UpdateNotes, IInv, Ready, At, Alive, registry
<1>2. TablesOK'
  BY <1>1 DEF IInv, TablesOK, Moves, ReqSet
<1>3. RequestsOK'
  BY <1>1 DEF IInv, RequestsOK, Moves, ReqSet
<1>4. StartsOK'
  BY <1>1 DEF IInv, StartsOK, Moves, ReqSet, Starting
<1>5. TasksOK'
  BY <1>1 DEF IInv, TasksOK
<1>6. ReservationOK'
  BY <1>1 DEF IInv, ReservationOK, Moves, ReqSet, Writing
<1>7. SeenOK'
  BY <1>1 DEF IInv, SeenOK, Moves, ReqSet
<1>8. StreamsOK'
  BY <1>1 DEF IInv, StreamsOK, Moves, ReqSet, At
<1>9. ShutdownOK'
  BY <1>1 DEF IInv, ShutdownOK, Drained
<1>10. GuardOK'
  BY <1>1 DEF IInv, GuardOK, OnLoop, Handling, At, Driving, Moves, ReqSet
<1>11. DoneFollowsLastSample'
  BY <1>1 DEF IInv, DoneFollowsLastSample, Moves, ReqSet, Present, At
<1>12. ShutdownEndsEveryRun'
  BY <1>1 DEF ShutdownEndsEveryRun
<1> QED
  BY <1>2, <1>3, <1>4, <1>5, <1>6, <1>7, <1>8, <1>9, <1>10, <1>11, <1>12 DEF IInv

LEMMA DeleteIInv ==
    ASSUME IInv, NEW c \in Client, Delete(c)
    PROVE  IInv'
<1>1. /\ req[c].kind = "delete" /\ req[c].pc = "check"
      /\ server \notin {"down", "abandoned"}
      /\ req[c].run \in Run
      /\ \/ \E s : Moves(c, "done", s) /\ UNCHANGED row
         \/ /\ req[c].seen = "over" /\ RowSet(req[c].run, "deleted", row[req[c].run].samples)
            /\ \E s : Moves(c, "done", s)
      /\ UNCHANGED <<tasks, exclusive, server, task, waits, guard>>
  BY ReqStep, RowStep DEF Delete, IInv, RequestsOK, Ready, At, Alive, registry
<1>2. TablesOK'
  BY <1>1 DEF IInv, TablesOK, Moves, ReqSet, RowSet
<1>3. RequestsOK'
  BY <1>1 DEF IInv, RequestsOK, Moves, ReqSet
<1>4. StartsOK'
  BY <1>1 DEF IInv, StartsOK, Moves, ReqSet, RowSet, Starting, SeenOK, Terminal
<1>5. TasksOK'
  BY <1>1 DEF IInv, TasksOK, RowSet, Terminal, SeenOK
<1>6. ReservationOK'
  BY <1>1 DEF IInv, ReservationOK, Moves, ReqSet, Writing
<1>7. SeenOK'
  BY <1>1 DEF IInv, SeenOK, Moves, ReqSet, RowSet
<1>8. StreamsOK'
  BY <1>1 DEF IInv, StreamsOK, Moves, ReqSet, At
<1>9. ShutdownOK'
  BY <1>1 DEF IInv, ShutdownOK, Drained
<1>10. GuardOK'
  BY <1>1 DEF IInv, GuardOK, OnLoop, Handling, At, Driving, Moves, ReqSet, RowSet
<1>11. DoneFollowsLastSample'
  BY <1>1 DEF IInv, DoneFollowsLastSample, Moves, ReqSet, RowSet, StreamsOK, SeenOK, Present, At
<1>12. ShutdownEndsEveryRun'
  BY <1>1 DEF ShutdownEndsEveryRun
<1> QED
  BY <1>2, <1>3, <1>4, <1>5, <1>6, <1>7, <1>8, <1>9, <1>10, <1>11, <1>12 DEF IInv

LEMMA ReserveForWriteIInv ==
    ASSUME IInv, NEW c \in Client, ReserveForWrite(c)
    PROVE  IInv'
<1>1. /\ req[c].kind = "write" /\ req[c].pc = "check"
      /\ server \notin {"down", "abandoned"}
      /\ req[c].run \in Run
      /\ \/ \E s : Moves(c, "done", s) /\ UNCHANGED <<tasks, exclusive>>
         \/ /\ exclusive = None /\ tasks = {} /\ req[c].seen = "over"
            /\ Moves(c, "reserved", req[c].status)
            /\ exclusive' = req[c].run /\ UNCHANGED tasks
      /\ UNCHANGED <<server, row, task, waits, guard>>
  BY ReqStep DEF ReserveForWrite, ReserveAllowed, Reserve, IInv, RequestsOK, Ready, At, Alive,
         registry
<1>2. TablesOK'
  BY <1>1 DEF IInv, TablesOK, Moves, ReqSet
<1>3. RequestsOK'
  BY <1>1 DEF IInv, RequestsOK, Moves, ReqSet
<1>4. StartsOK'
  BY <1>1 DEF IInv, StartsOK, Moves, ReqSet, Starting
<1>5. TasksOK'
  BY <1>1 DEF IInv, TasksOK
<1>6. ReservationOK'
  BY <1>1, RunServerConstants DEF IInv, ReservationOK, Moves, ReqSet, RequestsOK, Writing
<1>7. SeenOK'
  BY <1>1 DEF IInv, SeenOK, Moves, ReqSet
<1>8. StreamsOK'
  BY <1>1 DEF IInv, StreamsOK, Moves, ReqSet, At
<1>9. ShutdownOK'
  BY <1>1 DEF IInv, ShutdownOK, Drained
<1>10. GuardOK'
  BY <1>1 DEF IInv, GuardOK, OnLoop, Handling, At, Driving, Moves, ReqSet
<1>11. DoneFollowsLastSample'
  BY <1>1 DEF IInv, DoneFollowsLastSample, Moves, ReqSet, Present, At
<1>12. ShutdownEndsEveryRun'
  BY <1>1 DEF ShutdownEndsEveryRun
<1> QED
  BY <1>2, <1>3, <1>4, <1>5, <1>6, <1>7, <1>8, <1>9, <1>10, <1>11, <1>12 DEF IInv

LEMMA AcquireForWriteIInv ==
    ASSUME IInv, NEW c \in Client, AcquireForWrite(c)
    PROVE  IInv'
<1>1. /\ req[c].kind = "write" /\ req[c].pc = "reserved"
      /\ server \notin {"down", "abandoned"}
      /\ \/ /\ guard = None /\ guard' = req[c].run
            /\ Moves(c, "owned", req[c].status)
         \/ Moves(c, "release", "refused") /\ UNCHANGED guard
      /\ UNCHANGED <<tasks, exclusive, server, row, task, waits>>
  BY ReqStep DEF AcquireForWrite, LoopIsFree, IInv, Ready, At, Alive, registry
<1>2. TablesOK'
  BY <1>1 DEF IInv, TablesOK, Moves, ReqSet
<1>3. RequestsOK'
  BY <1>1 DEF IInv, RequestsOK, Moves, ReqSet
<1>4. StartsOK'
  BY <1>1 DEF IInv, StartsOK, Moves, ReqSet, Starting
<1>5. TasksOK'
  BY <1>1 DEF IInv, TasksOK
<1>6. ReservationOK'
  BY <1>1 DEF IInv, ReservationOK, Moves, ReqSet, Writing
<1>7. SeenOK'
  BY <1>1 DEF IInv, SeenOK, Moves, ReqSet
<1>8. StreamsOK'
  BY <1>1 DEF IInv, StreamsOK, Moves, ReqSet, At
<1>9. ShutdownOK'
  BY <1>1 DEF IInv, ShutdownOK, Drained
<1>10. GuardOK'
  <2>1. CASE guard = None
    BY <1>1, <2>1, OneUserOfARun, RunServerConstants
    DEF IInv, GuardOK, OnLoop, Handling, At, Driving, Moves, ReqSet
  <2>2. CASE guard # None
    BY <1>1, <2>2 DEF IInv, GuardOK, OnLoop, Handling, At, Driving, Moves, ReqSet
  <2> QED
    BY <2>1, <2>2
<1>11. DoneFollowsLastSample'
  BY <1>1 DEF IInv, DoneFollowsLastSample, Moves, ReqSet, Present, At
<1>12. ShutdownEndsEveryRun'
  BY <1>1 DEF ShutdownEndsEveryRun
<1> QED
  BY <1>2, <1>3, <1>4, <1>5, <1>6, <1>7, <1>8, <1>9, <1>10, <1>11, <1>12 DEF IInv

LEMMA WriteConstantsIInv ==
    ASSUME IInv, NEW c \in Client, WriteConstants(c)
    PROVE  IInv'
<1>1. /\ req[c].kind = "write" /\ req[c].pc = "owned"
      /\ server \notin {"down", "abandoned"}
      /\ \E s : Moves(c, "release", s)
      /\ DropsGuard(req[c].run)
      /\ UNCHANGED <<tasks, exclusive, server, row, task, waits>>
  BY ReqStep DEF WriteConstants, IInv, Ready, At, Alive, registry
<1>2. TablesOK'
  BY <1>1 DEF IInv, TablesOK, Moves, ReqSet
<1>3. RequestsOK'
  BY <1>1 DEF IInv, RequestsOK, Moves, ReqSet
<1>4. StartsOK'
  BY <1>1 DEF IInv, StartsOK, Moves, ReqSet, Starting
<1>5. TasksOK'
  BY <1>1 DEF IInv, TasksOK
<1>6. ReservationOK'
  BY <1>1 DEF IInv, ReservationOK, Moves, ReqSet, Writing
<1>7. SeenOK'
  BY <1>1 DEF IInv, SeenOK, Moves, ReqSet
<1>8. StreamsOK'
  BY <1>1 DEF IInv, StreamsOK, Moves, ReqSet, At
<1>9. ShutdownOK'
  BY <1>1 DEF IInv, ShutdownOK, Drained
<1>10. GuardOK'
  <2>1. Handling(c)
    BY <1>1 DEF Handling, At
  <2>2. ~OnLoop(c)'
    BY <1>1 DEF OnLoop, Handling, At, Moves, ReqSet
  <2>3. \A d \in Client : d # c => (OnLoop(d)' <=> OnLoop(d)) /\ req'[d].run = req[d].run
    BY <1>1 DEF OnLoop, Handling, At, Moves, ReqSet
  <2>4. \A d \in Client : OnLoop(d) /\ req[d].run = req[c].run => d = c
    BY <2>1, OneUserOfARun DEF OnLoop
  <2>5. ~Driving(req[c].run)
    BY <2>1, OneUserOfARun
  <2> QED
    BY <1>1, <2>2, <2>3, <2>4, <2>5 DEF IInv, GuardOK, DropsGuard, Driving
<1>11. DoneFollowsLastSample'
  BY <1>1 DEF IInv, DoneFollowsLastSample, Moves, ReqSet, Present, At
<1>12. ShutdownEndsEveryRun'
  BY <1>1 DEF ShutdownEndsEveryRun
<1> QED
  BY <1>2, <1>3, <1>4, <1>5, <1>6, <1>7, <1>8, <1>9, <1>10, <1>11, <1>12 DEF IInv

LEMMA ReleaseReservationIInv ==
    ASSUME IInv, NEW c \in Client, ReleaseReservation(c)
    PROVE  IInv'
<1>1. /\ req[c].kind = "write" /\ req[c].pc = "release"
      /\ server \notin {"down", "abandoned"}
      /\ Moves(c, "done", req[c].status)
      /\ exclusive' = None
      /\ UNCHANGED <<tasks, server, row, task, waits, guard>>
  BY ReqStep DEF ReleaseReservation, ReleaseRun, IInv, ReservationOK, Writing, Ready, At, Alive
<1>2. TablesOK'
  BY <1>1 DEF IInv, TablesOK, Moves, ReqSet
<1>3. RequestsOK'
  BY <1>1 DEF IInv, RequestsOK, Moves, ReqSet
<1>4. StartsOK'
  BY <1>1 DEF IInv, StartsOK, Moves, ReqSet, Starting
<1>5. TasksOK'
  BY <1>1 DEF IInv, TasksOK
<1>6. ReservationOK'
  BY <1>1 DEF IInv, ReservationOK, Moves, ReqSet, Writing
<1>7. SeenOK'
  BY <1>1 DEF IInv, SeenOK, Moves, ReqSet
<1>8. StreamsOK'
  BY <1>1 DEF IInv, StreamsOK, Moves, ReqSet, At
<1>9. ShutdownOK'
  BY <1>1 DEF IInv, ShutdownOK, Drained
<1>10. GuardOK'
  BY <1>1 DEF IInv, GuardOK, OnLoop, Handling, At, Driving, Moves, ReqSet
<1>11. DoneFollowsLastSample'
  BY <1>1 DEF IInv, DoneFollowsLastSample, Moves, ReqSet, Present, At
<1>12. ShutdownEndsEveryRun'
  BY <1>1 DEF ShutdownEndsEveryRun
<1> QED
  BY <1>2, <1>3, <1>4, <1>5, <1>6, <1>7, <1>8, <1>9, <1>10, <1>11, <1>12 DEF IInv

LEMMA PollRunIInv ==
    ASSUME IInv, NEW c \in Client, PollRun(c)
    PROVE  IInv'
<1>1. /\ req' = [d \in Client |-> req'[d]]
      /\ \A d \in Client : d # c => req'[d] = req[d]
      /\ req'[c] = [req[c] EXCEPT !.pc = "samples", !.seen = Outcome(req[c].run)]
  BY DEF IInv, TablesOK, PollRun
<1>2. /\ req[c].kind = "stream" /\ req[c].pc = "poll"
      /\ server \notin {"down", "abandoned"}
      /\ req[c].run \in Run
      /\ ReqSet(c, "stream", req[c].run, "samples", req[c].status, req[c].last,
                Outcome(req[c].run))
      /\ UNCHANGED <<tasks, exclusive, server, row, task, waits, guard>>
  BY <1>1 DEF PollRun, IInv, TablesOK, RequestsOK, ReqSet, ReqFields, Ready, At, Alive, registry
<1>3. TablesOK'
  BY <1>2 DEF IInv, TablesOK, ReqSet
<1>4. RequestsOK'
  BY <1>2 DEF IInv, RequestsOK, ReqSet
<1>5. StartsOK'
  BY <1>2 DEF IInv, StartsOK, ReqSet, Starting
<1>6. TasksOK'
  BY <1>2 DEF IInv, TasksOK
<1>7. ReservationOK'
  BY <1>2 DEF IInv, ReservationOK, ReqSet, Writing
<1>8. SeenOK'
  BY <1>2, RunServerConstants, SMTT(30) DEF IInv, SeenOK, ReqSet, RequestsOK, StartsOK, Starting,
         TasksOK, Terminal, Outcome, Present
<1>9. StreamsOK'
  BY <1>2 DEF IInv, StreamsOK, ReqSet, At
<1>10. ShutdownOK'
  BY <1>2 DEF IInv, ShutdownOK, Drained
<1>11. GuardOK'
  BY <1>2 DEF IInv, GuardOK, OnLoop, Handling, At, Driving, ReqSet
<1>12. DoneFollowsLastSample'
  BY <1>2 DEF IInv, DoneFollowsLastSample, ReqSet, Present, At
<1>13. ShutdownEndsEveryRun'
  BY <1>2 DEF ShutdownEndsEveryRun
<1> QED
  BY <1>3, <1>4, <1>5, <1>6, <1>7, <1>8, <1>9, <1>10, <1>11, <1>12, <1>13 DEF IInv

LEMMA PollSamplesIInv ==
    ASSUME IInv, NEW c \in Client, PollSamples(c)
    PROVE  IInv'
<1>1. /\ Ready(c, "stream", "samples")
      /\ UNCHANGED <<tasks, exclusive, server, row, task, waits, guard>>
      /\ req[c].run \in Run
  BY DEF PollSamples, IInv, RequestsOK, Ready, At, registry
<1>2. ASSUME NEW n, NEW p, NEW s,
             req' = [req EXCEPT ![c].last = n, ![c].pc = p, ![c].status = s]
      PROVE  ReqSet(c, req[c].kind, req[c].run, p, s, n, req[c].seen)
  <2>1. /\ req' = [d \in Client |-> req'[d]]
        /\ \A d \in Client : d # c => req'[d] = req[d]
        /\ req'[c] = [req[c] EXCEPT !.last = n, !.pc = p, !.status = s]
    BY <1>2 DEF IInv, TablesOK
  <2> QED
    BY <2>1 DEF IInv, TablesOK, ReqSet, ReqFields
<1>3. ReqSet(c, "stream", req[c].run, IF req[c].seen = "over" THEN "done" ELSE "poll",
             IF req[c].seen = "over" THEN "ok" ELSE "none",
             IF Present(req[c].run) THEN row[req[c].run].samples ELSE req[c].last, req[c].seen)
  BY <1>1, <1>2, ZenonT(30) DEF PollSamples, Ready, At, IInv, TablesOK
<1>4. /\ req[c].kind = "stream" /\ req[c].pc = "samples"
      /\ server \notin {"down", "abandoned"}
      /\ req[c].run \in Run
      /\ \E n : /\ Present(req[c].run) => n = row[req[c].run].samples
                /\ \/ /\ req[c].seen = "over"
                      /\ ReqSet(c, "stream", req[c].run, "done", "ok", n, "over")
                   \/ ReqSet(c, "stream", req[c].run, "poll", "none", n, req[c].seen)
      /\ UNCHANGED <<tasks, exclusive, server, row, task, waits, guard>>
  BY <1>1, <1>3 DEF Ready, At, Alive
<1>5. TablesOK'
  BY <1>4 DEF IInv, TablesOK, ReqSet
<1>6. RequestsOK'
  BY <1>4 DEF IInv, RequestsOK, ReqSet
<1>7. StartsOK'
  BY <1>4 DEF IInv, StartsOK, ReqSet, Starting
<1>8. TasksOK'
  BY <1>4 DEF IInv, TasksOK
<1>9. ReservationOK'
  BY <1>4 DEF IInv, ReservationOK, ReqSet, Writing
<1>10. SeenOK'
  BY <1>4 DEF IInv, SeenOK, ReqSet
<1>11. StreamsOK'
  BY <1>4 DEF IInv, StreamsOK, ReqSet, At
<1>12. ShutdownOK'
  BY <1>4 DEF IInv, ShutdownOK, Drained
<1>13. GuardOK'
  BY <1>4 DEF IInv, GuardOK, OnLoop, Handling, At, Driving, ReqSet
<1>14. DoneFollowsLastSample'
  BY <1>4 DEF IInv, DoneFollowsLastSample, ReqSet, Present, At
<1>15. ShutdownEndsEveryRun'
  BY <1>4 DEF ShutdownEndsEveryRun
<1> QED
  BY <1>5, <1>6, <1>7, <1>8, <1>9, <1>10, <1>11, <1>12, <1>13, <1>14, <1>15 DEF IInv

LEMMA QueryFailsIInv ==
    ASSUME IInv, NEW c \in Client, QueryFails(c)
    PROVE  IInv'
<1>1. /\ req[c].kind \in {"notes", "delete", "write", "stream"}
      /\ req[c].pc \in {"found", "check", "poll", "samples"}
      /\ server \notin {"down", "abandoned"}
      /\ Moves(c, "done", "refused")
      /\ UNCHANGED <<tasks, exclusive, server, row, task, waits, guard>>
  BY ReqStep DEF QueryFails, IInv, Ready, At, Alive, registry
<1>2. TablesOK'
  BY <1>1 DEF IInv, TablesOK, Moves, ReqSet
<1>3. RequestsOK'
  BY <1>1 DEF IInv, RequestsOK, Moves, ReqSet
<1>4. StartsOK'
  BY <1>1 DEF IInv, StartsOK, Moves, ReqSet, Starting
<1>5. TasksOK'
  BY <1>1 DEF IInv, TasksOK
<1>6. ReservationOK'
  BY <1>1 DEF IInv, ReservationOK, Moves, ReqSet, Writing
<1>7. SeenOK'
  BY <1>1 DEF IInv, SeenOK, Moves, ReqSet
<1>8. StreamsOK'
  BY <1>1 DEF IInv, StreamsOK, Moves, ReqSet, At
<1>9. ShutdownOK'
  BY <1>1 DEF IInv, ShutdownOK, Drained
<1>10. GuardOK'
  BY <1>1 DEF IInv, GuardOK, OnLoop, Handling, At, Driving, Moves, ReqSet
<1>11. DoneFollowsLastSample'
  BY <1>1 DEF IInv, DoneFollowsLastSample, Moves, ReqSet, Present, At
<1>12. ShutdownEndsEveryRun'
  BY <1>1 DEF ShutdownEndsEveryRun
<1> QED
  BY <1>2, <1>3, <1>4, <1>5, <1>6, <1>7, <1>8, <1>9, <1>10, <1>11, <1>12 DEF IInv

LEMMA DisconnectIInv ==
    ASSUME IInv, NEW c \in Client, Disconnect(c)
    PROVE  IInv'
<1>1. /\ req[c].pc \notin {"idle", "done", "dropped"}
      /\ server \notin {"down", "abandoned"}
      /\ Moves(c, "dropped", req[c].status)
      /\ \/ UNCHANGED guard
         \/ /\ DropsGuard(req[c].run)
            /\ \/ At(c, "start", "connect") \/ At(c, "start", "register")
               \/ At(c, "write", "owned")
      /\ UNCHANGED <<tasks, exclusive, server, row, task, waits>>
  BY ReqStep DEF Disconnect, IInv, Alive, registry
<1>2. TablesOK'
  BY <1>1 DEF IInv, TablesOK, Moves, ReqSet
<1>3. RequestsOK'
  BY <1>1 DEF IInv, RequestsOK, Moves, ReqSet
<1>4. StartsOK'
  BY <1>1 DEF IInv, StartsOK, Moves, ReqSet, Starting
<1>5. TasksOK'
  BY <1>1 DEF IInv, TasksOK
<1>6. ReservationOK'
  BY <1>1 DEF IInv, ReservationOK, Moves, ReqSet, Writing
<1>7. SeenOK'
  BY <1>1 DEF IInv, SeenOK, Moves, ReqSet
<1>8. StreamsOK'
  BY <1>1 DEF IInv, StreamsOK, Moves, ReqSet, At
<1>9. ShutdownOK'
  BY <1>1 DEF IInv, ShutdownOK, Drained
<1>10. GuardOK'
  <2>1. ~OnLoop(c)'
    BY <1>1 DEF OnLoop, Handling, At, Moves, ReqSet
  <2>2. \A d \in Client : d # c => (OnLoop(d)' <=> OnLoop(d)) /\ req'[d].run = req[d].run
    BY <1>1 DEF OnLoop, Handling, At, Moves, ReqSet
  <2>3. CASE UNCHANGED guard
    BY <1>1, <2>1, <2>2, <2>3 DEF IInv, GuardOK, Driving
  <2>4. CASE /\ DropsGuard(req[c].run)
             /\ \/ At(c, "start", "connect") \/ At(c, "start", "register")
                \/ At(c, "write", "owned")
    <3>1. \A d \in Client : OnLoop(d) /\ req[d].run = req[c].run => d = c
      BY <2>4, OneUserOfARun DEF OnLoop, Handling
    <3>2. ~Driving(req[c].run)
      BY <2>4, OneUserOfARun DEF Handling
    <3> QED
      BY <1>1, <2>1, <2>2, <2>4, <3>1, <3>2 DEF IInv, GuardOK, DropsGuard, Driving
  <2> QED
    BY <1>1, <2>3, <2>4
<1>11. DoneFollowsLastSample'
  BY <1>1 DEF IInv, DoneFollowsLastSample, Moves, ReqSet, Present, At
<1>12. ShutdownEndsEveryRun'
  BY <1>1 DEF ShutdownEndsEveryRun
<1> QED
  BY <1>2, <1>3, <1>4, <1>5, <1>6, <1>7, <1>8, <1>9, <1>10, <1>11, <1>12 DEF IInv

LEMMA TestStartsIInv ==
    ASSUME IInv, NEW r \in Run, TestStarts(r)
    PROVE  IInv'
<1>1. /\ task[r] = "preparing"
      /\ server \notin {"down", "abandoned"}
      /\ TaskSet(r, "polling")
      /\ UNCHANGED <<tasks, exclusive, server, row, waits, guard, req>>
  BY DEF TestStarts, IInv, TablesOK, TaskSet, Busy, Alive, registry
<1>2. TablesOK'
  BY <1>1 DEF IInv, TablesOK, TaskSet
<1>3. RequestsOK'
  BY <1>1 DEF IInv, RequestsOK
<1>4. StartsOK'
  BY <1>1 DEF IInv, StartsOK, TaskSet, Starting
<1>5. TasksOK'
  BY <1>1 DEF IInv, TasksOK, TaskSet, TaskState, Unreturned
<1>6. ReservationOK'
  BY <1>1 DEF IInv, ReservationOK, Writing
<1>7. SeenOK'
  BY <1>1 DEF IInv, SeenOK
<1>8. StreamsOK'
  BY <1>1 DEF IInv, StreamsOK, At
<1>9. ShutdownOK'
  BY <1>1 DEF IInv, ShutdownOK, TaskSet, Unreturned, Drained
<1>10. GuardOK'
  <2>1. \A q \in Live : Driving(q)' => Driving(q)
    BY <1>1, RunServerConstants DEF Driving, TaskSet
  <2> QED
    BY <1>1, <2>1 DEF IInv, GuardOK, OnLoop, Handling, At
<1>11. DoneFollowsLastSample'
  BY <1>1 DEF IInv, DoneFollowsLastSample, Present, At
<1>12. ShutdownEndsEveryRun'
  BY <1>1 DEF ShutdownEndsEveryRun
<1> QED
  BY <1>2, <1>3, <1>4, <1>5, <1>6, <1>7, <1>8, <1>9, <1>10, <1>11, <1>12 DEF IInv

LEMMA TickIInv ==
    ASSUME IInv, NEW r \in Run, Tick(r)
    PROVE  IInv'
<1>1. /\ row' = [q \in Run |-> row'[q]]
      /\ row'[r] = [row[r] EXCEPT !.samples = @ + 1]
      /\ \A q \in Run : q # r => row'[q] = row[q]
  BY DEF IInv, TablesOK, Tick
<1>2. /\ task[r] = "polling"
      /\ server \notin {"down", "abandoned"}
      /\ RowSet(r, row[r].outcome, row[r].samples + 1)
      /\ UNCHANGED <<tasks, exclusive, server, task, waits, guard, req>>
  BY <1>1 DEF Tick, IInv, TablesOK, RowSet, RowFields, Busy, Alive, registry
<1>3. TablesOK'
  BY <1>2 DEF IInv, TablesOK, RowSet
<1>4. RequestsOK'
  BY <1>2 DEF IInv, RequestsOK
<1>5. StartsOK'
  BY <1>2 DEF IInv, StartsOK, RowSet, Starting
<1>6. TasksOK'
  BY <1>2 DEF IInv, TasksOK, RowSet
<1>7. ReservationOK'
  BY <1>2 DEF IInv, ReservationOK, Writing
<1>8. SeenOK'
  BY <1>2 DEF IInv, SeenOK, RowSet
<1>9. StreamsOK'
  BY <1>2 DEF IInv, StreamsOK, At
<1>10. ShutdownOK'
  BY <1>2 DEF IInv, ShutdownOK, Drained
<1>11. GuardOK'
  BY <1>2 DEF IInv, GuardOK, OnLoop, Handling, At, Driving, RowSet
<1>12. DoneFollowsLastSample'
  BY <1>2 DEF IInv, DoneFollowsLastSample, RowSet, StreamsOK, SeenOK, TasksOK, Terminal, Present,
         At
<1>13. ShutdownEndsEveryRun'
  BY <1>2 DEF ShutdownEndsEveryRun
<1> QED
  BY <1>3, <1>4, <1>5, <1>6, <1>7, <1>8, <1>9, <1>10, <1>11, <1>12, <1>13 DEF IInv

LEMMA TestEndsIInv ==
    ASSUME IInv, NEW r \in Run, TestEnds(r)
    PROVE  IInv'
<1>1. /\ task[r] \in {"preparing", "polling"}
      /\ server \notin {"down", "abandoned"}
      /\ TaskSet(r, "restoring")
      /\ UNCHANGED <<tasks, exclusive, server, row, waits, guard, req>>
  BY DEF TestEnds, IInv, TablesOK, TaskSet, Busy, Alive, registry
<1>2. TablesOK'
  BY <1>1 DEF IInv, TablesOK, TaskSet
<1>3. RequestsOK'
  BY <1>1 DEF IInv, RequestsOK
<1>4. StartsOK'
  BY <1>1 DEF IInv, StartsOK, TaskSet, Starting
<1>5. TasksOK'
  BY <1>1 DEF IInv, TasksOK, TaskSet, TaskState, Unreturned
<1>6. ReservationOK'
  BY <1>1 DEF IInv, ReservationOK, Writing
<1>7. SeenOK'
  BY <1>1 DEF IInv, SeenOK
<1>8. StreamsOK'
  BY <1>1 DEF IInv, StreamsOK, At
<1>9. ShutdownOK'
  BY <1>1 DEF IInv, ShutdownOK, TaskSet, Unreturned, Drained
<1>10. GuardOK'
  <2>1. \A q \in Live : Driving(q)' => Driving(q)
    BY <1>1, RunServerConstants DEF Driving, TaskSet
  <2> QED
    BY <1>1, <2>1 DEF IInv, GuardOK, OnLoop, Handling, At
<1>11. DoneFollowsLastSample'
  BY <1>1 DEF IInv, DoneFollowsLastSample, Present, At
<1>12. ShutdownEndsEveryRun'
  BY <1>1 DEF ShutdownEndsEveryRun
<1> QED
  BY <1>2, <1>3, <1>4, <1>5, <1>6, <1>7, <1>8, <1>9, <1>10, <1>11, <1>12 DEF IInv

LEMMA ObserveCancelIInv ==
    ASSUME IInv, NEW r \in Run, ObserveCancel(r)
    PROVE  IInv'
<1>1. /\ task[r] = "polling"
      /\ server \notin {"down", "abandoned"}
      /\ TaskSet(r, "restoring")
      /\ UNCHANGED <<tasks, exclusive, server, row, waits, guard, req>>
  BY DEF ObserveCancel, IInv, TablesOK, TaskSet, Busy, Alive, registry
<1>2. TablesOK'
  BY <1>1 DEF IInv, TablesOK, TaskSet
<1>3. RequestsOK'
  BY <1>1 DEF IInv, RequestsOK
<1>4. StartsOK'
  BY <1>1 DEF IInv, StartsOK, TaskSet, Starting
<1>5. TasksOK'
  BY <1>1 DEF IInv, TasksOK, TaskSet, TaskState, Unreturned
<1>6. ReservationOK'
  BY <1>1 DEF IInv, ReservationOK, Writing
<1>7. SeenOK'
  BY <1>1 DEF IInv, SeenOK
<1>8. StreamsOK'
  BY <1>1 DEF IInv, StreamsOK, At
<1>9. ShutdownOK'
  BY <1>1 DEF IInv, ShutdownOK, TaskSet, Unreturned, Drained
<1>10. GuardOK'
  <2>1. \A q \in Live : Driving(q)' => Driving(q)
    BY <1>1, RunServerConstants DEF Driving, TaskSet
  <2> QED
    BY <1>1, <2>1 DEF IInv, GuardOK, OnLoop, Handling, At
<1>11. DoneFollowsLastSample'
  BY <1>1 DEF IInv, DoneFollowsLastSample, Present, At
<1>12. ShutdownEndsEveryRun'
  BY <1>1 DEF ShutdownEndsEveryRun
<1> QED
  BY <1>2, <1>3, <1>4, <1>5, <1>6, <1>7, <1>8, <1>9, <1>10, <1>11, <1>12 DEF IInv

LEMMA RecordOutcomeIInv ==
    ASSUME IInv, NEW r \in Run, RecordOutcome(r)
    PROVE  IInv'
<1>1. /\ task[r] = "restoring"
      /\ server \notin {"down", "abandoned"}
      /\ \/ /\ TaskSet(r, "recorded")
            /\ \E o \in Terminal : RowSet(r, o, row[r].samples)
            /\ UNCHANGED guard
         \/ TaskSet(r, "returned") /\ DropsGuard(r) /\ UNCHANGED row
      /\ UNCHANGED <<tasks, exclusive, server, waits, req>>
  BY RowStep DEF RecordOutcome, Terminal, IInv, TablesOK, TaskSet, Busy, Alive, registry
<1>2. TablesOK'
  BY <1>1 DEF IInv, TablesOK, RowSet, TaskSet
<1>3. RequestsOK'
  BY <1>1 DEF IInv, RequestsOK
<1>4. StartsOK'
  BY <1>1 DEF IInv, StartsOK, RowSet, TaskSet, Starting
<1>5. TasksOK'
  BY <1>1 DEF IInv, TasksOK, RowSet, TaskSet, Terminal, TaskState, Unreturned
<1>6. ReservationOK'
  BY <1>1 DEF IInv, ReservationOK, Writing
<1>7. SeenOK'
  BY <1>1 DEF IInv, SeenOK, RowSet
<1>8. StreamsOK'
  BY <1>1 DEF IInv, StreamsOK, At
<1>9. ShutdownOK'
  BY <1>1 DEF IInv, ShutdownOK, TaskSet, Unreturned, Drained
<1>10. GuardOK'
  <2>1. \A d \in Client : OnLoop(d) => req[d].run # r
    BY <1>1, OneUserOfARun DEF OnLoop, Driving
  <2>2. CASE TaskSet(r, "recorded") /\ UNCHANGED guard
    <3>1. \A q \in Live : Driving(q)' => Driving(q)
      BY <1>1, <2>2, RunServerConstants DEF Driving, TaskSet
    <3> QED
      BY <1>1, <2>2, <3>1 DEF IInv, GuardOK, OnLoop, Handling, At
  <2>3. CASE TaskSet(r, "returned") /\ DropsGuard(r)
    <3>1. \A q \in Live : Driving(q)' => q # r /\ Driving(q)
      BY <2>3, RunServerConstants DEF Driving, TaskSet
    <3> QED
      BY <1>1, <2>1, <2>3, <3>1 DEF IInv, GuardOK, DropsGuard, OnLoop, Handling, At
  <2> QED
    BY <1>1, <2>2, <2>3
<1>11. DoneFollowsLastSample'
  BY <1>1 DEF IInv, DoneFollowsLastSample, RowSet, StreamsOK, SeenOK, TasksOK, Present, At
<1>12. ShutdownEndsEveryRun'
  BY <1>1 DEF ShutdownEndsEveryRun
<1> QED
  BY <1>2, <1>3, <1>4, <1>5, <1>6, <1>7, <1>8, <1>9, <1>10, <1>11, <1>12 DEF IInv

LEMMA DriveReturnsIInv ==
    ASSUME IInv, NEW r \in Run, DriveReturns(r)
    PROVE  IInv'
<1>1. /\ task[r] = "recorded"
      /\ server \notin {"down", "abandoned"}
      /\ TaskSet(r, "returned")
      /\ \/ UNCHANGED row
         \/ Present(r) /\ RowSet(r, "failed", row[r].samples)
      /\ DropsGuard(r)
      /\ UNCHANGED <<tasks, exclusive, server, waits, req>>
  BY RowStep DEF DriveReturns, IInv, TablesOK, TaskSet, Busy, Alive, registry
<1>2. TablesOK'
  BY <1>1 DEF IInv, TablesOK, RowSet, TaskSet
<1>3. RequestsOK'
  BY <1>1 DEF IInv, RequestsOK
<1>4. StartsOK'
  BY <1>1 DEF IInv, StartsOK, RowSet, TaskSet, Starting
<1>5. TasksOK'
  BY <1>1 DEF IInv, TasksOK, RowSet, TaskSet, Terminal, Present, TaskState, Unreturned
<1>6. ReservationOK'
  BY <1>1 DEF IInv, ReservationOK, Writing
<1>7. SeenOK'
  BY <1>1 DEF IInv, SeenOK, RowSet, Terminal
<1>8. StreamsOK'
  BY <1>1 DEF IInv, StreamsOK, At
<1>9. ShutdownOK'
  BY <1>1 DEF IInv, ShutdownOK, TaskSet, Unreturned, Drained
<1>10. GuardOK'
  <2>1. \A d \in Client : OnLoop(d) => req[d].run # r
    BY <1>1, OneUserOfARun DEF OnLoop, Driving
  <2>2. \A q \in Live : Driving(q)' => q # r /\ Driving(q)
    BY <1>1, RunServerConstants DEF Driving, TaskSet
  <2> QED
    BY <1>1, <2>1, <2>2 DEF IInv, GuardOK, DropsGuard, OnLoop, Handling, At
<1>11. DoneFollowsLastSample'
  BY <1>1 DEF IInv, DoneFollowsLastSample, RowSet, StreamsOK, SeenOK, TasksOK, Terminal,
         Present, At
<1>12. ShutdownEndsEveryRun'
  BY <1>1 DEF ShutdownEndsEveryRun
<1> QED
  BY <1>2, <1>3, <1>4, <1>5, <1>6, <1>7, <1>8, <1>9, <1>10, <1>11, <1>12 DEF IInv

LEMMA TaskPanicsIInv ==
    ASSUME IInv, NEW r \in Run, TaskPanics(r)
    PROVE  IInv'
<1>1. /\ task[r] \in {"preparing", "polling", "restoring", "recorded"}
      /\ server \notin {"down", "abandoned"}
      /\ TaskSet(r, "returned")
      /\ DropsGuard(r)
      /\ UNCHANGED <<tasks, exclusive, server, row, waits, req>>
  BY DEF TaskPanics, IInv, TablesOK, TaskSet, Busy, Alive, registry
<1>2. TablesOK'
  BY <1>1 DEF IInv, TablesOK, TaskSet
<1>3. RequestsOK'
  BY <1>1 DEF IInv, RequestsOK
<1>4. StartsOK'
  BY <1>1 DEF IInv, StartsOK, TaskSet, Starting
<1>5. TasksOK'
  BY <1>1 DEF IInv, TasksOK, TaskSet, TaskState, Unreturned
<1>6. ReservationOK'
  BY <1>1 DEF IInv, ReservationOK, Writing
<1>7. SeenOK'
  BY <1>1 DEF IInv, SeenOK
<1>8. StreamsOK'
  BY <1>1 DEF IInv, StreamsOK, At
<1>9. ShutdownOK'
  BY <1>1 DEF IInv, ShutdownOK, TaskSet, Unreturned, Drained
<1>10. GuardOK'
  <2>1. \A d \in Client : OnLoop(d) => req[d].run # r
    BY <1>1, OneUserOfARun DEF OnLoop, Driving
  <2>2. \A q \in Live : Driving(q)' => q # r /\ Driving(q)
    BY <1>1, RunServerConstants DEF Driving, TaskSet
  <2> QED
    BY <1>1, <2>1, <2>2 DEF IInv, GuardOK, DropsGuard, OnLoop, Handling, At
<1>11. DoneFollowsLastSample'
  BY <1>1 DEF IInv, DoneFollowsLastSample, Present, At
<1>12. ShutdownEndsEveryRun'
  BY <1>1 DEF ShutdownEndsEveryRun
<1> QED
  BY <1>2, <1>3, <1>4, <1>5, <1>6, <1>7, <1>8, <1>9, <1>10, <1>11, <1>12 DEF IInv

LEMMA WatcherReleasesIInv ==
    ASSUME IInv, NEW r \in Run, WatcherReleases(r)
    PROVE  IInv'
<1>1. /\ task[r] = "returned"
      /\ server \notin {"down", "abandoned"}
      /\ TaskSet(r, "over")
      /\ \/ exclusive = r /\ exclusive' = None /\ UNCHANGED tasks
         \/ tasks' = tasks \ {r} /\ UNCHANGED exclusive
      /\ UNCHANGED <<server, row, waits, guard, req>>
  BY DEF WatcherReleases, ReleaseRun, IInv, TablesOK, TaskSet, Busy, Alive
<1>2. TablesOK'
  BY <1>1 DEF IInv, TablesOK, TaskSet
<1>3. RequestsOK'
  BY <1>1 DEF IInv, RequestsOK
<1>4. StartsOK'
  BY <1>1 DEF IInv, StartsOK, TaskSet, Starting
<1>5. TasksOK'
  BY <1>1 DEF IInv, TasksOK, TaskSet, TaskState, Unreturned
<1>6. ReservationOK'
  BY <1>1 DEF IInv, ReservationOK, Writing, ShutdownOK, Drained, TasksOK, Unreturned
<1>7. SeenOK'
  BY <1>1 DEF IInv, SeenOK
<1>8. StreamsOK'
  BY <1>1 DEF IInv, StreamsOK, At
<1>9. ShutdownOK'
  BY <1>1 DEF IInv, ShutdownOK, TaskSet, Unreturned, Drained
<1>10. GuardOK'
  <2>1. \A q \in Live : Driving(q)' => Driving(q)
    BY <1>1, RunServerConstants DEF Driving, TaskSet
  <2> QED
    BY <1>1, <2>1 DEF IInv, GuardOK, OnLoop, Handling, At
<1>11. DoneFollowsLastSample'
  BY <1>1 DEF IInv, DoneFollowsLastSample, Present, At
<1>12. ShutdownEndsEveryRun'
  BY <1>1 DEF ShutdownEndsEveryRun
<1> QED
  BY <1>2, <1>3, <1>4, <1>5, <1>6, <1>7, <1>8, <1>9, <1>10, <1>11, <1>12 DEF IInv

LEMMA RetentionIInv ==
    ASSUME IInv, NEW r \in Run, Retention(r)
    PROVE  IInv'
<1>1. /\ row[r].outcome \in Terminal
      /\ RowSet(r, "deleted", row[r].samples)
      /\ UNCHANGED <<tasks, exclusive, server, task, waits, guard, req>>
  BY RowStep DEF Retention, IInv, registry
<1>2. TablesOK'
  BY <1>1 DEF IInv, TablesOK, RowSet
<1>3. RequestsOK'
  BY <1>1 DEF IInv, RequestsOK
<1>4. StartsOK'
  BY <1>1 DEF IInv, StartsOK, RowSet, Starting, Terminal
<1>5. TasksOK'
  BY <1>1 DEF IInv, TasksOK, RowSet, Terminal
<1>6. ReservationOK'
  BY <1>1 DEF IInv, ReservationOK, Writing
<1>7. SeenOK'
  BY <1>1 DEF IInv, SeenOK, RowSet
<1>8. StreamsOK'
  BY <1>1 DEF IInv, StreamsOK, At
<1>9. ShutdownOK'
  BY <1>1 DEF IInv, ShutdownOK, Drained
<1>10. GuardOK'
  BY <1>1 DEF IInv, GuardOK, OnLoop, Handling, At, Driving, RowSet
<1>11. DoneFollowsLastSample'
  BY <1>1 DEF IInv, DoneFollowsLastSample, RowSet, StreamsOK, SeenOK, Present, At
<1>12. ShutdownEndsEveryRun'
  BY <1>1 DEF IInv, ShutdownEndsEveryRun
<1> QED
  BY <1>2, <1>3, <1>4, <1>5, <1>6, <1>7, <1>8, <1>9, <1>10, <1>11, <1>12 DEF IInv

LEMMA ShutdownIInv ==
    ASSUME IInv, Shutdown
    PROVE  IInv'
<1>2. TablesOK'
  BY DEF IInv, TablesOK, Shutdown
<1>3. RequestsOK'
  BY DEF IInv, RequestsOK, Shutdown
<1>4. StartsOK'
  BY DEF IInv, StartsOK, Starting, Shutdown
<1>5. TasksOK'
  BY DEF IInv, TasksOK, Shutdown, registry
<1>6. ReservationOK'
  BY DEF IInv, ReservationOK, Writing, Shutdown, registry
<1>7. SeenOK'
  BY DEF IInv, SeenOK, Shutdown
<1>8. StreamsOK'
  BY DEF IInv, StreamsOK, At, Shutdown
<1>9. ShutdownOK'
  BY DEF ShutdownOK, Shutdown
<1>10. GuardOK'
  BY DEF IInv, GuardOK, OnLoop, Handling, At, Driving, Shutdown
<1>11. DoneFollowsLastSample'
  BY DEF IInv, DoneFollowsLastSample, Present, At, Shutdown
<1>12. ShutdownEndsEveryRun'
  BY DEF ShutdownEndsEveryRun, Shutdown
<1> QED
  BY <1>2, <1>3, <1>4, <1>5, <1>6, <1>7, <1>8, <1>9, <1>10, <1>11, <1>12 DEF IInv

LEMMA CancelRunsIInv ==
    ASSUME IInv, CancelRuns
    PROVE  IInv'
<1>2. TablesOK'
  BY DEF IInv, TablesOK, CancelRuns
<1>3. RequestsOK'
  BY DEF IInv, RequestsOK, CancelRuns
<1>4. StartsOK'
  BY DEF IInv, StartsOK, Starting, CancelRuns
<1>5. TasksOK'
  BY DEF IInv, TasksOK, CancelRuns
<1>6. ReservationOK'
  BY DEF ReservationOK, Writing, Drained, CancelRuns, CancelAll
<1>7. SeenOK'
  BY DEF IInv, SeenOK, CancelRuns
<1>8. StreamsOK'
  BY DEF IInv, StreamsOK, At, CancelRuns
<1>9. ShutdownOK'
  BY DEF IInv, ShutdownOK, TasksOK, Drained, CancelRuns
<1>10. GuardOK'
  BY DEF IInv, GuardOK, OnLoop, Handling, At, Driving, CancelRuns
<1>11. DoneFollowsLastSample'
  BY DEF IInv, DoneFollowsLastSample, Present, At, CancelRuns
<1>12. ShutdownEndsEveryRun'
  BY DEF ShutdownEndsEveryRun, CancelRuns
<1> QED
  BY <1>2, <1>3, <1>4, <1>5, <1>6, <1>7, <1>8, <1>9, <1>10, <1>11, <1>12 DEF IInv

LEMMA ExitIInv ==
    ASSUME IInv, Exit
    PROVE  IInv'
<1>2. TablesOK'
  BY DEF IInv, TablesOK, Exit
<1>3. RequestsOK'
  BY DEF IInv, RequestsOK, Exit
<1>4. StartsOK'
  BY DEF IInv, StartsOK, Starting, Exit
<1>5. TasksOK'
  BY DEF IInv, TasksOK, Exit
<1>6. ReservationOK'
  BY DEF IInv, ReservationOK, Writing, Exit, registry
<1>7. SeenOK'
  BY DEF IInv, SeenOK, Exit
<1>8. StreamsOK'
  BY DEF IInv, StreamsOK, At, Exit
<1>9. ShutdownOK'
  BY DEF IInv, ShutdownOK, Drained, Exit
<1>10. GuardOK'
  BY DEF IInv, GuardOK, OnLoop, Handling, At, Driving, Exit
<1>11. DoneFollowsLastSample'
  BY DEF IInv, DoneFollowsLastSample, Present, At, Exit
<1>12. ShutdownEndsEveryRun'
  BY DEF IInv, ShutdownEndsEveryRun, TasksOK, TaskState, Unreturned, ShutdownOK, Exit
<1> QED
  BY <1>2, <1>3, <1>4, <1>5, <1>6, <1>7, <1>8, <1>9, <1>10, <1>11, <1>12 DEF IInv

LEMMA NextIInv == IInv /\ [Next]_vars => IInv'
<1> SUFFICES ASSUME IInv, [Next]_vars PROVE IInv'
  OBVIOUS
<1>1. ASSUME NEW c \in Client, Handler(c) PROVE IInv'
  BY <1>1, StartRunIInv, InsertRowIInv, TakeLoopIInv, ConnectDriverIInv, RegisterTaskIInv,
         LookUpIInv, CancelIInv, UpdateNotesIInv, DeleteIInv, ReserveForWriteIInv,
         AcquireForWriteIInv, WriteConstantsIInv, ReleaseReservationIInv, PollRunIInv,
         PollSamplesIInv, QueryFailsIInv DEF Handler
<1>2. ASSUME NEW c \in Client, Disconnect(c) PROVE IInv'
  BY <1>2, DisconnectIInv
<1>3. ASSUME NEW r \in Run, Task(r) \/ Retention(r) PROVE IInv'
  BY <1>3, TestStartsIInv, TickIInv, TestEndsIInv, ObserveCancelIInv, RecordOutcomeIInv,
         DriveReturnsIInv, TaskPanicsIInv, WatcherReleasesIInv, RetentionIInv DEF Task
<1>4. CASE Shutdown \/ CancelRuns \/ Exit
  BY <1>4, ShutdownIInv, CancelRunsIInv, ExitIInv
<1>5. CASE UNCHANGED vars
  BY <1>5 DEF vars, registry, IInv, TablesOK, RequestsOK, StartsOK, Starting, TasksOK,
     ReservationOK, Writing, SeenOK, StreamsOK, At, ShutdownOK, Drained, GuardOK, OnLoop,
     Handling, Driving, DoneFollowsLastSample, Present, ShutdownEndsEveryRun
<1> QED
  BY <1>1, <1>2, <1>3, <1>4, <1>5 DEF Next

\* Requests, reservations, tasks and streams fit together at every step of the
\* server, wherever a client leaves it (active_run.rs, routes/runs).
THEOREM Inductive == Spec => []IInv
  BY InitIInv, NextIInv, PTL DEF Spec

-----------------------------------------------------------------------------
(* The theorems.                                                           *)

\* The loop is never shared: the checks of ActiveRun::start and
\* ActiveRun::reserve keep writes and tunes apart wherever a client leaves its
\* request (active_run.rs, routes/runs), and the lock that
\* LiveOperationGuard::acquire takes is held for the run of whoever may call the
\* driver, whatever became of the claim (live_ownership.rs).
THEOREM LoopIsNeverShared == Spec => []LoopIsExclusive
<1>1. IInv => WriteExcludesTunes
  BY ReservedExcludes DEF WriteExcludesTunes
<1>2. IInv => OneUserOfTheLoop
  <2> SUFFICES ASSUME IInv, NEW u \in LoopUsers, NEW v \in LoopUsers
               PROVE  u = v
    BY DEF OneUserOfTheLoop
  <2>1. ASSUME NEW w \in LoopUsers
        PROVE  \/ \E r \in Live : w = <<"task", r>> /\ Driving(r) /\ guard = r
               \/ \E c \in Client : /\ w = <<req[c].kind, c>>
                                    /\ Handling(c) /\ guard = req[c].run
    BY <2>1 DEF IInv, GuardOK, OnLoop, Handling, LoopUsers, At
  <2>2. ASSUME NEW r \in Live, NEW c \in Client, Driving(r), Handling(c)
        PROVE  req[c].run # r
    BY <2>2, OneUserOfARun
  <2>3. ASSUME NEW c \in Client, NEW d \in Client, Handling(c), Handling(d),
               req[c].run = req[d].run
        PROVE  c = d
    BY <2>3, OneUserOfARun
  <2> QED
    BY <2>1, <2>2, <2>3
<1>3. IInv => LoopIsExclusive
  BY <1>1, <1>2 DEF LoopIsExclusive
<1> QED
  BY <1>3, Inductive, PTL

\* A step that gives up the claim of a run leaves the run finished or gone.
LEMMA ClaimStep ==
    ASSUME IInv, [Next]_vars, NEW r \in Run, claim = r, claim' # r
    PROVE  row'[r].outcome # "running"
<1>1. claim # None
  BY RunServerConstants
<1>2. ASSUME NEW c \in Client, TakeLoop(c) \/ AcquireForWrite(c) PROVE FALSE
  BY <1>1, <1>2 DEF TakeLoop, AcquireForWrite, LoopIsFree
<1>3. ASSUME NEW c \in Client, ConnectDriver(c) PROVE row'[r].outcome # "running"
  <2>1. r = req[c].run /\ row' = [row EXCEPT ![r].outcome = "failed"]
    BY <1>3 DEF ConnectDriver, MayReleaseClaim
  <2> QED
    BY <2>1, RowStep DEF IInv, RowSet
<1>4. ASSUME NEW c \in Client, WriteConstants(c) PROVE row'[r].outcome # "running"
  <2>1. r = req[c].run /\ Writing(c) /\ UNCHANGED row
    BY <1>4 DEF WriteConstants, MayReleaseClaim, Writing, Ready, At
  <2> QED
    BY <2>1 DEF IInv, ReservationOK, SeenOK, Terminal
<1>5. ASSUME NEW c \in Client, Delete(c) PROVE row'[r].outcome # "running"
  <2>1. r = req[c].run /\ row' = [row EXCEPT ![r].outcome = "deleted"]
    BY <1>5 DEF Delete, Cascades
  <2> QED
    BY <2>1, RowStep DEF IInv, RowSet
<1>6. ASSUME NEW q \in Run, Retention(q) PROVE row'[r].outcome # "running"
  <2>1. row' = [row EXCEPT ![r].outcome = "deleted"]
    BY <1>6 DEF Retention, Cascades
  <2>2. RowSet(r, "deleted", row[r].samples)
    BY <2>1, RowStep DEF IInv
  <2> QED
    BY <2>2 DEF RowSet
<1>7. ASSUME NEW q \in Run, DriveReturns(q) PROVE row'[r].outcome # "running"
  <2>1. /\ q = r /\ task[r] = "recorded"
        /\ UNCHANGED row \/ row' = [row EXCEPT ![r].outcome = "failed"]
    BY <1>7 DEF DriveReturns, MayReleaseClaim, Busy
  <2>2. row[r].outcome # "running"
    BY <2>1 DEF IInv, TasksOK, Terminal
  <2> QED
    BY <2>1, <2>2, RowStep DEF IInv, RowSet
<1>8. ASSUME NEW c \in Client, Handler(c) \/ Disconnect(c)
      PROVE  row'[r].outcome # "running"
  BY <1>2, <1>3, <1>4, <1>5, <1>8 DEF Handler, StartRun, InsertRow, RegisterTask, LookUp, Cancel,
     UpdateNotes, ReserveForWrite, ReleaseReservation, PollRun, PollSamples, QueryFails, Disconnect
<1>9. ASSUME NEW q \in Run, Task(q) \/ Retention(q) PROVE row'[r].outcome # "running"
  BY <1>6, <1>7, <1>9 DEF Task, TestStarts, Tick, TestEnds, ObserveCancel, RecordOutcome,
     TaskPanics, WatcherReleases
<1> QED
  BY <1>8, <1>9 DEF Next, Shutdown, CancelRuns, Exit, vars

\* The claim of a run outlives it, whatever fails (complete_driver_setup,
\* drive_report, the cascade of a deletion).
THEOREM ClaimsOutliveRuns == Spec => ClaimOutlivesRun
<1>1. IInv /\ [Next]_vars =>
        [\A r \in Run : claim = r /\ claim' # r => row'[r].outcome # "running"]_vars
  BY ClaimStep
<1> QED
  BY <1>1, Inductive, PTL DEF Spec, ClaimOutlivesRun

\* An event stream that says done has sent every sample of a run that still
\* exists (stream_run asks for the outcome before the samples).
THEOREM StreamsSendEverySample == Spec => []DoneFollowsLastSample
<1>1. IInv => DoneFollowsLastSample
  BY DEF IInv
<1> QED
  BY <1>1, Inductive, PTL

\* A process that exits in time has ended every run it started, whatever was
\* being prepared when the signal came (serve_http, cancel_and_wait).
THEOREM ShutdownLeavesNothing == Spec => []ShutdownEndsEveryRun
<1>1. IInv => ShutdownEndsEveryRun
  BY DEF IInv
<1> QED
  BY <1>1, Inductive, PTL
=============================================================================
