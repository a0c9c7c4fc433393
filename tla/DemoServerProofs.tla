-------------------------- MODULE DemoServerProofs --------------------------
(***************************************************************************)
(* Safety of the Demo server for any number of visitors, addresses,        *)
(* requests and runs and any limits: no limit is ever passed, and what a   *)
(* visitor has started stays counted against him and kept for him.         *)
(*                                                                         *)
(* The invariant says who holds what.  A start holds its permits from the  *)
(* admission until its task ends (PermitsInv), the admission mutex until   *)
(* its row is inserted (AdmissionInv), its slot in both windows until it   *)
(* is released (SlotsInv), and its row and session while it is driven      *)
(* (RunsInv).  No two starts ever bear the same run, which is what lets a  *)
(* task give back the permits of the request that started it.              *)
(***************************************************************************)
EXTENDS DemoServer, FiniteSetTheorems, TLAPS

\* Where a start is between the admission and the registration of its run.
Preparing == {"reserve", "clean", "session", "insert", "register"}
Starting(c) == req[c].kind = "start"
Prepares(c) == Starting(c) /\ req[c].pc \in Preparing

\* The starts that have inserted their row.
Bears(c) == Starting(c) /\ req[c].run # None

ReqFits(c) ==
    /\ req[c].pc = "idle" => req[c] = Rest
    /\ Starting(c) => /\ req[c].visitor \in Visitor /\ req[c].ip \in Ip
                      /\ req[c].pc \in Preparing \cup {"admit", "detail", "done", "dropped"}
    /\ Bears(c) => req[c].pc \in {"register", "detail", "done", "dropped"}
    /\ At(c, "start", "register") => req[c].run \in Run
    /\ (At(c, "stream", "found") \/ At(c, "stream", "poll")) => req[c].visitor \in Visitor

\* Every row that says running has its session, every driven run its row, and
\* every task the one request that started it.
RowsFit ==
    /\ \A r \in Run : row[r].outcome = "running" =>
          row[r].owner # 0 /\ \E v \in Visitor : session[v].id = row[r].owner
    /\ \A r \in Run : row[r].owner <= lastId
    /\ \A v \in Visitor : session[v].id <= lastId
    /\ \A r \in Run : task[r] = "driving" => row[r].outcome = "running"
StartsFit ==
    /\ \A c \in Req : At(c, "start", "register") =>
          row[req[c].run].outcome = "running" /\ task[req[c].run] = "none"
    /\ \A c, d \in Req : Bears(c) /\ Bears(d) /\ req[c].run = req[d].run => c = d
    /\ \A c \in Req : Bears(c) => row[req[c].run].outcome # "absent"
    /\ \A r \in Run : task[r] # "none" => \E c \in Req : Bears(c) /\ req[c].run = r
RunsInv == (\A c \in Req : ReqFits(c)) /\ RowsFit /\ StartsFit

\* The permits of what is being admitted or driven, and of the open streams.
Holding(c) ==
    /\ Starting(c)
    /\ \/ req[c].pc \in Preparing
       \/ req[c].run # None /\ task[req[c].run] # "none"
PermitsInv ==
    /\ \A c \in Req : Holding(c) => c \in runSem[req[c].visitor].held /\ c \in globalRun
    /\ \A v \in Visitor : Cardinality(runSem[v].held) <= VisitorRuns
    /\ Cardinality(globalRun) <= GlobalRuns
    /\ \A c \in OpenStreams : c \in streamSem[req[c].visitor].held
    /\ \A v \in Visitor : Cardinality(streamSem[v].held) <= VisitorStreams
    /\ Cardinality(OpenStreams) <= GlobalStreams

\* One start at a time checks the row limits and inserts.
AdmissionInv ==
    /\ \A c \in Req : Prepares(c) => admission = c
    /\ \A c \in Req : At(c, "start", "session") \/ At(c, "start", "insert") =>
          CountDemoOwned < GlobalRows
    /\ \A c \in Req : At(c, "start", "insert") => CountOwned(req[c].owner) < SessionRuns

\* The slot of a start that was not released.
Slotted(c) == Starting(c) /\ (req[c].pc \in {"clean", "session", "insert"} \/ req[c].run # None)
SlotsOf(starts, c) == {s \in starts : s.id = c}
SlotsInv ==
    /\ \A c \in Req : req[c].pc \in {"idle", "admit", "reserve"} =>
          /\ \A v \in Visitor : SlotsOf(byToken[v], c) = {}
          /\ \A i \in Ip : SlotsOf(byIp[i], c) = {}
    /\ \A c \in Req : Starting(c) =>
          SlotsOf(byToken[req[c].visitor], c) = SlotsOf(byIp[req[c].ip], c)
    /\ \A c \in Req : Slotted(c) /\ req[c].at > now - Window =>
          [id |-> c, at |-> req[c].at] \in byToken[req[c].visitor]

\* The inductive invariant.
IInv == TypeOK /\ RunsInv /\ PermitsInv /\ AdmissionInv /\ SlotsInv

-----------------------------------------------------------------------------
(* What an action does to the requests, one request at a time.             *)

\* Only request c moves.
Moves(c) == \A d \in Req : d # c => req'[d] = req[d]

\* Request c goes on to pc with everything else it knows.
Steps(c, pc) ==
    /\ Moves(c) /\ req'[c].pc = pc /\ req'[c].kind = req[c].kind
    /\ req'[c].visitor = req[c].visitor /\ req'[c].ip = req[c].ip
    /\ req'[c].run = req[c].run /\ req'[c].owner = req[c].owner /\ req'[c].at = req[c].at

\* Request c is answered and over.
Leaves(c) == Moves(c) /\ req'[c].kind = "none" /\ req'[c].pc = "done" /\ req'[c].run = None

ReqTypeOK == req \in [Req -> ReqRec]

LEMMA MovesTo ==
    ASSUME ReqTypeOK, NEW c \in Req, NEW w \in ReqRec, req' = [req EXCEPT ![c] = w]
    PROVE  ReqTypeOK' /\ Moves(c) /\ req'[c] = w
  BY DEF ReqTypeOK, Moves

LEMMA Bounds ==
    /\ MaxTime \in Nat /\ MaxRestarts \in Nat
    /\ MaxSession \in Nat /\ MaxSession > 0 /\ SessionTtl \in Nat /\ Window \in Nat
    /\ SessionTtl > 0 /\ Window > 0
  BY DemoConstants

LEMMA Limits ==
    /\ GlobalRuns \in Nat /\ VisitorRuns \in Nat /\ GlobalStreams \in Nat
    /\ VisitorStreams \in Nat /\ SessionRuns \in Nat /\ SessionRuns > 0 /\ GlobalRows \in Nat
  BY DemoConstants

LEMMA RestFits == Rest \in ReqRec
  BY Bounds DEF Rest, ReqRec, Kinds

LEMMA AnswersLeaves ==
    ASSUME ReqTypeOK, NEW c \in Req, NEW s \in {"ok", "refused"}, Answers(c, s)
    PROVE  ReqTypeOK' /\ Leaves(c)
<1> DEFINE w == Over(s)
<1>1. w \in ReqRec /\ w.kind = "none" /\ w.pc = "done" /\ w.run = None
  <2>1. w = [Rest EXCEPT !.pc = "done", !.status = s]
    BY DEF Over
  <2>2. Rest.kind = "none" /\ Rest.run = None
    BY DEF Rest
  <2> HIDE DEF w
  <2> QED
    BY <2>1, <2>2, RestFits DEF ReqRec
<1>2. req' = [req EXCEPT ![c] = w]
  BY DEF Answers
<1> HIDE DEF w
<1> QED
  BY <1>1, <1>2, MovesTo DEF Leaves

LEMMA GoesSteps ==
    ASSUME ReqTypeOK, NEW c \in Req, NEW pc, Goes(c, pc),
           pc \in {"reserve", "session", "detail", "poll", "dropped"}
    PROVE  ReqTypeOK' /\ Steps(c, pc)
<1> DEFINE w == [req[c] EXCEPT !.pc = pc]
<1>1. /\ w \in ReqRec /\ w.pc = pc /\ w.kind = req[c].kind /\ w.visitor = req[c].visitor
      /\ w.ip = req[c].ip /\ w.run = req[c].run /\ w.owner = req[c].owner /\ w.at = req[c].at
  BY DEF ReqTypeOK, ReqRec
<1>2. req' = [req EXCEPT ![c] = w]
  BY DEF Goes
<1> HIDE DEF w
<1> QED
  BY <1>1, <1>2, MovesTo DEF Steps

-----------------------------------------------------------------------------
(* What the helpers do to the database, the windows and the permits.       *)

Rows == [Run -> [owner: 0..MaxSession,
                 outcome: {"absent", "running", "completed", "failed", "aborted", "deleted"}]]
Sessions == [Visitor -> [id: 0..MaxSession, expires: 0..(MaxTime + SessionTtl)]]

\* A statement deletes the rows rs.
LEMMA WithoutRows ==
    ASSUME NEW rows \in Rows, NEW rs
    PROVE  /\ Without(rows, rs) \in Rows
           /\ \A r \in Run : /\ Without(rows, rs)[r].owner = rows[r].owner
                             /\ r \in rs => Without(rows, rs)[r].outcome = "deleted"
                             /\ r \notin rs => Without(rows, rs)[r] = rows[r]
  BY DEF Without, Rows

LEMMA ExcessTerminal ==
    ASSUME NEW rows
    PROVE  /\ \A o : Excess(rows, o) \subseteq {r \in Run : Terminal(rows, r) /\ rows[r].owner = o}
           /\ ExcessOfAll(rows) \subseteq {r \in Run : Terminal(rows, r)}
<1>1. ASSUME NEW o PROVE Excess(rows, o) \subseteq {r \in Run : Terminal(rows, r) /\ rows[r].owner = o}
  BY DEF Excess
<1>2. ExcessOfAll(rows) \subseteq {r \in Run : Terminal(rows, r)}
  BY <1>1 DEF ExcessOfAll
<1> QED
  BY <1>1, <1>2

\* Rows are deleted, a running one only by the request c that has just
\* inserted it; or c inserts the row of a run that fails at once.
Shrinks(c) ==
    \A r \in Run :
        \/ row'[r] = row[r]
        \/ /\ row'[r].owner = row[r].owner /\ row'[r].outcome = "deleted" /\ Present(r)
           /\ row[r].outcome = "running" => At(c, "start", "register") /\ req[c].run = r
        \/ /\ At(c, "start", "insert") /\ row[r].outcome = "absent"
           /\ row'[r].outcome = "failed" /\ row'[r].owner <= lastId

\* Rows that no longer run are deleted, and nothing else changes.
Prunes ==
    \A r \in Run :
        /\ row'[r].owner = row[r].owner
        /\ \/ row'[r] = row[r]
           \/ row'[r].outcome = "deleted" /\ Present(r) /\ row[r].outcome # "running"

LEMMA PrunesShrinks ==
    ASSUME Prunes, NEW c
    PROVE  Shrinks(c)
  BY DEF Prunes, Shrinks

\* Only sessions that no running run needs are removed.
Trims == \A v \in Visitor :
    \/ session'[v] = session[v]
    \/ /\ session'[v] = NoSession
       /\ ~ \E r \in Run : row[r].owner = session[v].id /\ row[r].outcome = "running"

LEMMA CleansUp ==
    ASSUME TypeOK, NEW rows \in Rows, NEW gone \in SUBSET Visitor, CleanUpExpired(rows, gone)
    PROVE  /\ row' \in Rows /\ session' \in Sessions /\ lastId' = lastId
           /\ \A v \in Visitor : session'[v] = IF v \in gone THEN NoSession ELSE session[v]
           /\ \A r \in Run : /\ row'[r].owner = rows[r].owner
                             /\ \/ row'[r] = rows[r]
                                \/ /\ row'[r].outcome = "deleted"
                                   /\ \/ Terminal(rows, r)
                                      \/ Present(r) /\ \E v \in gone : rows[r].owner = session[v].id
<1> DEFINE cascaded == {r \in Run : Present(r) /\ \E v \in gone : rows[r].owner = session[v].id}
           out == cascaded \cup ExcessOfAll(rows)
<1>1. /\ session' = [v \in Visitor |-> IF v \in gone THEN NoSession ELSE session[v]]
      /\ row' = Without(rows, out) /\ lastId' = lastId
  BY DEF CleanUpExpired
<1>2. session' \in Sessions
  BY <1>1, Bounds DEF TypeOK, Sessions, NoSession
<1>3. \A r \in out : \/ Terminal(rows, r)
                     \/ Present(r) /\ \E v \in gone : rows[r].owner = session[v].id
  <2>1. \A r \in ExcessOfAll(rows) : Terminal(rows, r)
    BY ExcessTerminal
  <2> QED
    BY <2>1
<1> HIDE DEF out
<1> QED
  BY <1>1, <1>2, <1>3, WithoutRows

LEMMA CleansUpExpired ==
    ASSUME TypeOK, NEW t, CleanUpExpired(row, Expired(t))
    PROVE  /\ row' \in Rows /\ session' \in Sessions /\ lastId' = lastId
           /\ Trims /\ Prunes
<1>1. row \in Rows /\ Expired(t) \in SUBSET Visitor
  BY DEF TypeOK, Rows, Expired
<1>2. \A v \in Expired(t) :
         ~ \E r \in Run : row[r].owner = session[v].id /\ row[r].outcome = "running"
  BY DEF Expired
<1>3. Trims
  BY <1>1, <1>2, CleansUp DEF Trims
<1>4. \A r \in Run : Terminal(row, r) => Present(r) /\ row[r].outcome # "running"
  BY DEF Terminal, Present
<1>5. \A r \in Run : /\ row'[r].owner = row[r].owner
                     /\ \/ row'[r] = row[r]
                        \/ /\ row'[r].outcome = "deleted" /\ Present(r)
                           /\ row[r].outcome # "running"
  BY <1>1, <1>2, <1>4, CleansUp
<1> QED
  BY <1>1, <1>3, <1>5, CleansUp DEF Prunes

\* What the windows keep for each request.
KeepsSlots(d) ==
    /\ \A v \in Visitor : SlotsOf(byToken'[v], d) = SlotsOf(byToken[v], d)
    /\ \A i \in Ip : SlotsOf(byIp'[i], d) = SlotsOf(byIp[i], d)

LEMMA ReleasesAccepted ==
    ASSUME TypeOK, NEW c \in Req, req[c].visitor \in Visitor, req[c].ip \in Ip, ReleaseAccepted(c)
    PROVE  /\ byToken' \in [Visitor -> SUBSET Slot] /\ byIp' \in [Ip -> SUBSET Slot]
           /\ \A d \in Req : d # c => KeepsSlots(d)
  BY DEF TypeOK, ReleaseAccepted, Unslotted, KeepsSlots, SlotsOf

LEMMA PrunesWindows ==
    ASSUME TypeOK, PruneWindows(now)
    PROVE  /\ byToken' \in [Visitor -> SUBSET Slot] /\ byIp' \in [Ip -> SUBSET Slot]
           /\ \A v \in Visitor : byToken'[v] = {s \in byToken[v] : s.at > now - Window}
           /\ \A i \in Ip : byIp'[i] = {s \in byIp[i] : s.at > now - Window}
  BY DEF TypeOK, PruneWindows, Pruned

\* No one's permits are taken but those of request c, and none are given.
Semaphores == [Visitor -> Semaphore]
LosesAtMost(sem, new, c) ==
    \A v \in Visitor : new[v].held \subseteq sem[v].held /\ sem[v].held \ {c} \subseteq new[v].held

LEMMA SemaphoreSteps ==
    ASSUME NEW sem \in Semaphores
    PROVE  /\ RetainActive(sem) \in Semaphores
           /\ \A v \in Visitor : RetainActive(sem)[v].held = sem[v].held
           /\ \A c : Returned(sem, c) \in Semaphores /\ LosesAtMost(sem, Returned(sem, c), c)
<1>1. RetainActive(sem) \in Semaphores /\ \A v \in Visitor : RetainActive(sem)[v].held = sem[v].held
  BY DEF Semaphores, Semaphore, RetainActive, Fresh
<1>2. ASSUME NEW c PROVE Returned(sem, c) \in Semaphores /\ LosesAtMost(sem, Returned(sem, c), c)
  BY DEF Semaphores, Semaphore, Returned, LosesAtMost
<1> QED
  BY <1>1, <1>2

LEMMA EntersSemaphore ==
    ASSUME NEW sem \in Semaphores, NEW v \in Visitor
    PROVE  /\ Entered(sem, v) \in Semaphores
           /\ \A w \in Visitor : Entered(sem, v)[w].held = sem[w].held
<1> DEFINE ret == RetainActive(sem)
<1>1. ret \in Semaphores /\ \A w \in Visitor : ret[w].held = sem[w].held
  BY SemaphoreSteps
<1>2. Entered(sem, v) = [ret EXCEPT ![v].entry = TRUE]
  BY DEF Entered
<1> HIDE DEF ret
<1> QED
  BY <1>1, <1>2 DEF Semaphores, Semaphore

LEMMA AcquiresPermit ==
    ASSUME NEW sem \in Semaphores, NEW v \in Visitor, NEW c \in Req
    PROVE  /\ Acquired(sem, v, c) \in Semaphores
           /\ Acquired(sem, v, c)[v].held = sem[v].held \cup {c}
           /\ \A w \in Visitor : w # v => Acquired(sem, v, c)[w].held = sem[w].held
<1> DEFINE ret == RetainActive(sem)
<1>1. ret \in Semaphores /\ \A w \in Visitor : ret[w].held = sem[w].held
  BY SemaphoreSteps
<1>2. Acquired(sem, v, c) = [ret EXCEPT ![v] = [entry |-> TRUE, held |-> ret[v].held \cup {c}]]
  BY DEF Acquired
<1> HIDE DEF ret
<1> QED
  BY <1>1, <1>2 DEF Semaphores, Semaphore

LEMMA OneMore ==
    ASSUME NEW S \in SUBSET Req, NEW c \in Req
    PROVE  /\ IsFiniteSet(S) /\ Cardinality(S) \in Nat
           /\ Cardinality(S \cup {c}) \in Nat /\ Cardinality(S \cup {c}) <= Cardinality(S) + 1
<1>1. IsFiniteSet(S) /\ IsFiniteSet(S \cup {c})
  BY DemoConstants, FS_Subset
<1>2. Cardinality(S) \in Nat /\ Cardinality(S \cup {c}) \in Nat
  BY <1>1, FS_CardinalityType
<1>3. Cardinality(S \cup {c}) <= Cardinality(S) + 1
  <2>1. CASE c \in S
    <3>1. S \cup {c} = S
      BY <2>1
    <3> QED
      BY <1>2, <3>1
  <2>2. CASE c \notin S
    BY <1>1, <1>2, <2>2, FS_AddElement
  <2> QED
    BY <2>1, <2>2
<1> QED
  BY <1>1, <1>2, <1>3

-----------------------------------------------------------------------------
(* When a step keeps each part of the invariant.                           *)

LEMMA KeepsRuns ==
    ASSUME RunsInv, TypeOK, TypeOK',
           \A d \in Req : ReqFits(d)',
           \A d \in Req : Bears(d)' => Bears(d) /\ req'[d].run = req[d].run,
           \A d \in Req : At(d, "start", "register")' =>
               /\ At(d, "start", "register") /\ row'[req[d].run].outcome = "running"
               /\ task'[req[d].run] = "none",
           \A r \in Run :
               /\ \/ row'[r].owner = row[r].owner
                  \/ /\ row'[r].outcome # "running" /\ row[r].outcome # "running"
                     /\ row'[r].owner <= lastId
               /\ row'[r].outcome = "running" => row[r].outcome = "running"
               /\ row[r].outcome # "absent" => row'[r].outcome # "absent",
           \A v \in Visitor :
               \/ session'[v].id = session[v].id
               \/ ~ \E r \in Run : row'[r].outcome = "running" /\ row[r].owner = session[v].id,
           lastId <= lastId', \A v \in Visitor : session'[v].id <= lastId',
           \A r \in Run : task'[r] = "driving" => task[r] = "driving" /\ row'[r].outcome = "running",
           \A r \in Run : task'[r] # "none" => task[r] # "none",
           \A d \in Req : Bears(d) /\ req[d].run \in Run /\ task'[req[d].run] # "none"
               => Bears(d)' /\ req'[d].run = req[d].run
    PROVE  RunsInv'
<1>1. RowsFit'
  <2>1. \A r \in Run : row'[r].outcome = "running" =>
           row'[r].owner # 0 /\ \E v \in Visitor : session'[v].id = row'[r].owner
    <3> SUFFICES ASSUME NEW r \in Run, row'[r].outcome = "running"
                 PROVE  row'[r].owner # 0 /\ \E v \in Visitor : session'[v].id = row'[r].owner
      OBVIOUS
    <3>1. row[r].outcome = "running" /\ row'[r].owner = row[r].owner
      OBVIOUS
    <3>2. PICK v \in Visitor : session[v].id = row[r].owner
      BY <3>1 DEF RunsInv, RowsFit
    <3>3. session'[v].id = session[v].id
      BY <3>1, <3>2
    <3> QED
      BY <3>1, <3>2, <3>3 DEF RunsInv, RowsFit
  <2>2. ASSUME NEW r \in Run PROVE row'[r].owner <= lastId'
    <3>1. lastId \in Int /\ lastId' \in Int /\ row'[r].owner \in Int
      BY Bounds DEF TypeOK
    <3>2. row'[r].owner <= lastId
      BY DEF RunsInv, RowsFit
    <3> QED
      BY <3>1, <3>2
  <2>3. \A r \in Run : task'[r] = "driving" => row'[r].outcome = "running"
    OBVIOUS
  <2> QED
    BY <2>1, <2>2, <2>3 DEF RowsFit
<1>2. \A d \in Req : At(d, "start", "register")' =>
         row'[req'[d].run].outcome = "running" /\ task'[req'[d].run] = "none"
  <2> SUFFICES ASSUME NEW d \in Req, At(d, "start", "register")'
               PROVE  row'[req'[d].run].outcome = "running" /\ task'[req'[d].run] = "none"
    OBVIOUS
  <2>1. Bears(d)'
    <3>1. req'[d].run \in Run /\ Starting(d)'
      BY DEF ReqFits, At, Starting
    <3> QED
      BY <3>1, DemoConstants DEF Bears
  <2> QED
    BY <2>1
<1>3. \A c, d \in Req : Bears(c)' /\ Bears(d)' /\ req'[c].run = req'[d].run => c = d
  BY DEF RunsInv, StartsFit
<1>4. \A d \in Req : Bears(d)' => row'[req'[d].run].outcome # "absent"
  <2> SUFFICES ASSUME NEW d \in Req, Bears(d)' PROVE row'[req'[d].run].outcome # "absent"
    OBVIOUS
  <2>1. Bears(d) /\ req'[d].run = req[d].run /\ row[req[d].run].outcome # "absent"
    BY DEF RunsInv, StartsFit
  <2>2. req[d].run \in Run
    BY <2>1 DEF TypeOK, ReqRec, Bears
  <2> QED
    BY <2>1, <2>2
<1>5. \A r \in Run : task'[r] # "none" => \E d \in Req : Bears(d)' /\ req'[d].run = r
  <2> SUFFICES ASSUME NEW r \in Run, task'[r] # "none"
               PROVE  \E d \in Req : Bears(d)' /\ req'[d].run = r
    OBVIOUS
  <2>1. PICK d \in Req : Bears(d) /\ req[d].run = r
    BY DEF RunsInv, StartsFit
  <2> QED
    BY <2>1
<1>6. StartsFit'
  BY <1>2, <1>3, <1>4, <1>5 DEF StartsFit
<1> QED
  BY <1>1, <1>6 DEF RunsInv

LEMMA KeepsPermits ==
    ASSUME PermitsInv, TypeOK, TypeOK',
           \A d \in Req : Holding(d)' =>
               /\ Holding(d) /\ req'[d].visitor = req[d].visitor /\ req[d].visitor \in Visitor
               /\ d \in globalRun => d \in globalRun'
               /\ \A v \in Visitor : d \in runSem[v].held => d \in runSem'[v].held,
           \A v \in Visitor : runSem'[v].held \subseteq runSem[v].held,
           globalRun' \subseteq globalRun,
           \A d \in Req : At(d, "stream", "poll")' =>
               /\ At(d, "stream", "poll") /\ req'[d].visitor = req[d].visitor
               /\ req[d].visitor \in Visitor
               /\ \A v \in Visitor : d \in streamSem[v].held => d \in streamSem'[v].held,
           \A v \in Visitor : streamSem'[v].held \subseteq streamSem[v].held
    PROVE  PermitsInv'
<1>1. /\ \A v \in Visitor : /\ IsFiniteSet(runSem[v].held) /\ IsFiniteSet(streamSem[v].held)
                            /\ IsFiniteSet(runSem'[v].held) /\ IsFiniteSet(streamSem'[v].held)
      /\ IsFiniteSet(globalRun) /\ IsFiniteSet(OpenStreams)
      /\ IsFiniteSet(globalRun') /\ IsFiniteSet(OpenStreams')
  <2>1. \A S \in SUBSET Req : IsFiniteSet(S)
    BY DemoConstants, FS_Subset
  <2>2. OpenStreams \in SUBSET Req /\ OpenStreams' \in SUBSET Req
    BY DEF OpenStreams
  <2> QED
    BY <2>1, <2>2 DEF TypeOK, Semaphore
<1>2. \A d \in Req : Holding(d)' => d \in runSem'[req'[d].visitor].held /\ d \in globalRun'
  BY DEF PermitsInv
<1>3. OpenStreams' \subseteq OpenStreams
  BY DEF OpenStreams
<1>4. \A d \in OpenStreams' : d \in streamSem'[req'[d].visitor].held
  BY DEF PermitsInv, OpenStreams
<1>5. \A v \in Visitor : /\ Cardinality(runSem'[v].held) <= Cardinality(runSem[v].held)
                         /\ Cardinality(streamSem'[v].held) <= Cardinality(streamSem[v].held)
  BY <1>1, FS_Subset
<1>6. /\ Cardinality(globalRun') <= Cardinality(globalRun)
      /\ Cardinality(OpenStreams') <= Cardinality(OpenStreams)
  BY <1>1, <1>3, FS_Subset
<1>7. /\ \A v \in Visitor : /\ Cardinality(runSem[v].held) \in Nat /\ Cardinality(runSem'[v].held) \in Nat
                            /\ Cardinality(streamSem[v].held) \in Nat
                            /\ Cardinality(streamSem'[v].held) \in Nat
      /\ Cardinality(globalRun) \in Nat /\ Cardinality(globalRun') \in Nat
      /\ Cardinality(OpenStreams) \in Nat /\ Cardinality(OpenStreams') \in Nat
  BY <1>1, FS_CardinalityType
<1>8. /\ \A v \in Visitor : /\ Cardinality(runSem'[v].held) <= VisitorRuns
                            /\ Cardinality(streamSem'[v].held) <= VisitorStreams
      /\ Cardinality(globalRun') <= GlobalRuns /\ Cardinality(OpenStreams') <= GlobalStreams
  BY <1>5, <1>6, <1>7, Limits DEF PermitsInv
<1> QED
  BY <1>2, <1>4, <1>8 DEF PermitsInv

LEMMA FewerRows ==
    ASSUME \A r \in Run : Present(r)' => Present(r) /\ row'[r].owner = row[r].owner
    PROVE  /\ CountDemoOwned \in Nat /\ CountDemoOwned' \in Nat
           /\ CountDemoOwned' <= CountDemoOwned
           /\ \A o : /\ CountOwned(o) \in Nat /\ CountOwned(o)' \in Nat
                     /\ CountOwned(o)' <= CountOwned(o)
<1>1. \A S \in SUBSET Run : IsFiniteSet(S) /\ Cardinality(S) \in Nat
  BY DemoConstants, FS_Subset, FS_CardinalityType
<1>2. \A S, T \in SUBSET Run : S \subseteq T => Cardinality(S) <= Cardinality(T)
  BY <1>1, FS_Subset
<1>3. /\ CountDemoOwned \in Nat /\ CountDemoOwned' \in Nat
      /\ CountDemoOwned' <= CountDemoOwned
  BY <1>1, <1>2 DEF CountDemoOwned
<1>4. ASSUME NEW o
      PROVE  /\ CountOwned(o) \in Nat /\ CountOwned(o)' \in Nat
             /\ CountOwned(o)' <= CountOwned(o)
  BY <1>1, <1>2 DEF CountOwned, Owned
<1> QED
  BY <1>3, <1>4

LEMMA KeepsAdmission ==
    ASSUME AdmissionInv, TypeOK,
           \A d \in Req : Prepares(d)' => admission' = d,
           \A d \in Req : At(d, "start", "session")' \/ At(d, "start", "insert")'
               => At(d, "start", "session") \/ At(d, "start", "insert"),
           \A d \in Req : At(d, "start", "insert")'
               => At(d, "start", "insert") /\ req'[d].owner = req[d].owner,
           (\E d \in Req : At(d, "start", "session")' \/ At(d, "start", "insert")')
               => \A r \in Run : Present(r)' => Present(r) /\ row'[r].owner = row[r].owner
    PROVE  AdmissionInv'
<1>1. GlobalRows \in Nat
  BY Limits
<1>2. \A d \in Req : At(d, "start", "session")' \/ At(d, "start", "insert")'
         => CountDemoOwned' < GlobalRows
  BY <1>1, FewerRows DEF AdmissionInv
<1>3. ASSUME NEW d \in Req, At(d, "start", "insert")'
      PROVE  CountOwned(req[d].owner)' < SessionRuns
  <2>1. PICK o : o = req[d].owner
    OBVIOUS
  <2>2. CountOwned(o) < SessionRuns /\ req'[d].owner = o
    BY <1>3, <2>1 DEF AdmissionInv
  <2>3. CountOwned(o)' < SessionRuns
    <3>1. \A r \in Run : Present(r)' => Present(r) /\ row'[r].owner = row[r].owner
      BY <1>3
    <3> QED
      BY <2>2, <3>1, FewerRows, Limits
  <2> QED
    BY <2>2, <2>3 DEF CountOwned, Owned
<1> QED
  BY <1>2, <1>3 DEF AdmissionInv

LEMMA KeepsSlotsOfAll ==
    ASSUME SlotsInv, TypeOK,
           \A d \in Req : req'[d].pc \in {"idle", "admit", "reserve"}
               => req[d].pc \in {"idle", "admit", "reserve"},
           \A d \in Req : Starting(d)' =>
               \/ req[d].pc = "idle" /\ req'[d].visitor \in Visitor /\ req'[d].ip \in Ip
               \/ Starting(d) /\ req'[d].visitor = req[d].visitor /\ req'[d].ip = req[d].ip,
           \A d \in Req : Slotted(d)' => Slotted(d) /\ req'[d].at = req[d].at,
           \A d \in Req : Starting(d) => req[d].visitor \in Visitor /\ req[d].ip \in Ip,
           now <= now', now' \in Int, \A d \in Req : ReqFits(d),
           \/ UNCHANGED windows
           \/ PruneWindows(now) /\ now' = now
           \/ \E c \in Req : /\ ReleaseAccepted(c) /\ ~Starting(c)'
                             /\ req[c].visitor \in Visitor /\ req[c].ip \in Ip
    PROVE  SlotsInv'
<1>1. \A d \in Req, v \in Visitor : SlotsOf(byToken'[v], d) \subseteq SlotsOf(byToken[v], d)
  BY PrunesWindows DEF SlotsOf, windows, TypeOK, ReleaseAccepted, Unslotted
<1>2. \A d \in Req, i \in Ip : SlotsOf(byIp'[i], d) \subseteq SlotsOf(byIp[i], d)
  BY PrunesWindows DEF SlotsOf, windows, TypeOK, ReleaseAccepted, Unslotted
<1>3. \A d \in Req, v \in Visitor, i \in Ip :
         Starting(d)' /\ SlotsOf(byToken[v], d) = SlotsOf(byIp[i], d)
            => SlotsOf(byToken'[v], d) = SlotsOf(byIp'[i], d)
  <2> SUFFICES ASSUME NEW d \in Req, NEW v \in Visitor, NEW i \in Ip, Starting(d)',
                      SlotsOf(byToken[v], d) = SlotsOf(byIp[i], d)
               PROVE  SlotsOf(byToken'[v], d) = SlotsOf(byIp'[i], d)
    OBVIOUS
  <2>1. CASE UNCHANGED windows
    BY <2>1 DEF windows
  <2>2. CASE PruneWindows(now) /\ now' = now
    <3>1. /\ SlotsOf(byToken'[v], d) = {s \in SlotsOf(byToken[v], d) : s.at > now - Window}
          /\ SlotsOf(byIp'[i], d) = {s \in SlotsOf(byIp[i], d) : s.at > now - Window}
      BY <2>2, PrunesWindows DEF SlotsOf
    <3> QED
      BY <3>1
  <2>3. ASSUME NEW c \in Req, ReleaseAccepted(c), ~Starting(c)',
               req[c].visitor \in Visitor, req[c].ip \in Ip
        PROVE  SlotsOf(byToken'[v], d) = SlotsOf(byIp'[i], d)
    BY <2>3, ReleasesAccepted DEF KeepsSlots
  <2> QED
    BY <2>1, <2>2, <2>3
<1>4. \A d \in Req, v \in Visitor : Starting(d)' =>
         \A s \in byToken[v] : s.id = d /\ s.at > now' - Window => s \in byToken'[v]
  <2> SUFFICES ASSUME NEW d \in Req, NEW v \in Visitor, Starting(d)', NEW s \in byToken[v],
                      s.id = d, s.at > now' - Window
               PROVE  s \in byToken'[v]
    OBVIOUS
  <2>1. CASE UNCHANGED windows
    BY <2>1 DEF windows
  <2>2. CASE PruneWindows(now) /\ now' = now
    BY <2>2, PrunesWindows
  <2>3. ASSUME NEW c \in Req, ReleaseAccepted(c), ~Starting(c)',
               req[c].visitor \in Visitor, req[c].ip \in Ip
        PROVE  s \in byToken'[v]
    <3>1. s \in SlotsOf(byToken'[v], d)
      BY <2>3, ReleasesAccepted DEF KeepsSlots, SlotsOf
    <3> QED
      BY <3>1 DEF SlotsOf
  <2> QED
    BY <2>1, <2>2, <2>3
<1>5. \A d \in Req : req'[d].pc \in {"idle", "admit", "reserve"} =>
         /\ \A v \in Visitor : SlotsOf(byToken'[v], d) = {}
         /\ \A i \in Ip : SlotsOf(byIp'[i], d) = {}
  <2> SUFFICES ASSUME NEW d \in Req, req'[d].pc \in {"idle", "admit", "reserve"}
               PROVE  /\ \A v \in Visitor : SlotsOf(byToken'[v], d) = {}
                      /\ \A i \in Ip : SlotsOf(byIp'[i], d) = {}
    OBVIOUS
  <2>1. /\ \A v \in Visitor : SlotsOf(byToken[v], d) = {}
        /\ \A i \in Ip : SlotsOf(byIp[i], d) = {}
    BY DEF SlotsInv
  <2> QED
    BY <1>1, <1>2, <2>1
<1>6. \A d \in Req : Starting(d)' =>
         SlotsOf(byToken'[req'[d].visitor], d) = SlotsOf(byIp'[req'[d].ip], d)
  <2> SUFFICES ASSUME NEW d \in Req, Starting(d)'
               PROVE  SlotsOf(byToken'[req'[d].visitor], d) = SlotsOf(byIp'[req'[d].ip], d)
    OBVIOUS
  <2>1. CASE req[d].pc = "idle" /\ req'[d].visitor \in Visitor /\ req'[d].ip \in Ip
    <3>1. PICK v \in Visitor, i \in Ip : v = req'[d].visitor /\ i = req'[d].ip
      BY <2>1
    <3>2. SlotsOf(byToken[v], d) = SlotsOf(byIp[i], d)
      BY <2>1 DEF SlotsInv
    <3>3. SlotsOf(byToken'[v], d) = SlotsOf(byIp'[i], d)
      BY <1>3, <3>2
    <3> QED
      BY <3>1, <3>3
  <2>2. CASE Starting(d) /\ req'[d].visitor = req[d].visitor /\ req'[d].ip = req[d].ip
    BY <1>3, <2>2 DEF SlotsInv
  <2> QED
    BY <2>1, <2>2
<1>7. \A d \in Req : Slotted(d)' /\ req'[d].at > now' - Window =>
         [id |-> d, at |-> req'[d].at] \in byToken'[req'[d].visitor]
  <2> SUFFICES ASSUME NEW d \in Req, Slotted(d)', req'[d].at > now' - Window
               PROVE  [id |-> d, at |-> req'[d].at] \in byToken'[req'[d].visitor]
    OBVIOUS
  <2>1. /\ Slotted(d) /\ req'[d].at = req[d].at /\ Starting(d)' /\ Starting(d)
        /\ req[d].at \in Int /\ now \in Int /\ now' \in Int
    BY Bounds DEF Slotted, TypeOK, ReqRec
  <2>2. req[d].pc # "idle"
    BY <2>1 DEF ReqFits, Rest, Starting
  <2>3. req'[d].visitor = req[d].visitor /\ req[d].visitor \in Visitor
    BY <2>1, <2>2
  <2>4. [id |-> d, at |-> req[d].at] \in byToken[req[d].visitor]
    BY <2>1, Bounds DEF SlotsInv
  <2> QED
    BY <1>4, <2>1, <2>3, <2>4
<1> QED
  BY <1>5, <1>6, <1>7 DEF SlotsInv

\* A request that ends, whatever it gives back and however the database
\* shrinks on the way: no other request loses anything.
LEMMA LeavesIInv ==
    ASSUME IInv, TypeOK', NEW c \in Req, Leaves(c),
           ~ (Bears(c) /\ task[req[c].run] # "none"),
           UNCHANGED <<task, now, lastId>>, Shrinks(c), Trims,
           \/ UNCHANGED windows
           \/ PruneWindows(now)
           \/ ReleaseAccepted(c) /\ Starting(c),
           LosesAtMost(runSem, runSem', c), LosesAtMost(streamSem, streamSem', c),
           globalRun' \in {globalRun, globalRun \ {c}},
           admission' = admission \/ admission = c
    PROVE  IInv'
<1>1. /\ \A d \in Req : d # c => req'[d] = req[d]
      /\ req'[c].kind = "none" /\ req'[c].pc = "done" /\ req'[c].run = None
  BY DEF Leaves, Moves
<1>2. \A d \in Req : ReqFits(d)
  BY DEF IInv, RunsInv
<1>3. \A d \in Req : ReqFits(d)'
  BY <1>1, <1>2 DEF ReqFits, Bears, Starting, At
<1>4. \A d \in Req : Starting(d)' => d # c /\ Starting(d) /\ req'[d] = req[d]
  BY <1>1 DEF Starting
<1>5. RunsInv'
  <2>1. \A d \in Req : Bears(d)' => d # c /\ Bears(d) /\ req'[d].run = req[d].run
    BY <1>4 DEF Bears
  <2>2. \A d \in Req : At(d, "start", "register")' =>
            d # c /\ At(d, "start", "register") /\ req'[d] = req[d]
    BY <1>1 DEF At
  <2>3. \A d \in Req : At(d, "start", "register") =>
            /\ Bears(d) /\ req[d].run \in Run /\ row[req[d].run].outcome = "running"
            /\ task[req[d].run] = "none"
    BY <1>2, DemoConstants DEF IInv, RunsInv, StartsFit, ReqFits, Bears, At, Starting
  <2>4. \A d \in Req : At(d, "start", "register")' =>
            /\ row'[req[d].run].outcome = "running" /\ task'[req[d].run] = "none"
    <3> SUFFICES ASSUME NEW d \in Req, At(d, "start", "register")'
                 PROVE  row'[req[d].run].outcome = "running" /\ task'[req[d].run] = "none"
      OBVIOUS
    <3>1. ~ (At(c, "start", "register") /\ req[c].run = req[d].run)
      BY <2>2, <2>3 DEF IInv, RunsInv, StartsFit
    <3> QED
      BY <2>2, <2>3, <3>1 DEF Shrinks
  <2>5. \A r \in Run : /\ \/ row'[r].owner = row[r].owner
                          \/ /\ row'[r].outcome # "running" /\ row[r].outcome # "running"
                             /\ row'[r].owner <= lastId
                       /\ row'[r].outcome = "running" => row[r].outcome = "running"
                       /\ row[r].outcome # "absent" => row'[r].outcome # "absent"
    BY DEF Shrinks
  <2>6. \A v \in Visitor :
           \/ session'[v].id = session[v].id
           \/ ~ \E r \in Run : row'[r].outcome = "running" /\ row[r].owner = session[v].id
    BY <2>5 DEF Trims, Shrinks
  <2>7. lastId <= lastId' /\ \A v \in Visitor : session'[v].id <= lastId'
    BY DEF Trims, NoSession, TypeOK, IInv, RunsInv, RowsFit
  <2>8. \A r \in Run : task'[r] = "driving" => task[r] = "driving" /\ row'[r].outcome = "running"
    <3> SUFFICES ASSUME NEW r \in Run, task[r] = "driving" PROVE row'[r].outcome = "running"
      OBVIOUS
    <3>1. row[r].outcome = "running" /\ ~ (At(c, "start", "register") /\ req[c].run = r)
      BY <2>3 DEF IInv, RunsInv, RowsFit
    <3> QED
      BY <3>1 DEF Shrinks
  <2>9. \A d \in Req : Bears(d) /\ req[d].run \in Run /\ task'[req[d].run] # "none"
           => Bears(d)' /\ req'[d].run = req[d].run
    BY <1>1 DEF Bears, Starting
  <2> QED
    BY <1>3, <2>1, <2>2, <2>4, <2>5, <2>6, <2>7, <2>8, <2>9, KeepsRuns DEF IInv
<1>6. PermitsInv'
  <2>1. \A d \in Req : Holding(d)' => d # c /\ Holding(d) /\ req'[d] = req[d]
    BY <1>4 DEF Holding
  <2>2. \A d \in Req : Holding(d) => req[d].visitor \in Visitor
    BY <1>2 DEF ReqFits, Holding
  <2>3. \A d \in Req : At(d, "stream", "poll")' =>
           d # c /\ At(d, "stream", "poll") /\ req'[d] = req[d] /\ req[d].visitor \in Visitor
    BY <1>1, <1>2 DEF At, ReqFits
  <2>4. /\ \A v \in Visitor : runSem'[v].held \subseteq runSem[v].held
        /\ \A v \in Visitor : streamSem'[v].held \subseteq streamSem[v].held
        /\ \A d \in Req, v \in Visitor : d # c /\ d \in runSem[v].held => d \in runSem'[v].held
        /\ \A d \in Req, v \in Visitor : d # c /\ d \in streamSem[v].held => d \in streamSem'[v].held
    BY DEF LosesAtMost
  <2>5. globalRun' \subseteq globalRun /\ \A d \in Req : d # c /\ d \in globalRun => d \in globalRun'
    OBVIOUS
  <2> QED
    BY <2>1, <2>2, <2>3, <2>4, <2>5, KeepsPermits DEF IInv
<1>7. AdmissionInv'
  <2>1. \A d \in Req : Prepares(d)' => admission' = d
    BY <1>4 DEF Prepares, IInv, AdmissionInv
  <2>2. \A d \in Req : At(d, "start", "session")' \/ At(d, "start", "insert")'
            => At(d, "start", "session") \/ At(d, "start", "insert")
    BY <1>1 DEF At
  <2>3. \A d \in Req : At(d, "start", "insert")'
            => At(d, "start", "insert") /\ req'[d].owner = req[d].owner
    BY <1>1 DEF At
  <2>4. (\E d \in Req : At(d, "start", "session")' \/ At(d, "start", "insert")')
            => \A r \in Run : Present(r)' => Present(r) /\ row'[r].owner = row[r].owner
    <3> SUFFICES ASSUME NEW d \in Req, At(d, "start", "session")' \/ At(d, "start", "insert")',
                        NEW r \in Run, Present(r)'
                 PROVE  Present(r) /\ row'[r].owner = row[r].owner
      OBVIOUS
    <3>1. d # c /\ Prepares(d)
      BY <1>1 DEF At, Prepares, Starting, Preparing
    <3>2. ~ At(c, "start", "insert")
      BY <3>1 DEF At, Prepares, Starting, Preparing, IInv, AdmissionInv
    <3> QED
      BY <3>2 DEF Shrinks, Present
  <2> QED
    BY <2>1, <2>2, <2>3, <2>4, KeepsAdmission DEF IInv
<1>8. SlotsInv'
  <2>1. \A d \in Req : req'[d].pc \in {"idle", "admit", "reserve"}
            => req[d].pc \in {"idle", "admit", "reserve"}
    BY <1>1
  <2>2. \A d \in Req : Starting(d) => req[d].visitor \in Visitor /\ req[d].ip \in Ip
    BY <1>2 DEF ReqFits
  <2>3. \A d \in Req : Slotted(d)' => Slotted(d) /\ req'[d].at = req[d].at
    BY <1>4 DEF Slotted
  <2>4. now <= now' /\ now' \in Int
    BY Bounds DEF IInv, TypeOK
  <2>5. ~Starting(c)'
    BY <1>4
  <2>6. \/ UNCHANGED windows
        \/ PruneWindows(now) /\ now' = now
        \/ \E d \in Req : /\ ReleaseAccepted(d) /\ ~Starting(d)'
                          /\ req[d].visitor \in Visitor /\ req[d].ip \in Ip
    BY <2>2, <2>5
  <2>7. SlotsInv /\ TypeOK
    BY DEF IInv
  <2> QED
    BY <1>2, <1>4, <2>1, <2>2, <2>3, <2>4, <2>6, <2>7, KeepsSlotsOfAll
<1> QED
  BY <1>5, <1>6, <1>7, <1>8 DEF IInv

-----------------------------------------------------------------------------
(* The handlers of a start, up to its row.                                 *)

LEMMA PrunedRuns ==
    ASSUME RunsInv, TypeOK, TypeOK', Prunes, UNCHANGED task, lastId <= lastId',
           \A d \in Req : ReqFits(d)',
           \A d \in Req : /\ Bears(d)' <=> Bears(d)
                          /\ Bears(d) => req'[d].run = req[d].run
                          /\ At(d, "start", "register")' => At(d, "start", "register"),
           \A v \in Visitor :
               /\ \/ session'[v].id = session[v].id
                  \/ ~ \E r \in Run : row[r].outcome = "running" /\ row[r].owner = session[v].id
               /\ session'[v].id <= lastId'
    PROVE  RunsInv'
<1>1. \A r \in Run : /\ row'[r].owner = row[r].owner
                     /\ row'[r].outcome = "running" <=> row[r].outcome = "running"
                     /\ row[r].outcome # "absent" => row'[r].outcome # "absent"
  BY DEF Prunes
<1>2. \A d \in Req : At(d, "start", "register") =>
          /\ Bears(d) /\ req[d].run \in Run /\ row[req[d].run].outcome = "running"
          /\ task[req[d].run] = "none"
  BY DemoConstants DEF RunsInv, StartsFit, ReqFits, Bears, At, Starting
<1>3. \A d \in Req : At(d, "start", "register")' =>
          /\ At(d, "start", "register") /\ row'[req[d].run].outcome = "running"
          /\ task'[req[d].run] = "none"
  BY <1>1, <1>2
<1>4. \A v \in Visitor :
          \/ session'[v].id = session[v].id
          \/ ~ \E r \in Run : row'[r].outcome = "running" /\ row[r].owner = session[v].id
  BY <1>1
<1>5. \A r \in Run : task'[r] = "driving" => task[r] = "driving" /\ row'[r].outcome = "running"
  BY <1>1 DEF RunsInv, RowsFit
<1> QED
  BY <1>1, <1>3, <1>4, <1>5, KeepsRuns

\* The sessions of a step that leaves demo_sessions alone, or trims it.
LEMMA TrimmedSessions ==
    ASSUME RunsInv, TypeOK, Trims, lastId' = lastId
    PROVE  /\ lastId <= lastId'
           /\ \A v \in Visitor :
               /\ \/ session'[v].id = session[v].id
                  \/ ~ \E r \in Run : row[r].outcome = "running" /\ row[r].owner = session[v].id
               /\ session'[v].id <= lastId'
  BY DEF RunsInv, RowsFit, TypeOK, Trims, NoSession

LEMMA SameDatabase ==
    ASSUME UNCHANGED <<session, row>>
    PROVE  Trims /\ Prunes /\ \A c : Shrinks(c)
  BY DEF Trims, Prunes, Shrinks

LEMMA SameSemaphores ==
    ASSUME UNCHANGED <<runSem, streamSem>>, NEW c
    PROVE  LosesAtMost(runSem, runSem', c) /\ LosesAtMost(streamSem, streamSem', c)
  BY DEF LosesAtMost

\* Request c goes on with what it holds.
LEMMA KeepsHeld ==
    ASSUME IInv, TypeOK', NEW c \in Req, Moves(c),
           UNCHANGED <<now, byToken, byIp, runSem, streamSem, globalRun>>,
           \A d \in Req : Holding(d)' => Holding(d),
           Holding(c)' => req'[c].visitor = req[c].visitor,
           ~At(c, "stream", "poll")',
           req'[c].pc \in {"idle", "admit", "reserve"} => req[c].pc \in {"idle", "admit", "reserve"},
           Starting(c)' =>
               \/ req[c].pc = "idle" /\ req'[c].visitor \in Visitor /\ req'[c].ip \in Ip
               \/ Starting(c) /\ req'[c].visitor = req[c].visitor /\ req'[c].ip = req[c].ip,
           Slotted(c)' => Slotted(c) /\ req'[c].at = req[c].at
    PROVE  PermitsInv' /\ SlotsInv'
<1>1. \A d \in Req : d # c => req'[d] = req[d]
  BY DEF Moves
<1>2. \A d \in Req : ReqFits(d)
  BY DEF IInv, RunsInv
<1>3. PermitsInv'
  <2>1. \A d \in Req : Holding(d)' => Holding(d) /\ req'[d].visitor = req[d].visitor
    BY <1>1
  <2>2. \A d \in Req : At(d, "stream", "poll")' => At(d, "stream", "poll") /\ req'[d] = req[d]
    BY <1>1 DEF At
  <2>3. \A d \in Req : Holding(d) \/ At(d, "stream", "poll") => req[d].visitor \in Visitor
    BY <1>2 DEF ReqFits, Holding
  <2> QED
    BY <2>1, <2>2, <2>3, KeepsPermits DEF IInv
<1>4. SlotsInv'
  <2>1. \A d \in Req : req'[d].pc \in {"idle", "admit", "reserve"}
            => req[d].pc \in {"idle", "admit", "reserve"}
    BY <1>1
  <2>2. \A d \in Req : Starting(d)' =>
            \/ req[d].pc = "idle" /\ req'[d].visitor \in Visitor /\ req'[d].ip \in Ip
            \/ Starting(d) /\ req'[d].visitor = req[d].visitor /\ req'[d].ip = req[d].ip
    BY <1>1 DEF Starting
  <2>3. \A d \in Req : Slotted(d)' => Slotted(d) /\ req'[d].at = req[d].at
    BY <1>1 DEF Slotted, Starting
  <2>4. \A d \in Req : Starting(d) => req[d].visitor \in Visitor /\ req[d].ip \in Ip
    BY <1>2 DEF ReqFits
  <2>5. now <= now' /\ now' \in Int
    BY Bounds DEF IInv, TypeOK
  <2>6. SlotsInv /\ TypeOK /\ UNCHANGED windows
    BY DEF IInv, windows
  <2> QED
    BY <1>2, <2>1, <2>2, <2>3, <2>4, <2>5, <2>6, KeepsSlotsOfAll
<1> QED
  BY <1>3, <1>4

LEMMA StartRunIInv ==
    ASSUME IInv, NEW c \in Req, StartRun(c)
    PROVE  IInv'
<1>1. /\ UNCHANGED <<registry, now, database, task, admission, windows, permits, restarts>>
      /\ req[c].pc = "idle"
  BY DEF StartRun
<1>2. UNCHANGED <<now, session, lastId, row, task, admission, byToken, byIp, runSem, streamSem,
                  globalRun, tasks, exclusive, cancelled, restarts>>
  BY <1>1 DEF registry, database, windows, permits
<1>3. req[c] = Rest /\ \A d \in Req : ReqFits(d)
  BY <1>1 DEF IInv, RunsInv, ReqFits
<1>4. ReqTypeOK
  BY DEF IInv, TypeOK, ReqTypeOK
<1>5. CASE Answers(c, "refused")
  <2>1. ReqTypeOK' /\ Leaves(c)
    BY <1>4, <1>5, AnswersLeaves
  <2>2. TypeOK'
    BY <1>2, <2>1 DEF IInv, TypeOK, RegistryTypeOK, ReqTypeOK
  <2>3. ~Bears(c)
    BY <1>3 DEF Bears, Rest
  <2> QED
    BY <1>2, <2>1, <2>2, <2>3, SameDatabase, SameSemaphores, LeavesIInv DEF windows
<1>6. ASSUME NEW v \in Visitor, NEW peer \in Ip, NEW forwarded \in Ip \cup {None},
             req' = [req EXCEPT ![c].kind = "start", ![c].visitor = v, ![c].pc = "admit",
                                ![c].ip = ClientIp(peer, forwarded)]
      PROVE  IInv'
  <2> DEFINE w == [req[c] EXCEPT !.kind = "start", !.visitor = v, !.pc = "admit",
                                 !.ip = ClientIp(peer, forwarded)]
  <2>1. ClientIp(peer, forwarded) \in Ip
    BY DEF ClientIp
  <2>2. /\ w \in ReqRec /\ w.kind = "start" /\ w.visitor \in Visitor /\ w.pc = "admit"
        /\ w.ip \in Ip /\ w.run = None
    <3>1. req[c] \in ReqRec /\ req[c].run = None
      BY <1>3, RestFits DEF Rest
    <3> QED
      BY <2>1, <3>1 DEF ReqRec, Kinds
  <2>3. req' = [req EXCEPT ![c] = w]
    BY <1>6
  <2> HIDE DEF w
  <2>4. ReqTypeOK' /\ Moves(c) /\ req'[c] = w
    BY <1>4, <2>2, <2>3, MovesTo
  <2>5. TypeOK'
    BY <1>2, <2>4 DEF IInv, TypeOK, RegistryTypeOK, ReqTypeOK
  <2>6. \A d \in Req : d # c => req'[d] = req[d]
    BY <2>4 DEF Moves
  <2>7. \A d \in Req : ReqFits(d)'
    BY <1>3, <2>2, <2>4, <2>6 DEF ReqFits, Bears, Starting, At
  <2>8. ~Starting(c) /\ ~Bears(c) /\ ~Bears(c)'
    BY <1>3, <2>2, <2>4 DEF Starting, Bears, Rest
  <2>9. RunsInv'
    <3>1. \A d \in Req : /\ Bears(d)' <=> Bears(d)
                         /\ Bears(d) => req'[d].run = req[d].run
                         /\ At(d, "start", "register")' => At(d, "start", "register")
      BY <2>2, <2>4, <2>6, <2>8 DEF Bears, Starting, At
    <3> QED
      BY <1>2, <2>5, <2>7, <3>1, SameDatabase, TrimmedSessions, PrunedRuns DEF IInv
  <2>10. PermitsInv' /\ SlotsInv'
    <3>1. \A d \in Req : Holding(d)' => Holding(d) /\ d # c
      BY <1>2, <2>2, <2>4, <2>6 DEF Holding, Starting, Preparing
    <3>2. ~At(c, "stream", "poll")' /\ ~Slotted(c)'
      BY <2>2, <2>4 DEF At, Slotted
    <3> QED
      BY <1>1, <1>2, <2>2, <2>4, <2>5, <3>1, <3>2, KeepsHeld
  <2>11. AdmissionInv'
    <3>1. \A d \in Req : Prepares(d)' => admission' = d
      BY <1>2, <2>2, <2>4, <2>6 DEF Prepares, Starting, Preparing, IInv, AdmissionInv
    <3>2. \A d \in Req : At(d, "start", "session")' \/ At(d, "start", "insert")'
              => d # c
      BY <2>2, <2>4 DEF At
    <3>3. \A r \in Run : Present(r)' => Present(r) /\ row'[r].owner = row[r].owner
      BY <1>2 DEF Present
    <3> QED
      BY <2>6, <3>1, <3>2, <3>3, KeepsAdmission DEF IInv, At
  <2> QED
    BY <2>5, <2>9, <2>10, <2>11 DEF IInv
<1> QED
  BY <1>5, <1>6 DEF StartRun

\* What a handler drops is its own.
LEMMA DropsOwn ==
    ASSUME TypeOK, NEW c \in Req, DropsLocals(c)
    PROVE  /\ runSem' \in Semaphores /\ streamSem' \in Semaphores
           /\ globalRun' \subseteq Req /\ admission' \in Req \cup {None}
           /\ LosesAtMost(runSem, runSem', c) /\ LosesAtMost(streamSem, streamSem', c)
           /\ globalRun' \in {globalRun, globalRun \ {c}}
           /\ admission' = admission \/ admission = c
<1>1. runSem \in Semaphores /\ streamSem \in Semaphores
  BY DEF TypeOK, Semaphores
<1>2. runSem' \in Semaphores /\ LosesAtMost(runSem, runSem', c)
  BY <1>1, SemaphoreSteps DEF DropsLocals
<1>3. streamSem' \in Semaphores /\ LosesAtMost(streamSem, streamSem', c)
  BY <1>1 DEF DropsLocals, LosesAtMost
<1> QED
  BY <1>2, <1>3 DEF DropsLocals, TypeOK

\* A preparation that fails gives everything back.
LEMMA AbandonsIInv ==
    ASSUME IInv, NEW c \in Req, Starting(c), req[c].pc \in {"clean", "session", "insert", "register"},
           Abandons(c, "refused"), UNCHANGED <<registry, now, task, restarts>>, lastId' = lastId,
           row' \in Rows, session' \in Sessions, Shrinks(c), Trims
    PROVE  IInv'
<1>1. /\ ReleaseAccepted(c) /\ DropsLocals(c) /\ Answers(c, "refused") /\ ReqFits(c)
  BY DEF Abandons, IInv, RunsInv
<1>2. TypeOK
  BY DEF IInv
<1>3. req[c].visitor \in Visitor /\ req[c].ip \in Ip
  BY <1>1 DEF ReqFits
<1>4. byToken' \in [Visitor -> SUBSET Slot] /\ byIp' \in [Ip -> SUBSET Slot]
  BY <1>1, <1>2, <1>3, ReleasesAccepted
<1>5. ReqTypeOK' /\ Leaves(c)
  BY <1>1, <1>2, AnswersLeaves DEF TypeOK, ReqTypeOK
<1>6. /\ runSem' \in Semaphores /\ streamSem' \in Semaphores
      /\ globalRun' \subseteq Req /\ admission' \in Req \cup {None}
      /\ LosesAtMost(runSem, runSem', c) /\ LosesAtMost(streamSem, streamSem', c)
      /\ globalRun' \in {globalRun, globalRun \ {c}}
      /\ admission' = admission \/ admission = c
  BY <1>1, <1>2, DropsOwn
<1>7. TypeOK'
  BY <1>2, <1>4, <1>5, <1>6 DEF TypeOK, RegistryTypeOK, registry, ReqTypeOK, Semaphores, Rows, Sessions
<1>8. ~ (Bears(c) /\ task[req[c].run] # "none")
  <2>1. CASE req[c].pc = "register"
    BY <2>1 DEF IInv, RunsInv, StartsFit, At, Starting
  <2>2. CASE req[c].pc # "register"
    BY <1>1, <2>2 DEF ReqFits
  <2> QED
    BY <2>1, <2>2
<1> QED
  BY <1>1, <1>5, <1>6, <1>7, <1>8, LeavesIInv

LEMMA PreparationFailsIInv ==
    ASSUME IInv, NEW c \in Req, PreparationFails(c)
    PROVE  IInv'
<1>1. /\ Starting(c) /\ req[c].pc \in {"clean", "session", "insert", "register"}
      /\ Abandons(c, "refused") /\ UNCHANGED <<registry, now, database, task, restarts>>
  BY DEF PreparationFails, At, Starting
<1>2. UNCHANGED <<session, row, lastId>> /\ row' \in Rows /\ session' \in Sessions
  BY <1>1 DEF database, IInv, TypeOK, Rows, Sessions
<1> QED
  BY <1>1, <1>2, SameDatabase, AbandonsIInv

LEMMA AdmitIInv ==
    ASSUME IInv, NEW c \in Req, Admit(c)
    PROVE  IInv'
<1> DEFINE v == req[c].visitor
<1>1. /\ At(c, "start", "admit") /\ admission = None
      /\ UNCHANGED <<registry, now, database, task, windows, streamSem, restarts>>
      /\ \/ Answers(c, "refused") /\ UNCHANGED <<runSem, globalRun, admission>>
         \/ /\ runSem' = Entered(runSem, v)
            /\ Answers(c, "refused") /\ UNCHANGED <<globalRun, admission>>
         \/ /\ Cardinality(globalRun) < GlobalRuns /\ Available(runSem, v, VisitorRuns)
            /\ runSem' = Acquired(runSem, v, c)
            /\ globalRun' = globalRun \cup {c} /\ admission' = c /\ Goes(c, "reserve")
  BY DEF Admit
<1>2. UNCHANGED <<now, session, lastId, row, task, byToken, byIp, streamSem,
                  tasks, exclusive, cancelled, restarts>>
  BY <1>1 DEF registry, database, windows
<1>3. /\ TypeOK /\ ReqTypeOK /\ runSem \in Semaphores /\ streamSem \in Semaphores
      /\ \A d \in Req : ReqFits(d)
  BY DEF IInv, TypeOK, ReqTypeOK, Semaphores, RunsInv
<1>4. Starting(c) /\ ~Bears(c) /\ v \in Visitor /\ req[c].ip \in Ip /\ req[c].pc = "admit"
  BY <1>1, <1>3 DEF ReqFits, At, Starting
<1>5. CASE Answers(c, "refused") /\ (runSem' = runSem \/ runSem' = Entered(runSem, v))
           /\ UNCHANGED <<globalRun, admission>>
  <2>1. ReqTypeOK' /\ Leaves(c)
    BY <1>3, <1>5, AnswersLeaves
  <2>2. runSem' \in Semaphores /\ LosesAtMost(runSem, runSem', c)
    BY <1>3, <1>4, <1>5, EntersSemaphore DEF LosesAtMost
  <2>3. TypeOK'
    BY <1>2, <1>3, <1>5, <2>1, <2>2 DEF TypeOK, RegistryTypeOK, ReqTypeOK, Semaphores
  <2>4. LosesAtMost(streamSem, streamSem', c)
    BY <1>2 DEF LosesAtMost
  <2> QED
    BY <1>2, <1>4, <1>5, <2>1, <2>2, <2>3, <2>4, SameDatabase, LeavesIInv DEF windows
<1>6. CASE /\ Cardinality(globalRun) < GlobalRuns /\ Available(runSem, v, VisitorRuns)
           /\ runSem' = Acquired(runSem, v, c)
           /\ globalRun' = globalRun \cup {c} /\ admission' = c /\ Goes(c, "reserve")
  <2>1. ReqTypeOK' /\ Steps(c, "reserve")
    BY <1>3, <1>6, GoesSteps
  <2>2. /\ \A d \in Req : d # c => req'[d] = req[d]
        /\ req'[c].pc = "reserve" /\ req'[c].kind = "start" /\ req'[c].visitor = v
        /\ req'[c].ip = req[c].ip /\ req'[c].run = None
    BY <1>4, <2>1 DEF Steps, Moves, Starting, Bears
  <2>3. /\ runSem' \in Semaphores /\ runSem'[v].held = runSem[v].held \cup {c}
        /\ \A w \in Visitor : w # v => runSem'[w].held = runSem[w].held
    BY <1>3, <1>4, <1>6, AcquiresPermit
  <2>4. Cardinality(runSem[v].held) < VisitorRuns
    BY <1>3, <1>4, <1>6, SemaphoreSteps DEF Available
  <2> HIDE DEF v
  <2>5. TypeOK'
    BY <1>2, <1>3, <1>6, <2>1, <2>3 DEF TypeOK, RegistryTypeOK, ReqTypeOK, Semaphores
  <2>6. RunsInv'
    <3>1. \A d \in Req : ReqFits(d)'
      BY <1>3, <1>4, <2>2 DEF ReqFits, Bears, Starting, At, Preparing
    <3>2. \A d \in Req : /\ Bears(d)' <=> Bears(d)
                         /\ Bears(d) => req'[d].run = req[d].run
                         /\ At(d, "start", "register")' => At(d, "start", "register")
      BY <1>4, <2>2 DEF Bears, Starting, At
    <3> QED
      BY <1>2, <2>5, <3>1, <3>2, SameDatabase, TrimmedSessions, PrunedRuns DEF IInv
  <2>7. PermitsInv'
    <3>1. \A d \in Req : Holding(d)' => d = c \/ (Holding(d) /\ req'[d] = req[d])
      BY <1>2, <2>2 DEF Holding, Starting
    <3>2. \A d \in Req : Holding(d) => req[d].visitor \in Visitor
      BY <1>3 DEF ReqFits, Holding
    <3>3. \A d \in Req : Holding(d)' => d \in runSem'[req'[d].visitor].held /\ d \in globalRun'
      BY <1>6, <2>2, <2>3, <3>1, <3>2 DEF IInv, PermitsInv
    <3>4. runSem[v].held \in SUBSET Req /\ globalRun \in SUBSET Req
      BY <1>3, <1>4 DEF TypeOK, Semaphores, Semaphore
    <3>5. /\ Cardinality(runSem[v].held \cup {c}) <= Cardinality(runSem[v].held) + 1
          /\ Cardinality(globalRun \cup {c}) <= Cardinality(globalRun) + 1
          /\ Cardinality(runSem[v].held) \in Nat /\ Cardinality(globalRun) \in Nat
          /\ Cardinality(runSem[v].held \cup {c}) \in Nat /\ Cardinality(globalRun \cup {c}) \in Nat
      BY <3>4, OneMore
    <3>6. Cardinality(runSem'[v].held) <= VisitorRuns /\ Cardinality(globalRun') <= GlobalRuns
      BY <1>6, <2>3, <2>4, <3>5, Limits
    <3>7. \A w \in Visitor : Cardinality(runSem'[w].held) <= VisitorRuns
      BY <2>3, <3>6 DEF IInv, PermitsInv
    <3>8. OpenStreams' = OpenStreams /\ \A d \in OpenStreams : req'[d] = req[d]
      BY <1>4, <2>2 DEF OpenStreams, At, Starting
    <3> QED
      BY <1>2, <3>3, <3>6, <3>7, <3>8 DEF IInv, PermitsInv
  <2>8. AdmissionInv'
    <3>1. \A d \in Req : ~Prepares(d)
      BY <1>1, DemoConstants DEF IInv, AdmissionInv
    <3>2. \A d \in Req : Prepares(d)' => d = c
      BY <2>2, <3>1 DEF Prepares, Starting
    <3>3. \A d \in Req : ~ At(d, "start", "session")' /\ ~ At(d, "start", "insert")'
      BY <2>2, <3>1 DEF Prepares, Starting, At, Preparing
    <3> QED
      BY <1>6, <3>2, <3>3 DEF AdmissionInv
  <2>9. SlotsInv'
    <3>1. \A d \in Req : req'[d].pc \in {"idle", "admit", "reserve"}
              => req[d].pc \in {"idle", "admit", "reserve"}
      BY <1>4, <2>2
    <3>2. \A d \in Req : Starting(d)' =>
              Starting(d) /\ req'[d].visitor = req[d].visitor /\ req'[d].ip = req[d].ip
      BY <1>4, <2>2 DEF Starting, v
    <3>3. \A d \in Req : Slotted(d)' => Slotted(d) /\ req'[d].at = req[d].at
      BY <2>2 DEF Slotted, Starting
    <3>4. \A d \in Req : Starting(d) => req[d].visitor \in Visitor /\ req[d].ip \in Ip
      BY <1>3 DEF ReqFits
    <3>5. now <= now' /\ now' \in Int
      BY <1>2, <1>3, Bounds DEF TypeOK
    <3>6. SlotsInv /\ TypeOK /\ UNCHANGED windows
      BY <1>2 DEF IInv, windows
    <3> QED
      BY <1>3, <3>1, <3>2, <3>3, <3>4, <3>5, <3>6, KeepsSlotsOfAll
  <2> QED
    BY <2>5, <2>6, <2>7, <2>8, <2>9 DEF IInv
<1> QED
  BY <1>1, <1>5, <1>6

\* Where a request may be, for a step that moves c within a start's preparation.
LEMMA PreparesNext ==
    ASSUME IInv, NEW c \in Req, Prepares(c), Moves(c), Starting(c)',
           req'[c].pc \in {"clean", "session", "insert"}, req'[c].visitor = req[c].visitor,
           req'[c].ip = req[c].ip, req'[c].run = None, req[c].pc \notin {"register"}
    PROVE  /\ \A d \in Req : ReqFits(d)'
           /\ \A d \in Req : /\ Bears(d)' <=> Bears(d)
                             /\ Bears(d) => req'[d].run = req[d].run
                             /\ At(d, "start", "register")' => At(d, "start", "register")
           /\ task' = task => \A d \in Req : Holding(d)' => Holding(d)
<1>1. \A d \in Req : d # c => req'[d] = req[d]
  BY DEF Moves
<1>2. /\ \A d \in Req : ReqFits(d)
      /\ Starting(c) /\ req[c].pc \in Preparing
  BY DEF IInv, RunsInv, Prepares
<1>3. ~Bears(c) /\ ~Bears(c)'
  BY <1>2 DEF ReqFits, Preparing, Bears, Prepares
<1>4. \A d \in Req : ReqFits(d)'
  <2>1. ReqFits(c)'
    BY <1>2, <1>3 DEF ReqFits, At, Starting, Preparing
  <2>2. \A d \in Req : d # c => ReqFits(d)'
    BY <1>1, <1>2 DEF ReqFits, At, Starting, Bears
  <2> QED
    BY <2>1, <2>2
<1>5. \A d \in Req : /\ Bears(d)' <=> Bears(d)
                     /\ Bears(d) => req'[d].run = req[d].run
                     /\ At(d, "start", "register")' => At(d, "start", "register")
  BY <1>1, <1>3 DEF Bears, Starting, At
<1>6. task' = task => \A d \in Req : Holding(d)' => Holding(d)
  BY <1>1, <1>2 DEF Holding, Starting
<1> QED
  BY <1>4, <1>5, <1>6

LEMMA ReserveStartIInv ==
    ASSUME IInv, NEW c \in Req, ReserveStart(c)
    PROVE  IInv'
<1> DEFINE v == req[c].visitor
           i == req[c].ip
           slot == [id |-> c, at |-> now]
<1>1. /\ At(c, "start", "reserve") /\ UNCHANGED <<registry, now, database, task, restarts>>
      /\ \/ PruneWindows(now) /\ DropsLocals(c) /\ Answers(c, "refused")
         \/ /\ byToken' = [w \in Visitor |-> Pruned(byToken[w], now) \cup
                                             IF w = v THEN {slot} ELSE {}]
            /\ byIp' = [j \in Ip |-> Pruned(byIp[j], now) \cup
                                     IF j = i THEN {slot} ELSE {}]
            /\ req' = [req EXCEPT ![c].pc = "clean", ![c].at = now]
            /\ UNCHANGED <<permits, admission>>
  BY DEF ReserveStart
<1>2. UNCHANGED <<now, session, lastId, row, task, tasks, exclusive, cancelled, restarts>>
  BY <1>1 DEF registry, database
<1>3. TypeOK /\ ReqTypeOK /\ \A d \in Req : ReqFits(d)
  BY DEF IInv, TypeOK, ReqTypeOK, RunsInv
<1>4. Starting(c) /\ ~Bears(c) /\ v \in Visitor /\ i \in Ip /\ req[c].pc = "reserve"
  BY <1>1, <1>3 DEF ReqFits, At, Starting
<1>5. CASE PruneWindows(now) /\ DropsLocals(c) /\ Answers(c, "refused")
  <2>1. ReqTypeOK' /\ Leaves(c)
    BY <1>3, <1>5, AnswersLeaves
  <2>2. /\ byToken' \in [Visitor -> SUBSET Slot] /\ byIp' \in [Ip -> SUBSET Slot]
    BY <1>3, <1>5, PrunesWindows
  <2>3. /\ runSem' \in Semaphores /\ streamSem' \in Semaphores
        /\ globalRun' \subseteq Req /\ admission' \in Req \cup {None}
        /\ LosesAtMost(runSem, runSem', c) /\ LosesAtMost(streamSem, streamSem', c)
        /\ globalRun' \in {globalRun, globalRun \ {c}}
        /\ admission' = admission \/ admission = c
    BY <1>3, <1>5, DropsOwn
  <2>4. TypeOK'
    BY <1>2, <1>3, <2>1, <2>2, <2>3 DEF TypeOK, RegistryTypeOK, ReqTypeOK, Semaphores
  <2> QED
    BY <1>2, <1>4, <1>5, <2>1, <2>3, <2>4, SameDatabase, LeavesIInv
<1>6. CASE /\ byToken' = [w \in Visitor |-> Pruned(byToken[w], now) \cup
                                             IF w = v THEN {slot} ELSE {}]
           /\ byIp' = [j \in Ip |-> Pruned(byIp[j], now) \cup
                                    IF j = i THEN {slot} ELSE {}]
           /\ req' = [req EXCEPT ![c].pc = "clean", ![c].at = now]
           /\ UNCHANGED <<permits, admission>>
  <2>1. UNCHANGED <<runSem, streamSem, globalRun, admission>>
    BY <1>6 DEF permits
  <2> DEFINE w0 == [req[c] EXCEPT !.pc = "clean", !.at = now]
  <2>2. /\ w0 \in ReqRec /\ w0.kind = "start" /\ w0.visitor = v /\ w0.pc = "clean"
        /\ w0.ip = i /\ w0.run = None /\ w0.at = now
    BY <1>3, <1>4 DEF ReqRec, TypeOK, ReqTypeOK, Bears, Starting
  <2>3. req' = [req EXCEPT ![c] = w0]
    BY <1>6
  <2> HIDE DEF w0
  <2>4. ReqTypeOK' /\ Moves(c) /\ req'[c] = w0
    BY <1>3, <2>2, <2>3, MovesTo
  <2>5. /\ \A d \in Req : d # c => req'[d] = req[d]
        /\ req'[c].pc = "clean" /\ req'[c].kind = "start" /\ req'[c].visitor = v
        /\ req'[c].ip = i /\ req'[c].run = None /\ req'[c].at = now
    BY <2>2, <2>4 DEF Moves
  <2>6. slot \in Slot /\ slot.id = c /\ slot.at = now
    BY <1>3 DEF Slot, TypeOK
  <2>7. /\ byToken' \in [Visitor -> SUBSET Slot] /\ byIp' \in [Ip -> SUBSET Slot]
        /\ \A w \in Visitor : byToken'[w] = {s \in byToken[w] : s.at > now - Window} \cup
                                             IF w = v THEN {slot} ELSE {}
        /\ \A j \in Ip : byIp'[j] = {s \in byIp[j] : s.at > now - Window} \cup
                                     IF j = i THEN {slot} ELSE {}
    BY <1>3, <1>6, <2>6 DEF TypeOK, Pruned
  <2> HIDE DEF slot
  <2>8. TypeOK'
    BY <1>2, <1>3, <2>1, <2>4, <2>7 DEF TypeOK, RegistryTypeOK, ReqTypeOK
  <2>9. Prepares(c) /\ Starting(c)'
    BY <1>4, <2>5 DEF Prepares, Preparing, Starting
  <2>10. /\ \A d \in Req : ReqFits(d)'
         /\ \A d \in Req : /\ Bears(d)' <=> Bears(d)
                           /\ Bears(d) => req'[d].run = req[d].run
                           /\ At(d, "start", "register")' => At(d, "start", "register")
         /\ \A d \in Req : Holding(d)' => Holding(d)
    BY <1>2, <1>4, <2>4, <2>5, <2>9, PreparesNext
  <2>11. RunsInv'
    BY <1>2, <2>8, <2>10, SameDatabase, TrimmedSessions, PrunedRuns DEF IInv
  <2>12. PermitsInv'
    <3>1. \A d \in Req : req'[d].visitor = req[d].visitor
      BY <2>5
    <3>2. \A d \in Req : At(d, "stream", "poll")' => At(d, "stream", "poll")
      BY <2>5 DEF At
    <3>3. \A d \in Req : Holding(d) \/ At(d, "stream", "poll") => req[d].visitor \in Visitor
      BY <1>3 DEF ReqFits, Holding
    <3> QED
      BY <2>1, <2>8, <2>10, <3>1, <3>2, <3>3, KeepsPermits DEF IInv
  <2>13. AdmissionInv'
    <3>1. \A d \in Req : Prepares(d)' => admission' = d
      BY <2>1, <2>5, <2>9 DEF Prepares, Starting, IInv, AdmissionInv
    <3>2. \A d \in Req : ~ At(d, "start", "session")' /\ ~ At(d, "start", "insert")'
      <4>1. \A d \in Req : d # c => ~Prepares(d)
        BY <2>9 DEF IInv, AdmissionInv
      <4> QED
        BY <2>5, <4>1 DEF Prepares, Starting, At, Preparing
    <3> QED
      BY <3>1, <3>2 DEF AdmissionInv
  <2>14. SlotsInv'
    <3>1. \A d \in Req : d # c =>
             /\ \A w \in Visitor : SlotsOf(byToken'[w], d) =
                                   {s \in SlotsOf(byToken[w], d) : s.at > now - Window}
             /\ \A j \in Ip : SlotsOf(byIp'[j], d) =
                              {s \in SlotsOf(byIp[j], d) : s.at > now - Window}
      BY <2>6, <2>7 DEF SlotsOf
    <3>2. SlotsOf(byToken[v], c) = {} /\ SlotsOf(byIp[i], c) = {}
      BY <1>4 DEF IInv, SlotsInv
    <3>3. SlotsOf(byToken'[v], c) = {slot} /\ SlotsOf(byIp'[i], c) = {slot}
      BY <1>4, <2>6, <2>7, <3>2 DEF SlotsOf
    <3>4. \A d \in Req : req'[d].pc \in {"idle", "admit", "reserve"} =>
             /\ \A w \in Visitor : SlotsOf(byToken'[w], d) = {}
             /\ \A j \in Ip : SlotsOf(byIp'[j], d) = {}
      <4> SUFFICES ASSUME NEW d \in Req, req'[d].pc \in {"idle", "admit", "reserve"}
                   PROVE  /\ \A w \in Visitor : SlotsOf(byToken'[w], d) = {}
                          /\ \A j \in Ip : SlotsOf(byIp'[j], d) = {}
        OBVIOUS
      <4>1. d # c /\ req[d].pc \in {"idle", "admit", "reserve"}
        BY <2>5
      <4>2. /\ \A w \in Visitor : SlotsOf(byToken[w], d) = {}
            /\ \A j \in Ip : SlotsOf(byIp[j], d) = {}
        BY <4>1 DEF IInv, SlotsInv
      <4> QED
        BY <3>1, <4>1, <4>2
    <3>5. ASSUME NEW d \in Req, Starting(d)'
          PROVE  SlotsOf(byToken'[req'[d].visitor], d) = SlotsOf(byIp'[req'[d].ip], d)
      <4>1. CASE d = c
        BY <2>5, <3>3, <4>1
      <4>2. CASE d # c
        <5>1. Starting(d) /\ req[d].visitor \in Visitor /\ req[d].ip \in Ip
          BY <1>3, <2>5, <3>5, <4>2 DEF Starting, ReqFits
        <5>2. SlotsOf(byToken[req[d].visitor], d) = SlotsOf(byIp[req[d].ip], d)
          BY <5>1 DEF IInv, SlotsInv
        <5>3. PICK w \in Visitor, j \in Ip : w = req[d].visitor /\ j = req[d].ip
          BY <5>1
        <5>4. SlotsOf(byToken[w], d) = SlotsOf(byIp[j], d)
          BY <5>2, <5>3
        <5>5. /\ SlotsOf(byToken'[w], d) = {s \in SlotsOf(byToken[w], d) : s.at > now - Window}
              /\ SlotsOf(byIp'[j], d) = {s \in SlotsOf(byIp[j], d) : s.at > now - Window}
          BY <3>1, <4>2
        <5> QED
          BY <2>5, <4>2, <5>3, <5>4, <5>5
      <4> QED
        BY <4>1, <4>2
    <3>6. ASSUME NEW d \in Req, Slotted(d)', req'[d].at > now' - Window
          PROVE  [id |-> d, at |-> req'[d].at] \in byToken'[req'[d].visitor]
      <4>1. CASE d = c
        BY <1>4, <2>5, <2>7, <4>1 DEF slot
      <4>2. CASE d # c
        <5>1. Slotted(d) /\ req'[d] = req[d] /\ Starting(d)
          BY <2>5, <3>6, <4>2 DEF Slotted, Starting
        <5>2. req[d].visitor \in Visitor
          BY <1>3, <5>1 DEF ReqFits
        <5>3. [id |-> d, at |-> req[d].at] \in byToken[req[d].visitor]
          BY <1>2, <3>6, <5>1 DEF IInv, SlotsInv
        <5> QED
          BY <1>2, <2>7, <3>6, <5>1, <5>2, <5>3
      <4> QED
        BY <4>1, <4>2
    <3> QED
      BY <3>4, <3>5, <3>6 DEF SlotsInv
  <2> QED
    BY <2>8, <2>11, <2>12, <2>13, <2>14 DEF IInv
<1> QED
  BY <1>1, <1>5, <1>6

\* A start that has its slot goes on with what it holds.
LEMMA GoesOnIInv ==
    ASSUME IInv, TypeOK', NEW c \in Req, Starting(c), req[c].pc \in {"clean", "session"},
           Moves(c), Starting(c)', req'[c].pc \in {"session", "insert"},
           req'[c].visitor = req[c].visitor, req'[c].ip = req[c].ip,
           req'[c].run = None, req'[c].at = req[c].at,
           UNCHANGED <<now, task, byToken, byIp, runSem, streamSem, globalRun, admission>>,
           Prunes, lastId <= lastId',
           \A v \in Visitor :
               /\ \/ session'[v].id = session[v].id
                  \/ ~ \E r \in Run : row[r].outcome = "running" /\ row[r].owner = session[v].id
               /\ session'[v].id <= lastId',
           CountDemoOwned' < GlobalRows,
           req'[c].pc = "insert" => CountOwned(req[c].owner)' < SessionRuns
    PROVE  IInv'
<1>1. Prepares(c) /\ Slotted(c) /\ Holding(c)
  BY DEF Prepares, Preparing, Slotted, Holding
<1>2. /\ \A d \in Req : ReqFits(d)'
      /\ \A d \in Req : /\ Bears(d)' <=> Bears(d)
                        /\ Bears(d) => req'[d].run = req[d].run
                        /\ At(d, "start", "register")' => At(d, "start", "register")
      /\ \A d \in Req : Holding(d)' => Holding(d)
  BY <1>1, PreparesNext
<1>3. RunsInv'
  BY <1>2, PrunedRuns DEF IInv
<1>4. PermitsInv' /\ SlotsInv'
  <2>1. ~At(c, "stream", "poll")'
    BY DEF At
  <2> QED
    BY <1>1, <1>2, <2>1, KeepsHeld
<1>5. \A d \in Req : d # c => ~Prepares(d) /\ req'[d] = req[d]
  BY <1>1 DEF IInv, AdmissionInv, Moves
<1>6. \A d \in Req : Prepares(d)' => d = c
  BY <1>5 DEF Prepares, Starting
<1>7. \A d \in Req : At(d, "start", "session")' \/ At(d, "start", "insert")' => d = c
  BY <1>6 DEF Prepares, Starting, At, Preparing
<1>8. admission' = c
  BY <1>1 DEF IInv, AdmissionInv
<1>9. AdmissionInv'
  <2>1. \A d \in Req : Prepares(d)' => admission' = d
    BY <1>6, <1>8
  <2>2. \A d \in Req : At(d, "start", "session")' \/ At(d, "start", "insert")'
           => CountDemoOwned' < GlobalRows
    OBVIOUS
  <2>3. \A d \in Req : At(d, "start", "insert")' => CountOwned(req[d].owner)' < SessionRuns
    <3> SUFFICES ASSUME NEW d \in Req, At(d, "start", "insert")'
                 PROVE  CountOwned(req[d].owner)' < SessionRuns
      OBVIOUS
    <3>1. d = c /\ req'[c].pc = "insert"
      BY <1>7 DEF At
    <3> QED
      BY <3>1
  <2> QED
    BY <2>1, <2>2, <2>3 DEF AdmissionInv
<1> QED
  BY <1>3, <1>4, <1>9 DEF IInv

LEMMA CleanUpIInv ==
    ASSUME IInv, NEW c \in Req, CleanUp(c)
    PROVE  IInv'
<1>1. /\ At(c, "start", "clean") /\ CleanUpExpired(row, Expired(req[c].at))
      /\ UNCHANGED <<registry, now, task, restarts>>
      /\ \/ Abandons(c, "refused")
         \/ Cardinality({r \in Run : Present(r)'}) < GlobalRows /\ Goes(c, "session") /\ Keeps
  BY DEF CleanUp
<1>2. TypeOK /\ ReqTypeOK /\ ReqFits(c)
  BY DEF IInv, TypeOK, ReqTypeOK, RunsInv
<1>3. Starting(c) /\ req[c].pc = "clean" /\ req[c].run = None
  BY <1>1, <1>2 DEF At, Starting, ReqFits, Bears
<1>4. row' \in Rows /\ session' \in Sessions /\ lastId' = lastId /\ Trims /\ Prunes
  BY <1>1, <1>2, CleansUpExpired
<1>5. CASE Abandons(c, "refused")
  BY <1>1, <1>3, <1>4, <1>5, PrunesShrinks, AbandonsIInv
<1>6. CASE Cardinality({r \in Run : Present(r)'}) < GlobalRows /\ Goes(c, "session") /\ Keeps
  <2>1. ReqTypeOK' /\ Steps(c, "session")
    BY <1>2, <1>6, GoesSteps
  <2>2. /\ Moves(c) /\ Starting(c)' /\ req'[c].pc = "session"
        /\ req'[c].visitor = req[c].visitor /\ req'[c].ip = req[c].ip
        /\ req'[c].run = None /\ req'[c].at = req[c].at
    BY <1>3, <2>1 DEF Steps, Starting
  <2>3. UNCHANGED <<now, task, byToken, byIp, runSem, streamSem, globalRun, admission,
                    tasks, exclusive, cancelled, restarts>>
    BY <1>1, <1>6 DEF registry, Keeps, windows, permits
  <2>4. TypeOK'
    BY <1>2, <1>4, <2>1, <2>3 DEF TypeOK, RegistryTypeOK, ReqTypeOK, Rows, Sessions
  <2>5. CountDemoOwned' < GlobalRows
    BY <1>6 DEF CountDemoOwned
  <2>6. /\ lastId <= lastId'
        /\ \A v \in Visitor :
               /\ \/ session'[v].id = session[v].id
                  \/ ~ \E r \in Run : row[r].outcome = "running" /\ row[r].owner = session[v].id
               /\ session'[v].id <= lastId'
    BY <1>2, <1>4, TrimmedSessions DEF IInv
  <2> QED
    BY <1>3, <1>4, <2>2, <2>3, <2>4, <2>5, <2>6, GoesOnIInv
<1> QED
  BY <1>1, <1>5, <1>6

\* Trimming a visitor's history takes the excess off what he owns.
LEMMA TrimmedCount ==
    ASSUME TypeOK, NEW owner, row' = Without(row, Excess(row, owner))
    PROVE  /\ Prunes
           /\ CountOwned(owner)' = CountOwned(owner) - Cardinality(Excess(row, owner))
           /\ CountDemoOwned' <= CountDemoOwned /\ CountOwned(owner)' \in Nat
           /\ CountDemoOwned \in Nat /\ CountDemoOwned' \in Nat
<1> DEFINE out == Excess(row, owner)
           own == {r \in Run : Owned(r, owner)}
<1>1. \A r \in out : r \in Run /\ Terminal(row, r) /\ row[r].owner = owner
  BY ExcessTerminal
<1>2. row \in Rows
  BY DEF TypeOK, Rows
<1>3. \A r \in Run : /\ row'[r].owner = row[r].owner
                     /\ r \in out => row'[r].outcome = "deleted"
                     /\ r \notin out => row'[r] = row[r]
  BY <1>2, WithoutRows
<1> HIDE DEF out
<1>4. Prunes
  BY <1>1, <1>3 DEF Prunes, Terminal, Present
<1>5. CountOwned(owner)' = Cardinality(own \ out)
  <2>1. {r \in Run : Owned(r, owner)'} = own \ out
    BY <1>1, <1>3 DEF Owned, Present
  <2> QED
    BY <2>1 DEF CountOwned
<1>6. out \subseteq own
  BY <1>1 DEF Owned, Present, Terminal
<1>7. Cardinality(own \ out) = Cardinality(own) - Cardinality(out)
  <2>1. IsFiniteSet(own) /\ IsFiniteSet(out)
    BY <1>6, DemoConstants, FS_Subset
  <2>2. own \cap out = out
    BY <1>6
  <2> QED
    BY <2>1, <2>2, FS_Difference
<1>8. /\ CountDemoOwned' <= CountDemoOwned /\ CountOwned(owner)' \in Nat
      /\ CountDemoOwned \in Nat /\ CountDemoOwned' \in Nat
  <2>1. \A r \in Run : Present(r)' => Present(r) /\ row'[r].owner = row[r].owner
    BY <1>4 DEF Prunes, Present
  <2> QED
    BY <2>1, FewerRows
<1> QED
  BY <1>4, <1>5, <1>7, <1>8 DEF CountOwned, out

LEMMA TakeSessionIInv ==
    ASSUME IInv, NEW c \in Req, TakeSession(c)
    PROVE  IInv'
<1> DEFINE v == req[c].visitor
           t == req[c].at
           owner == session[v].id
<1>1. /\ At(c, "start", "session") /\ UNCHANGED <<registry, now, task, restarts>>
      /\ \/ Abandons(c, "refused") /\ UNCHANGED database
         \/ /\ session[v].id = 0 /\ lastId < MaxSession
            /\ lastId' = lastId + 1
            /\ session' = [session EXCEPT ![v] = [id |-> lastId + 1, expires |-> t + SessionTtl]]
            /\ req' = [req EXCEPT ![c].pc = "insert", ![c].owner = lastId + 1]
            /\ Keeps /\ UNCHANGED row
         \/ /\ row' = Without(row, Excess(row, owner))
            /\ IF CountOwned(owner) - Cardinality(Excess(row, owner)) >= SessionRuns
               THEN Abandons(c, "refused")
               ELSE req' = [req EXCEPT ![c].pc = "insert", ![c].owner = owner] /\ Keeps
            /\ UNCHANGED <<session, lastId>>
  BY DEF TakeSession
<1>2. TypeOK /\ ReqTypeOK /\ ReqFits(c) /\ row \in Rows /\ session \in Sessions
  BY DEF IInv, TypeOK, ReqTypeOK, RunsInv, Rows, Sessions
<1>3. /\ Starting(c) /\ req[c].pc = "session" /\ req[c].run = None
      /\ v \in Visitor /\ t \in 0..MaxTime
  BY <1>1, <1>2 DEF At, Starting, ReqFits, Bears, ReqTypeOK, ReqRec
<1>4. CountDemoOwned < GlobalRows
  BY <1>1 DEF IInv, AdmissionInv
<1>5. CASE Abandons(c, "refused") /\ UNCHANGED database
  BY <1>1, <1>2, <1>3, <1>5, SameDatabase, AbandonsIInv DEF database
<1>6. ASSUME NEW o \in 0..MaxSession, req' = [req EXCEPT ![c].pc = "insert", ![c].owner = o]
      PROVE  /\ ReqTypeOK' /\ Moves(c) /\ Starting(c)' /\ req'[c].pc = "insert"
             /\ req'[c].visitor = req[c].visitor /\ req'[c].ip = req[c].ip
             /\ req'[c].run = None /\ req'[c].at = req[c].at /\ req'[c].owner = o
  <2> DEFINE w == [req[c] EXCEPT !.pc = "insert", !.owner = o]
  <2>1. /\ w \in ReqRec /\ w.kind = "start" /\ w.visitor = req[c].visitor /\ w.pc = "insert"
        /\ w.ip = req[c].ip /\ w.run = None /\ w.at = req[c].at /\ w.owner = o
    <3>1. req[c] \in ReqRec
      BY <1>2 DEF ReqTypeOK
    <3> QED
      BY <1>3, <3>1 DEF ReqRec, Starting
  <2>2. req' = [req EXCEPT ![c] = w]
    BY <1>6
  <2> HIDE DEF w
  <2>3. ReqTypeOK' /\ Moves(c) /\ req'[c] = w
    BY <1>2, <2>1, <2>2, MovesTo
  <2> QED
    BY <2>1, <2>3 DEF Starting
<1>7. CASE /\ session[v].id = 0 /\ lastId < MaxSession
           /\ lastId' = lastId + 1
           /\ session' = [session EXCEPT ![v] = [id |-> lastId + 1, expires |-> t + SessionTtl]]
           /\ req' = [req EXCEPT ![c].pc = "insert", ![c].owner = lastId + 1]
           /\ Keeps /\ UNCHANGED row
  <2>1. UNCHANGED <<now, task, row, byToken, byIp, runSem, streamSem, globalRun, admission,
                    tasks, exclusive, cancelled, restarts>>
    BY <1>1, <1>7 DEF registry, Keeps, windows, permits
  <2>2. lastId' \in 0..MaxSession /\ lastId \in Nat
    BY <1>2, <1>7, Bounds DEF TypeOK
  <2>3. /\ ReqTypeOK' /\ Moves(c) /\ Starting(c)' /\ req'[c].pc = "insert"
        /\ req'[c].visitor = req[c].visitor /\ req'[c].ip = req[c].ip
        /\ req'[c].run = None /\ req'[c].at = req[c].at /\ req'[c].owner = lastId'
    BY <1>6, <1>7, <2>2
  <2>4. /\ session' \in Sessions /\ session'[v].id = lastId + 1
        /\ \A w \in Visitor : w # v => session'[w] = session[w]
    BY <1>2, <1>3, <1>7, <2>2, Bounds DEF Sessions
  <2>5. TypeOK'
    BY <1>2, <2>1, <2>2, <2>3, <2>4 DEF TypeOK, RegistryTypeOK, ReqTypeOK, Sessions
  <2>6. Prunes /\ CountDemoOwned' < GlobalRows
    BY <1>4, <2>1 DEF Prunes, CountDemoOwned, Present
  <2>7. \A w \in Visitor :
           /\ \/ session'[w].id = session[w].id
              \/ ~ \E r \in Run : row[r].outcome = "running" /\ row[r].owner = session[w].id
           /\ session'[w].id <= lastId'
    <3>1. ~ \E r \in Run : row[r].outcome = "running" /\ row[r].owner = session[v].id
      BY <1>7 DEF IInv, RunsInv, RowsFit
    <3>2. \A w \in Visitor : session[w].id <= lastId /\ session[w].id \in Nat
      BY <1>2 DEF IInv, RunsInv, RowsFit, Sessions
    <3> QED
      BY <1>7, <2>2, <2>4, <3>1, <3>2
  <2>8. CountOwned(req[c].owner)' < SessionRuns
    <3>1. PICK o : o = lastId + 1
      OBVIOUS
    <3>2. \A r \in Run : ~ (Present(r)' /\ row'[r].owner = o)
      BY <1>2, <2>1, <2>2, <3>1 DEF IInv, RunsInv, RowsFit, Rows
    <3>3. {r \in Run : Present(r)' /\ row'[r].owner = o} = {}
      BY <3>2
    <3>4. CountOwned(req[c].owner)' = Cardinality({r \in Run : Present(r)' /\ row'[r].owner = o})
      BY <1>7, <2>3, <3>1 DEF CountOwned, Owned
    <3> QED
      BY <3>3, <3>4, FS_EmptySet, Limits
  <2>9. lastId <= lastId'
    BY <1>7, <2>2
  <2> QED
    BY <1>3, <2>1, <2>3, <2>5, <2>6, <2>7, <2>8, <2>9, GoesOnIInv
<1>8. CASE /\ row' = Without(row, Excess(row, owner))
           /\ IF CountOwned(owner) - Cardinality(Excess(row, owner)) >= SessionRuns
              THEN Abandons(c, "refused")
              ELSE req' = [req EXCEPT ![c].pc = "insert", ![c].owner = owner] /\ Keeps
           /\ UNCHANGED <<session, lastId>>
  <2>0. PICK o : o = owner
    OBVIOUS
  <2>1. /\ Prunes
        /\ CountOwned(o)' = CountOwned(o) - Cardinality(Excess(row, o))
        /\ CountDemoOwned' <= CountDemoOwned /\ CountOwned(o)' \in Nat
        /\ CountDemoOwned \in Nat /\ CountDemoOwned' \in Nat
    <3>1. row' = Without(row, Excess(row, o))
      BY <1>8, <2>0
    <3> QED
      BY <1>2, <3>1, TrimmedCount
  <2>2. row' \in Rows /\ session' \in Sessions /\ Trims
    BY <1>2, <1>8, WithoutRows DEF Trims
  <2>3. CASE Abandons(c, "refused")
    BY <1>1, <1>3, <1>8, <2>1, <2>2, <2>3, PrunesShrinks, AbandonsIInv
  <2>4. CASE /\ ~ (CountOwned(owner) - Cardinality(Excess(row, owner)) >= SessionRuns)
             /\ req' = [req EXCEPT ![c].pc = "insert", ![c].owner = owner] /\ Keeps
    <3>1. owner \in 0..MaxSession
      BY <1>2, <1>3 DEF Sessions
    <3>2. /\ ReqTypeOK' /\ Moves(c) /\ Starting(c)' /\ req'[c].pc = "insert"
          /\ req'[c].visitor = req[c].visitor /\ req'[c].ip = req[c].ip
          /\ req'[c].run = None /\ req'[c].at = req[c].at /\ req'[c].owner = owner
      BY <1>6, <2>4, <3>1
    <3>3. UNCHANGED <<now, task, byToken, byIp, runSem, streamSem, globalRun, admission,
                      tasks, exclusive, cancelled, restarts>>
      BY <1>1, <2>4 DEF registry, Keeps, windows, permits
    <3>4. TypeOK'
      BY <1>2, <1>8, <2>2, <3>2, <3>3 DEF TypeOK, RegistryTypeOK, ReqTypeOK, Rows, Sessions
    <3>5. CountDemoOwned' < GlobalRows
      BY <1>4, <2>1, Limits
    <3>6. CountOwned(req[c].owner)' < SessionRuns
      <4>1. req'[c].owner = o
        BY <1>8, <2>0, <3>2
      <4>2. CountOwned(req[c].owner)' = CountOwned(o)'
        BY <4>1 DEF CountOwned, Owned
      <4>3. ~ (CountOwned(o)' >= SessionRuns)
        BY <2>0, <2>1, <2>4
      <4> QED
        BY <2>1, <4>2, <4>3, Limits
    <3>7. /\ lastId <= lastId'
          /\ \A w \in Visitor :
               /\ \/ session'[w].id = session[w].id
                  \/ ~ \E r \in Run : row[r].outcome = "running" /\ row[r].owner = session[w].id
               /\ session'[w].id <= lastId'
      BY <1>2, <1>8, <2>2, TrimmedSessions DEF IInv
    <3> QED
      BY <1>3, <2>1, <3>2, <3>3, <3>4, <3>5, <3>6, <3>7, GoesOnIInv
  <2> QED
    BY <1>8, <2>3, <2>4
<1> QED
  BY <1>1, <1>5, <1>7, <1>8

-----------------------------------------------------------------------------
(* The row of a start, its task and its answer.                            *)

\* Whoever checks the row limits or inserts is the one request that does.
LEMMA OnePrepares ==
    ASSUME IInv, NEW c \in Req, Prepares(c), Moves(c)
    PROVE  /\ admission = c
           /\ \A d \in Req : d # c => ~Prepares(d) /\ ~Prepares(d)' /\ req'[d] = req[d]
           /\ \A d \in Req : Prepares(d)' => d = c
<1>1. admission = c /\ \A d \in Req : d # c => ~Prepares(d)
  BY DEF IInv, AdmissionInv
<1>2. \A d \in Req : d # c => req'[d] = req[d]
  BY DEF Moves
<1>3. \A d \in Req : d # c => ~Prepares(d)'
  BY <1>1, <1>2 DEF Prepares, Starting
<1> QED
  BY <1>1, <1>2, <1>3

LEMMA NoOnePrepares ==
    ASSUME \A d \in Req : ~ At(d, "start", "session")' /\ ~ At(d, "start", "insert")',
           \A d \in Req : Prepares(d)' => admission' = d
    PROVE  AdmissionInv'
  BY DEF AdmissionInv

LEMMA PrepareOwnedIInv ==
    ASSUME IInv, NEW c \in Req, PrepareOwned(c)
    PROVE  IInv'
<1> DEFINE owner == req[c].owner
<1>1. /\ At(c, "start", "insert")
      /\ UNCHANGED <<registry, now, session, lastId, task, restarts>>
      /\ \/ Abandons(c, "refused") /\ UNCHANGED row
         \/ /\ ActiveSession(owner)
            /\ \E r \in NewRuns, o \in {"running", "failed"} :
               /\ row' = [row EXCEPT ![r] = [owner |-> owner, outcome |-> o]]
               /\ IF o = "failed" THEN Abandons(c, "refused")
                  ELSE req' = [req EXCEPT ![c].pc = "register", ![c].run = r] /\ Keeps
  BY DEF PrepareOwned
<1>2. /\ TypeOK /\ ReqTypeOK /\ row \in Rows /\ session \in Sessions
      /\ \A d \in Req : ReqFits(d)
  BY DEF IInv, TypeOK, ReqTypeOK, RunsInv, Rows, Sessions
<1>3. /\ Starting(c) /\ req[c].pc = "insert" /\ req[c].run = None /\ Prepares(c)
      /\ owner \in 0..MaxSession
  BY <1>1, <1>2 DEF At, Starting, ReqFits, Bears, ReqTypeOK, ReqRec, Prepares, Preparing
<1>4. CASE Abandons(c, "refused") /\ UNCHANGED row
  BY <1>1, <1>2, <1>3, <1>4, SameDatabase, AbandonsIInv
<1>5. ASSUME ActiveSession(owner), NEW r \in NewRuns, NEW o \in {"running", "failed"},
             row' = [row EXCEPT ![r] = [owner |-> owner, outcome |-> o]],
             IF o = "failed" THEN Abandons(c, "refused")
             ELSE req' = [req EXCEPT ![c].pc = "register", ![c].run = r] /\ Keeps
      PROVE  IInv'
  <2>1. PICK v \in Visitor : session[v].id = owner /\ Valid(v, now)
    BY <1>5 DEF ActiveSession
  <2>2. /\ owner # 0 /\ owner <= lastId /\ r \in Run /\ row[r].outcome = "absent"
    BY <2>1 DEF Valid, NewRuns, IInv, RunsInv, RowsFit
  <2>3. /\ row' \in Rows /\ row'[r].owner = owner /\ row'[r].outcome = o
        /\ \A q \in Run : q # r => row'[q] = row[q]
    BY <1>2, <1>3, <1>5, <2>2 DEF Rows
  <2>4. Trims
    BY <1>1 DEF Trims
  <2> HIDE DEF owner
  <2>5. CASE o = "failed"
    <3>1. Shrinks(c)
      BY <1>1, <2>2, <2>3, <2>5 DEF Shrinks
    <3>2. session' \in Sessions /\ lastId' = lastId
      BY <1>1, <1>2
    <3> QED
      BY <1>1, <1>3, <1>5, <2>3, <2>4, <2>5, <3>1, <3>2, AbandonsIInv
  <2>6. CASE o = "running"
    <3> DEFINE w == [req[c] EXCEPT !.pc = "register", !.run = r]
    <3>1. /\ w \in ReqRec /\ w.kind = "start" /\ w.visitor = req[c].visitor /\ w.pc = "register"
          /\ w.ip = req[c].ip /\ w.run = r /\ w.at = req[c].at
      <4>1. req[c] \in ReqRec
        BY <1>2 DEF ReqTypeOK
      <4> QED
        BY <1>3, <2>2, <4>1 DEF ReqRec, Starting
    <3>2. req' = [req EXCEPT ![c] = w] /\ Keeps
      BY <1>5, <2>6
    <3> HIDE DEF w
    <3>3. ReqTypeOK' /\ Moves(c) /\ req'[c] = w
      BY <1>2, <3>1, <3>2, MovesTo
    <3>4. UNCHANGED <<now, session, lastId, task, byToken, byIp, runSem, streamSem, globalRun,
                      admission, tasks, exclusive, cancelled, restarts>>
      BY <1>1, <3>2 DEF registry, Keeps, windows, permits
    <3>5. TypeOK'
      BY <1>2, <2>3, <3>3, <3>4 DEF TypeOK, RegistryTypeOK, ReqTypeOK, Rows
    <3>6. /\ admission = c
          /\ \A d \in Req : d # c => ~Prepares(d) /\ ~Prepares(d)' /\ req'[d] = req[d]
          /\ \A d \in Req : Prepares(d)' => d = c
      BY <1>3, <3>3, OnePrepares
    <3>7. /\ \A d \in Req : Bears(d) => req[d].run # r
          /\ task[r] = "none"
      BY <2>2 DEF IInv, RunsInv, StartsFit
    <3>8. /\ Bears(c)' /\ ~Bears(c) /\ req'[c].run = r /\ Starting(c)' /\ req'[c].pc = "register"
          /\ \A d \in Req : d # c => (Bears(d)' <=> Bears(d)) /\ req'[d] = req[d]
      BY <1>3, <2>2, <3>1, <3>3, <3>6, DemoConstants DEF Bears, Starting
    <3>9. \A d \in Req : ReqFits(d)'
      <4>1. ReqFits(c)'
        BY <1>2, <1>3, <2>2, <3>1, <3>3, <3>8 DEF ReqFits, At, Starting, Preparing
      <4>2. \A d \in Req : d # c => ReqFits(d)'
        BY <1>2, <3>6 DEF ReqFits, At, Starting, Bears
      <4> QED
        BY <4>1, <4>2
    <3>10. RowsFit'
      <4>1. \A q \in Run : row'[q].outcome = "running" =>
               row'[q].owner # 0 /\ \E u \in Visitor : session'[u].id = row'[q].owner
        BY <2>1, <2>2, <2>3, <3>4 DEF IInv, RunsInv, RowsFit
      <4>2. \A q \in Run : row'[q].owner <= lastId'
        BY <2>2, <2>3, <3>4 DEF IInv, RunsInv, RowsFit
      <4>3. \A u \in Visitor : session'[u].id <= lastId'
        BY <3>4 DEF IInv, RunsInv, RowsFit
      <4>4. \A q \in Run : task'[q] = "driving" => row'[q].outcome = "running"
        BY <2>3, <3>4, <3>7 DEF IInv, RunsInv, RowsFit
      <4> QED
        BY <4>1, <4>2, <4>3, <4>4 DEF RowsFit
    <3>11. StartsFit'
      <4>1. ASSUME NEW d \in Req, At(d, "start", "register")'
            PROVE  row'[req'[d].run].outcome = "running" /\ task'[req'[d].run] = "none"
        <5>1. d = c
          BY <3>6, <4>1 DEF At, Prepares, Starting, Preparing
        <5> QED
          BY <2>3, <2>6, <3>4, <3>7, <3>8, <5>1
      <4>2. \A d, e \in Req : Bears(d)' /\ Bears(e)' /\ req'[d].run = req'[e].run => d = e
        BY <3>7, <3>8 DEF IInv, RunsInv, StartsFit
      <4>3. ASSUME NEW d \in Req, Bears(d)' PROVE row'[req'[d].run].outcome # "absent"
        <5>1. CASE d = c
          BY <2>3, <2>6, <3>8, <5>1
        <5>2. CASE d # c
          <6>1. Bears(d) /\ req[d].run \in Run /\ row[req[d].run].outcome # "absent"
            BY <1>2, <3>8, <4>3, <5>2 DEF IInv, RunsInv, StartsFit, Bears, ReqTypeOK, ReqRec
          <6> QED
            BY <2>3, <3>7, <3>8, <5>2, <6>1
        <5> QED
          BY <5>1, <5>2
      <4>4. ASSUME NEW q \in Run, task'[q] # "none"
            PROVE  \E d \in Req : Bears(d)' /\ req'[d].run = q
        <5>1. PICK d \in Req : Bears(d) /\ req[d].run = q
          BY <3>4, <4>4 DEF IInv, RunsInv, StartsFit
        <5> QED
          BY <3>8, <5>1
      <4> QED
        BY <4>1, <4>2, <4>3, <4>4 DEF StartsFit
    <3>12. PermitsInv' /\ SlotsInv'
      <4>1. \A d \in Req : Holding(d)' => Holding(d)
        <5>1. Holding(c)
          BY <1>3 DEF Holding, Preparing
        <5>2. \A d \in Req : d # c => (Holding(d)' => Holding(d))
          BY <3>4, <3>6 DEF Holding, Starting
        <5> QED
          BY <5>1, <5>2
      <4>2. Slotted(c) /\ ~At(c, "stream", "poll")'
        BY <1>3, <3>8 DEF Slotted, At
      <4> QED
        BY <1>3, <3>1, <3>3, <3>4, <3>5, <3>8, <4>1, <4>2, KeepsHeld
    <3>13. AdmissionInv'
      <4>1. \A d \in Req : ~ At(d, "start", "session")' /\ ~ At(d, "start", "insert")'
        <5>1. ASSUME NEW d \in Req PROVE ~ At(d, "start", "session")' /\ ~ At(d, "start", "insert")'
          BY <3>6, <3>8 DEF At, Prepares, Starting, Preparing
        <5> QED
          BY <5>1
      <4> QED
        BY <3>4, <3>6, <4>1, NoOnePrepares
    <3> QED
      BY <3>5, <3>9, <3>10, <3>11, <3>12, <3>13 DEF IInv, RunsInv
  <2> QED
    BY <2>5, <2>6
<1> QED
  BY <1>1, <1>4, <1>5

LEMMA RegisterRunIInv ==
    ASSUME IInv, NEW c \in Req, RegisterRun(c)
    PROVE  IInv'
<1> DEFINE r == req[c].run
<1>1. /\ At(c, "start", "register")
      /\ UNCHANGED <<now, session, lastId, restarts>>
      /\ \/ /\ StartTask(r) /\ task' = [task EXCEPT ![r] = "driving"]
            /\ Goes(c, "detail") /\ Keeps /\ UNCHANGED row
         \/ /\ row' = Without(row, {r})
            /\ Abandons(c, "refused") /\ UNCHANGED <<registry, task>>
  BY DEF RegisterRun
<1>2. /\ TypeOK /\ ReqTypeOK /\ row \in Rows /\ session \in Sessions
      /\ \A d \in Req : ReqFits(d)
  BY DEF IInv, TypeOK, ReqTypeOK, RunsInv, Rows, Sessions
<1>3. /\ Starting(c) /\ req[c].pc = "register" /\ r \in Run /\ Prepares(c) /\ Bears(c)
      /\ row[r].outcome = "running" /\ task[r] = "none"
  BY <1>1, <1>2, DemoConstants
     DEF At, Starting, ReqFits, Bears, Prepares, Preparing, IInv, RunsInv, StartsFit
<1>4. CASE /\ row' = Without(row, {r})
           /\ Abandons(c, "refused") /\ UNCHANGED <<registry, task>>
  <2>1. /\ row' \in Rows /\ row'[r].owner = row[r].owner /\ row'[r].outcome = "deleted"
        /\ \A q \in Run : q # r => row'[q] = row[q]
    <3> HIDE DEF r
    <3>1. /\ row' \in Rows
          /\ \A q \in Run : /\ row'[q].owner = row[q].owner
                            /\ q \in {r} => row'[q].outcome = "deleted"
                            /\ q \notin {r} => row'[q] = row[q]
      BY <1>2, <1>4, WithoutRows
    <3> QED
      BY <1>3, <3>1
  <2>2. Shrinks(c) /\ Trims
    BY <1>1, <1>3, <2>1 DEF Shrinks, Present, Trims
  <2>3. session' \in Sessions /\ lastId' = lastId
    BY <1>1, <1>2
  <2> QED
    BY <1>1, <1>3, <1>4, <2>1, <2>2, <2>3, AbandonsIInv
<1>5. CASE /\ StartTask(r) /\ task' = [task EXCEPT ![r] = "driving"]
           /\ Goes(c, "detail") /\ Keeps /\ UNCHANGED row
  <2>1. UNCHANGED <<now, session, lastId, row, byToken, byIp, runSem, streamSem, globalRun,
                    admission, exclusive, cancelled, restarts>> /\ tasks' = tasks \cup {r}
    BY <1>1, <1>5 DEF Keeps, windows, permits, StartTask
  <2>2. ReqTypeOK' /\ Steps(c, "detail")
    BY <1>2, <1>5, GoesSteps
  <2>3. /\ Moves(c) /\ req'[c].kind = "start" /\ req'[c].pc = "detail" /\ req'[c].run = r
        /\ req'[c].visitor = req[c].visitor /\ req'[c].ip = req[c].ip /\ req'[c].at = req[c].at
    BY <1>3, <2>2 DEF Steps, Starting
  <2>4. /\ task' \in [Run -> {"none", "driving", "driven"}] /\ task'[r] = "driving"
        /\ \A q \in Run : q # r => task'[q] = task[q]
    BY <1>2, <1>3, <1>5 DEF TypeOK
  <2>5. TypeOK'
    BY <1>2, <1>3, <2>1, <2>2, <2>4 DEF TypeOK, RegistryTypeOK, ReqTypeOK
  <2>6. /\ admission = c
        /\ \A d \in Req : d # c => ~Prepares(d) /\ ~Prepares(d)' /\ req'[d] = req[d]
        /\ \A d \in Req : Prepares(d)' => d = c
    BY <1>3, <2>3, OnePrepares
  <2>7. \A d \in Req : d # c /\ Bears(d) => req[d].run # r
    BY <1>3 DEF IInv, RunsInv, StartsFit
  <2> HIDE DEF r
  <2>8. \A d \in Req : (Bears(d)' <=> Bears(d)) /\ req'[d].run = req[d].run
    BY <1>3, <2>3, <2>6 DEF Bears, Starting, r
  <2>9. \A d \in Req : ReqFits(d)'
    <3>1. ReqFits(c)'
      BY <1>2, <1>3, <2>3 DEF ReqFits, At, Starting, Preparing
    <3>2. \A d \in Req : d # c => ReqFits(d)'
      BY <1>2, <2>6 DEF ReqFits, At, Starting, Bears
    <3> QED
      BY <3>1, <3>2
  <2>10. RowsFit'
    BY <1>3, <2>1, <2>4 DEF IInv, RunsInv, RowsFit
  <2>11. \A d \in Req : ~Prepares(d)'
    BY <2>3, <2>6 DEF Prepares, Preparing
  <2>12. StartsFit'
    <3>1. \A d \in Req : ~At(d, "start", "register")'
      BY <2>11 DEF At, Prepares, Starting, Preparing
    <3>2. \A d, e \in Req : Bears(d)' /\ Bears(e)' /\ req'[d].run = req'[e].run => d = e
      BY <2>8 DEF IInv, RunsInv, StartsFit
    <3>3. \A d \in Req : Bears(d)' => row'[req'[d].run].outcome # "absent"
      BY <2>1, <2>8 DEF IInv, RunsInv, StartsFit
    <3>4. ASSUME NEW q \in Run, task'[q] # "none"
          PROVE  \E d \in Req : Bears(d)' /\ req'[d].run = q
      <4>1. CASE q = r
        BY <1>3, <2>3, <2>8, <4>1
      <4>2. CASE q # r
        <5>1. PICK d \in Req : Bears(d) /\ req[d].run = q
          BY <2>4, <3>4, <4>2 DEF IInv, RunsInv, StartsFit
        <5> QED
          BY <2>8, <5>1
      <4> QED
        BY <4>1, <4>2
    <3> QED
      BY <3>1, <3>2, <3>3, <3>4 DEF StartsFit
  <2>13. PermitsInv' /\ SlotsInv'
    <3>1. \A d \in Req : Holding(d)' => Holding(d)
      <4>1. Holding(c)
        BY <1>3 DEF Holding, Preparing
      <4>2. ASSUME NEW d \in Req, d # c, Holding(d)' PROVE Holding(d)
        <5>1. /\ Starting(d) /\ ~Prepares(d) /\ req[d].run # None /\ task'[req[d].run] # "none"
          BY <2>6, <4>2 DEF Holding, Starting, Prepares
        <5>2. req[d].run \in Run /\ req[d].run # r
          BY <1>2, <2>7, <4>2, <5>1 DEF Bears, ReqTypeOK, ReqRec
        <5> QED
          BY <2>4, <5>1, <5>2 DEF Holding
      <4> QED
        BY <4>1, <4>2
    <3>2. /\ Slotted(c) /\ ~At(c, "stream", "poll")' /\ Starting(c)'
      BY <1>3, <2>3 DEF Slotted, At, Starting, Bears
    <3> QED
      BY <1>3, <2>1, <2>3, <2>5, <3>1, <3>2, KeepsHeld
  <2>14. AdmissionInv'
    <3>1. \A d \in Req : ~ At(d, "start", "session")' /\ ~ At(d, "start", "insert")'
      BY <2>11 DEF At, Prepares, Starting, Preparing
    <3> QED
      BY <2>11, <3>1, NoOnePrepares
  <2> QED
    BY <2>5, <2>9, <2>10, <2>12, <2>13, <2>14 DEF IInv, RunsInv
<1> QED
  BY <1>1, <1>4, <1>5

\* A start stops in "done" or "dropped", keeping its permits only for a task.
LEMMA StopsIInv ==
    ASSUME IInv, TypeOK', NEW c \in Req, Starting(c), req[c].pc # "idle", Moves(c), Starting(c)',
           req'[c].pc \in {"done", "dropped"},
           req'[c].visitor = req[c].visitor, req'[c].ip = req[c].ip,
           req'[c].run = req[c].run, req'[c].at = req[c].at,
           UNCHANGED <<now, session, lastId, row, task, byToken, byIp>>,
           LosesAtMost(runSem, runSem', c), LosesAtMost(streamSem, streamSem', c),
           globalRun' \in {globalRun, globalRun \ {c}},
           Holding(c)' => UNCHANGED <<runSem, globalRun>>,
           admission' = IF admission = c THEN None ELSE admission
    PROVE  IInv'
<1>1. \A d \in Req : d # c => req'[d] = req[d]
  BY DEF Moves
<1>2. TypeOK /\ \A d \in Req : ReqFits(d)
  BY DEF IInv, RunsInv
<1>3. \A d \in Req : ReqFits(d)'
  <2>1. ReqFits(c)'
    BY <1>2 DEF ReqFits, At, Starting
  <2>2. \A d \in Req : d # c => ReqFits(d)'
    BY <1>1, <1>2 DEF ReqFits, At, Starting, Bears
  <2> QED
    BY <2>1, <2>2
<1>4. \A d \in Req : Bears(d)' <=> Bears(d)
  BY <1>1 DEF Bears, Starting
<1>5. \A d \in Req : /\ Bears(d) => req'[d].run = req[d].run
                     /\ At(d, "start", "register")' => At(d, "start", "register")
  BY <1>1 DEF At
<1>6. RunsInv'
  BY <1>2, <1>3, <1>4, <1>5, SameDatabase, TrimmedSessions, PrunedRuns DEF IInv
<1>7. PermitsInv'
  <2>1. \A d \in Req : Holding(d)' =>
           /\ Holding(d) /\ req'[d].visitor = req[d].visitor /\ req[d].visitor \in Visitor
    <3>1. \A d \in Req : Holding(d)' => Holding(d)
      BY <1>1 DEF Holding, Starting, Preparing
    <3>2. \A d \in Req : Holding(d) => req[d].visitor \in Visitor
      BY <1>2 DEF ReqFits, Holding
    <3> QED
      BY <1>1, <3>1, <3>2
  <2>2. \A d \in Req : Holding(d)' =>
           /\ d \in globalRun => d \in globalRun'
           /\ \A v \in Visitor : d \in runSem[v].held => d \in runSem'[v].held
    BY DEF LosesAtMost
  <2>3. \A d \in Req : At(d, "stream", "poll")' =>
           d # c /\ At(d, "stream", "poll") /\ req'[d] = req[d] /\ req[d].visitor \in Visitor
    BY <1>1, <1>2 DEF At, ReqFits
  <2>4. /\ \A v \in Visitor : runSem'[v].held \subseteq runSem[v].held
        /\ \A v \in Visitor : streamSem'[v].held \subseteq streamSem[v].held
        /\ \A d \in Req, v \in Visitor : d # c /\ d \in streamSem[v].held => d \in streamSem'[v].held
    BY DEF LosesAtMost
  <2>5. globalRun' \subseteq globalRun
    OBVIOUS
  <2> QED
    BY <1>2, <2>1, <2>2, <2>3, <2>4, <2>5, KeepsPermits DEF IInv
<1>8. AdmissionInv'
  <2>1. \A d \in Req : Prepares(d)' => d # c /\ Prepares(d) /\ req'[d] = req[d]
    BY <1>1 DEF Prepares, Starting, Preparing
  <2>2. \A d \in Req : Prepares(d)' => admission' = d
    BY <2>1 DEF IInv, AdmissionInv
  <2>3. \A d \in Req : At(d, "start", "session")' \/ At(d, "start", "insert")'
            => d # c
    BY DEF At
  <2>4. \A r \in Run : Present(r)' => Present(r) /\ row'[r].owner = row[r].owner
    BY DEF Present
  <2> QED
    BY <1>1, <1>2, <2>2, <2>3, <2>4, KeepsAdmission DEF IInv, At
<1>9. SlotsInv'
  <2>1. \A d \in Req : req'[d].pc \in {"idle", "admit", "reserve"}
            => req[d].pc \in {"idle", "admit", "reserve"}
    BY <1>1
  <2>2. \A d \in Req : Starting(d)' =>
            Starting(d) /\ req'[d].visitor = req[d].visitor /\ req'[d].ip = req[d].ip
    BY <1>1 DEF Starting
  <2>3. \A d \in Req : Slotted(d)' => Slotted(d) /\ req'[d].at = req[d].at
    BY <1>1 DEF Slotted, Starting
  <2>4. \A d \in Req : Starting(d) => req[d].visitor \in Visitor /\ req[d].ip \in Ip
    BY <1>2 DEF ReqFits
  <2>5. now <= now' /\ now' \in Int
    BY <1>2, Bounds DEF TypeOK
  <2>6. SlotsInv /\ UNCHANGED windows
    BY DEF IInv, windows
  <2> QED
    BY <1>2, <2>1, <2>2, <2>3, <2>4, <2>5, <2>6, KeepsSlotsOfAll
<1> QED
  BY <1>6, <1>7, <1>8, <1>9 DEF IInv

LEMMA AnswerDetailIInv ==
    ASSUME IInv, NEW c \in Req, AnswerDetail(c)
    PROVE  IInv'
<1> DEFINE s == IF Owned(req[c].run, req[c].owner) THEN "ok" ELSE "refused"
           w == [req[c] EXCEPT !.pc = "done", !.status = s]
<1>1. /\ At(c, "start", "detail")
      /\ req' = [req EXCEPT ![c].pc = "done", ![c].status = s]
      /\ admission' = IF admission = c THEN None ELSE admission
      /\ UNCHANGED <<registry, now, database, task, windows, permits, restarts>>
  BY DEF AnswerDetail
<1>2. UNCHANGED <<now, session, lastId, row, task, byToken, byIp, runSem, streamSem, globalRun,
                  tasks, exclusive, cancelled, restarts>>
  BY <1>1 DEF registry, database, windows, permits
<1>3. /\ TypeOK /\ ReqTypeOK
  BY DEF IInv, TypeOK, ReqTypeOK
<1>4. s \in {"ok", "refused"}
  OBVIOUS
<1> HIDE DEF s
<1>5. /\ w \in ReqRec /\ w.kind = req[c].kind /\ w.visitor = req[c].visitor /\ w.pc = "done"
      /\ w.ip = req[c].ip /\ w.run = req[c].run /\ w.at = req[c].at
  <2>1. req[c] \in ReqRec
    BY <1>3 DEF ReqTypeOK
  <2> QED
    BY <1>4, <2>1 DEF ReqRec
<1>6. req' = [req EXCEPT ![c] = w]
  BY <1>1
<1> HIDE DEF w
<1>7. ReqTypeOK' /\ Moves(c) /\ req'[c] = w
  BY <1>3, <1>5, <1>6, MovesTo
<1>8. TypeOK'
  BY <1>1, <1>2, <1>3, <1>7 DEF TypeOK, RegistryTypeOK, ReqTypeOK
<1>9. Starting(c) /\ req[c].pc # "idle" /\ Starting(c)'
  BY <1>1, <1>5, <1>7 DEF At, Starting
<1> QED
  BY <1>1, <1>2, <1>5, <1>7, <1>8, <1>9, SameSemaphores, StopsIInv

LEMMA DropIInv ==
    ASSUME IInv, NEW c \in Req, Drop(c)
    PROVE  IInv'
<1>1. /\ InHandler(c)
      /\ IF req[c].kind = "start" THEN Goes(c, "dropped") ELSE Answers(c, "refused")
      /\ IF At(c, "start", "detail") THEN UNCHANGED <<runSem, globalRun>>
         ELSE runSem' = Returned(runSem, c) /\ globalRun' = globalRun \ {c}
      /\ streamSem' = Returned(streamSem, c)
      /\ admission' = IF admission = c THEN None ELSE admission
      /\ UNCHANGED <<registry, now, database, task, windows, restarts>>
  BY DEF Drop
<1>2. UNCHANGED <<now, session, lastId, row, task, byToken, byIp,
                  tasks, exclusive, cancelled, restarts>>
  BY <1>1 DEF registry, database, windows
<1>3. /\ TypeOK /\ ReqTypeOK /\ runSem \in Semaphores /\ streamSem \in Semaphores /\ ReqFits(c)
  BY DEF IInv, TypeOK, ReqTypeOK, Semaphores, RunsInv
<1>4. /\ runSem' \in Semaphores /\ streamSem' \in Semaphores
      /\ LosesAtMost(runSem, runSem', c) /\ LosesAtMost(streamSem, streamSem', c)
      /\ globalRun' \in {globalRun, globalRun \ {c}}
  <2>1. streamSem' \in Semaphores /\ LosesAtMost(streamSem, streamSem', c)
    BY <1>1, <1>3, SemaphoreSteps
  <2>2. CASE At(c, "start", "detail")
    BY <1>1, <1>3, <2>1, <2>2 DEF LosesAtMost
  <2>3. CASE ~At(c, "start", "detail")
    BY <1>1, <1>3, <2>1, <2>3, SemaphoreSteps
  <2> QED
    BY <2>2, <2>3
<1>5. globalRun' \subseteq Req /\ admission' \in Req \cup {None}
  BY <1>1, <1>3, <1>4 DEF TypeOK
<1>6. CASE ~Starting(c)
  <2>1. Answers(c, "refused")
    BY <1>1, <1>6 DEF Starting
  <2>2. ReqTypeOK' /\ Leaves(c)
    BY <1>3, <2>1, AnswersLeaves
  <2>3. TypeOK'
    BY <1>2, <1>3, <1>4, <1>5, <2>2 DEF TypeOK, RegistryTypeOK, ReqTypeOK, Semaphores
  <2> QED
    BY <1>1, <1>2, <1>4, <1>6, <2>2, <2>3, SameDatabase, LeavesIInv DEF windows, Bears
<1>7. CASE Starting(c)
  <2>1. ReqTypeOK' /\ Steps(c, "dropped")
    BY <1>1, <1>3, <1>7, GoesSteps DEF Starting
  <2>2. TypeOK'
    BY <1>2, <1>3, <1>4, <1>5, <2>1 DEF TypeOK, RegistryTypeOK, ReqTypeOK, Semaphores
  <2>3. /\ Moves(c) /\ Starting(c)' /\ req'[c].pc = "dropped"
        /\ req'[c].visitor = req[c].visitor /\ req'[c].ip = req[c].ip
        /\ req'[c].run = req[c].run /\ req'[c].at = req[c].at
    BY <1>7, <2>1 DEF Steps, Starting
  <2>4. Holding(c)' => UNCHANGED <<runSem, globalRun>>
    <3> SUFFICES ASSUME Holding(c)' PROVE UNCHANGED <<runSem, globalRun>>
      OBVIOUS
    <3>1. req[c].run # None /\ task[req[c].run] # "none"
      BY <1>2, <2>3 DEF Holding, Preparing
    <3>2. req[c].pc \in {"register", "detail", "done", "dropped"} /\ req[c].pc \notin {"done", "dropped"}
      BY <1>1, <1>3, <1>7, <3>1 DEF ReqFits, Bears, InHandler
    <3>3. req[c].pc # "register"
      BY <1>7, <3>1 DEF IInv, RunsInv, StartsFit, At, Starting
    <3>4. At(c, "start", "detail")
      BY <1>7, <3>2, <3>3 DEF At, Starting
    <3> QED
      BY <1>1, <3>4
  <2>5. req[c].pc # "idle"
    BY <1>1 DEF InHandler
  <2> QED
    BY <1>1, <1>2, <1>4, <1>7, <2>2, <2>3, <2>4, <2>5, StopsIInv
<1> QED
  BY <1>6, <1>7

-----------------------------------------------------------------------------
(* The other handlers, and the streams.                                    *)

\* A read, a cancel or a delete answers: nobody else loses anything.
LEMMA RepliesIInv ==
    ASSUME IInv, NEW c \in Req, ~Starting(c), NEW s \in {"ok", "refused"}, Answers(c, s),
           UNCHANGED <<now, session, lastId, task, admission, byToken, byIp, globalRun, restarts>>,
           RegistryTypeOK', row' \in Rows, Shrinks(c),
           runSem' \in Semaphores, streamSem' \in Semaphores,
           LosesAtMost(runSem, runSem', c), LosesAtMost(streamSem, streamSem', c)
    PROVE  IInv'
<1>1. TypeOK /\ ReqTypeOK
  BY DEF IInv, TypeOK, ReqTypeOK
<1>2. ReqTypeOK' /\ Leaves(c)
  BY <1>1, AnswersLeaves
<1>3. TypeOK'
  BY <1>1, <1>2 DEF TypeOK, ReqTypeOK, Rows, Semaphores
<1>4. Trims /\ UNCHANGED windows
  BY DEF Trims, windows
<1> QED
  BY <1>2, <1>3, <1>4, LeavesIInv DEF Bears

LEMMA ReadRunIInv ==
    ASSUME IInv, NEW c \in Req, ReadRun(c)
    PROVE  IInv'
<1> DEFINE s == IF Owned(req[c].run, req[c].owner) THEN "ok" ELSE "refused"
<1>1. /\ At(c, "read", "found") /\ Answers(c, s)
      /\ UNCHANGED <<registry, now, database, task, admission, windows, permits, restarts>>
  BY DEF ReadRun
<1>2. s \in {"ok", "refused"}
  OBVIOUS
<1> HIDE DEF s
<1>3. UNCHANGED <<now, session, lastId, row, task, admission, byToken, byIp, runSem, streamSem,
                  globalRun, tasks, exclusive, cancelled, restarts>>
  BY <1>1 DEF registry, database, windows, permits
<1>4. /\ RegistryTypeOK' /\ row' \in Rows /\ runSem' \in Semaphores /\ streamSem' \in Semaphores
  BY <1>3 DEF IInv, TypeOK, RegistryTypeOK, Rows, Semaphores
<1>5. ~Starting(c)
  BY <1>1 DEF At, Starting
<1> QED
  BY <1>1, <1>2, <1>3, <1>4, <1>5, SameDatabase, SameSemaphores, RepliesIInv

LEMMA CancelOwnedIInv ==
    ASSUME IInv, NEW c \in Req, CancelOwned(c)
    PROVE  IInv'
<1>1. /\ At(c, "cancel", "found")
      /\ Answers(c, "ok") \/ Answers(c, "refused")
      /\ CancelRun(req[c].run) \/ UNCHANGED registry
      /\ UNCHANGED <<now, database, task, admission, windows, permits, restarts>>
  BY DEF CancelOwned
<1>2. UNCHANGED <<now, session, lastId, row, task, admission, byToken, byIp, runSem, streamSem,
                  globalRun, restarts>>
  BY <1>1 DEF database, windows, permits
<1>3. RegistryTypeOK'
  BY <1>1 DEF IInv, TypeOK, RegistryTypeOK, CancelRun, registry
<1>4. row' \in Rows /\ runSem' \in Semaphores /\ streamSem' \in Semaphores
  BY <1>2 DEF IInv, TypeOK, Rows, Semaphores
<1>5. ~Starting(c)
  BY <1>1 DEF At, Starting
<1>6. ASSUME NEW s \in {"ok", "refused"}, Answers(c, s) PROVE IInv'
  BY <1>2, <1>3, <1>4, <1>5, <1>6, SameDatabase, SameSemaphores, RepliesIInv
<1> QED
  BY <1>1, <1>6

LEMMA DeleteOwnedIInv ==
    ASSUME IInv, NEW c \in Req, DeleteOwned(c)
    PROVE  IInv'
<1> DEFINE r == req[c].run
<1>1. /\ At(c, "delete", "found")
      /\ \/ Answers(c, "refused") /\ UNCHANGED row
         \/ /\ Owned(r, req[c].owner) /\ row[r].outcome # "running"
            /\ Answers(c, "ok") /\ row' = Without(row, {r})
      /\ UNCHANGED <<registry, now, session, lastId, task, admission, windows, permits, restarts>>
  BY DEF DeleteOwned
<1>2. UNCHANGED <<now, session, lastId, task, admission, byToken, byIp, runSem, streamSem,
                  globalRun, tasks, exclusive, cancelled, restarts>>
  BY <1>1 DEF registry, windows, permits
<1>3. row \in Rows /\ runSem' \in Semaphores /\ streamSem' \in Semaphores /\ RegistryTypeOK'
  BY <1>2 DEF IInv, TypeOK, Rows, Semaphores, RegistryTypeOK
<1>4. ~Starting(c)
  BY <1>1 DEF At, Starting
<1>5. ASSUME NEW s \in {"ok", "refused"}, Answers(c, s), row' \in Rows, Shrinks(c) PROVE IInv'
  BY <1>2, <1>3, <1>4, <1>5, SameSemaphores, RepliesIInv
<1>6. CASE Answers(c, "refused") /\ UNCHANGED row
  BY <1>2, <1>3, <1>5, <1>6, SameDatabase
<1>7. CASE /\ Owned(r, req[c].owner) /\ row[r].outcome # "running"
           /\ Answers(c, "ok") /\ row' = Without(row, {r})
  <2> HIDE DEF r
  <2>1. /\ row' \in Rows
        /\ \A q \in Run : /\ row'[q].owner = row[q].owner
                          /\ q \in {r} => row'[q].outcome = "deleted"
                          /\ q \notin {r} => row'[q] = row[q]
    BY <1>3, <1>7, WithoutRows
  <2>2. Shrinks(c)
    BY <1>7, <2>1 DEF Shrinks, Owned
  <2> QED
    BY <1>5, <1>7, <2>1, <2>2
<1> QED
  BY <1>1, <1>6, <1>7

LEMMA LookUpIInv ==
    ASSUME IInv, NEW c \in Req, LookUp(c)
    PROVE  IInv'
<1>1. /\ req[c].pc = "idle"
      /\ UNCHANGED <<registry, now, database, task, admission, windows, permits, restarts>>
  BY DEF LookUp
<1>2. UNCHANGED <<now, session, lastId, row, task, admission, byToken, byIp, runSem, streamSem,
                  globalRun, tasks, exclusive, cancelled, restarts>>
  BY <1>1 DEF registry, database, windows, permits
<1>3. /\ TypeOK /\ ReqTypeOK /\ req[c] = Rest /\ \A d \in Req : ReqFits(d)
      /\ session \in Sessions
  BY <1>1 DEF IInv, TypeOK, ReqTypeOK, RunsInv, ReqFits, Sessions
<1>4. ~Starting(c) /\ ~Bears(c)
  BY <1>3 DEF Starting, Bears, Rest
<1>5. CASE Answers(c, "refused")
  <2>1. /\ RegistryTypeOK' /\ row' \in Rows /\ runSem' \in Semaphores /\ streamSem' \in Semaphores
    BY <1>2, <1>3 DEF TypeOK, RegistryTypeOK, Rows, Semaphores
  <2> QED
    BY <1>2, <1>4, <1>5, <2>1, SameDatabase, SameSemaphores, RepliesIInv
<1>6. ASSUME NEW k \in {"read", "cancel", "delete", "stream"}, NEW v \in Visitor, NEW r \in Run,
             req' = [req EXCEPT ![c].kind = k, ![c].visitor = v, ![c].pc = "found",
                                ![c].run = r, ![c].owner = session[v].id]
      PROVE  IInv'
  <2> DEFINE w == [req[c] EXCEPT !.kind = k, !.visitor = v, !.pc = "found",
                                 !.run = r, !.owner = session[v].id]
  <2>1. /\ w \in ReqRec /\ w.kind # "start" /\ w.visitor \in Visitor /\ w.pc = "found"
    <3>1. req[c] \in ReqRec /\ session[v].id \in 0..MaxSession
      BY <1>3, RestFits DEF Sessions
    <3> QED
      BY <3>1 DEF ReqRec, Kinds
  <2>2. req' = [req EXCEPT ![c] = w]
    BY <1>6
  <2> HIDE DEF w
  <2>3. ReqTypeOK' /\ Moves(c) /\ req'[c] = w
    BY <1>3, <2>1, <2>2, MovesTo
  <2>4. TypeOK'
    BY <1>2, <1>3, <2>3 DEF TypeOK, RegistryTypeOK, ReqTypeOK
  <2>5. \A d \in Req : d # c => req'[d] = req[d]
    BY <2>3 DEF Moves
  <2>6. ~Starting(c)' /\ ~Bears(c)'
    BY <2>1, <2>3 DEF Starting, Bears
  <2>7. \A d \in Req : ReqFits(d)'
    <3>1. ReqFits(c)'
      BY <2>1, <2>3, <2>6 DEF ReqFits, Starting, At
    <3>2. \A d \in Req : d # c => ReqFits(d)'
      BY <1>3, <2>5 DEF ReqFits, At, Starting, Bears
    <3> QED
      BY <3>1, <3>2
  <2>8. RunsInv'
    <3>1. \A d \in Req : /\ Bears(d)' <=> Bears(d)
                         /\ Bears(d) => req'[d].run = req[d].run
                         /\ At(d, "start", "register")' => At(d, "start", "register")
      BY <1>4, <2>5, <2>6 DEF Bears, Starting, At
    <3> QED
      BY <1>2, <1>3, <2>4, <2>7, <3>1, SameDatabase, TrimmedSessions, PrunedRuns DEF IInv
  <2>9. PermitsInv' /\ SlotsInv'
    <3>1. \A d \in Req : Holding(d)' => Holding(d) /\ d # c
      BY <1>2, <2>5, <2>6 DEF Holding, Starting
    <3>2. ~At(c, "stream", "poll")' /\ ~Slotted(c)'
      BY <2>1, <2>3, <2>6 DEF At, Slotted
    <3>3. req'[c].pc \notin {"idle", "admit", "reserve"}
      BY <2>1, <2>3
    <3> QED
      BY <1>2, <2>3, <2>4, <2>6, <3>1, <3>2, <3>3, KeepsHeld
  <2>10. AdmissionInv'
    <3>1. \A d \in Req : Prepares(d)' => admission' = d
      BY <1>2, <2>5, <2>6 DEF Prepares, Starting, IInv, AdmissionInv
    <3>2. \A d \in Req : At(d, "start", "session")' \/ At(d, "start", "insert")'
              => d # c
      BY <2>6 DEF At, Starting
    <3>3. \A q \in Run : Present(q)' => Present(q) /\ row'[q].owner = row[q].owner
      <4>1. row' = row
        BY <1>2
      <4> QED
        BY <4>1 DEF Present
    <3> QED
      BY <1>3, <2>5, <3>1, <3>2, <3>3, KeepsAdmission DEF IInv, At
  <2> QED
    BY <2>4, <2>8, <2>9, <2>10 DEF IInv
<1>7. PICK k \in {"read", "cancel", "delete", "stream"}, v \in Visitor, r \in Run :
         /\ row[r].outcome # "absent"
         /\ IF \/ k # "stream" /\ ~OrdinaryFree
               \/ ~Valid(v, now) \/ ~Owned(r, session[v].id) THEN Answers(c, "refused")
            ELSE req' = [req EXCEPT ![c].kind = k, ![c].visitor = v, ![c].pc = "found",
                            ![c].run = r, ![c].owner = session[v].id]
  BY DEF LookUp
<1> QED
  BY <1>5, <1>6, <1>7

LEMMA OpenStreamIInv ==
    ASSUME IInv, NEW c \in Req, OpenStream(c)
    PROVE  IInv'
<1> DEFINE v == req[c].visitor
<1>1. /\ At(c, "stream", "found")
      /\ \/ Answers(c, "refused") /\ UNCHANGED streamSem
         \/ streamSem' = Entered(streamSem, v) /\ Answers(c, "refused")
         \/ /\ Cardinality(OpenStreams) < GlobalStreams /\ Available(streamSem, v, VisitorStreams)
            /\ streamSem' = Acquired(streamSem, v, c) /\ Goes(c, "poll")
      /\ UNCHANGED <<registry, now, database, task, admission, windows, runSem, globalRun, restarts>>
  BY DEF OpenStream
<1>2. UNCHANGED <<now, session, lastId, row, task, admission, byToken, byIp, runSem,
                  globalRun, tasks, exclusive, cancelled, restarts>>
  BY <1>1 DEF registry, database, windows
<1>3. /\ TypeOK /\ ReqTypeOK /\ runSem \in Semaphores /\ streamSem \in Semaphores
      /\ \A d \in Req : ReqFits(d)
  BY DEF IInv, TypeOK, ReqTypeOK, RunsInv, Semaphores
<1>4. ~Starting(c) /\ ~Bears(c) /\ v \in Visitor /\ req[c].pc = "found"
  BY <1>1, <1>3 DEF Starting, Bears, At, ReqFits
<1>5. CASE Answers(c, "refused") /\ (streamSem' = streamSem \/ streamSem' = Entered(streamSem, v))
  <2>1. streamSem' \in Semaphores /\ LosesAtMost(streamSem, streamSem', c)
    BY <1>3, <1>4, <1>5, EntersSemaphore DEF LosesAtMost
  <2>2. RegistryTypeOK' /\ row' \in Rows /\ runSem' \in Semaphores
    BY <1>2, <1>3 DEF TypeOK, RegistryTypeOK, Rows, Semaphores
  <2>3. LosesAtMost(runSem, runSem', c)
    BY <1>2 DEF LosesAtMost
  <2> QED
    BY <1>2, <1>4, <1>5, <2>1, <2>2, <2>3, SameDatabase, RepliesIInv
<1>6. CASE /\ Cardinality(OpenStreams) < GlobalStreams /\ Available(streamSem, v, VisitorStreams)
           /\ streamSem' = Acquired(streamSem, v, c) /\ Goes(c, "poll")
  <2>1. ReqTypeOK' /\ Steps(c, "poll")
    BY <1>3, <1>6, GoesSteps
  <2>2. /\ \A d \in Req : d # c => req'[d] = req[d]
        /\ req'[c].pc = "poll" /\ req'[c].kind = "stream" /\ req'[c].visitor = v
    BY <1>1, <2>1 DEF Steps, Moves, At
  <2>3. /\ streamSem' \in Semaphores /\ streamSem'[v].held = streamSem[v].held \cup {c}
        /\ \A w \in Visitor : w # v => streamSem'[w].held = streamSem[w].held
    BY <1>3, <1>4, <1>6, AcquiresPermit
  <2>4. Cardinality(streamSem[v].held) < VisitorStreams
    BY <1>3, <1>4, <1>6, SemaphoreSteps DEF Available
  <2> HIDE DEF v
  <2>5. TypeOK'
    BY <1>2, <1>3, <2>1, <2>3 DEF TypeOK, RegistryTypeOK, ReqTypeOK, Semaphores
  <2>6. ~Starting(c)' /\ ~Bears(c)'
    BY <2>2 DEF Starting, Bears
  <2>7. \A d \in Req : ReqFits(d)'
    <3>1. ReqFits(c)'
      BY <1>4, <2>2, <2>6 DEF ReqFits, Starting, At
    <3>2. \A d \in Req : d # c => ReqFits(d)'
      BY <1>3, <2>2 DEF ReqFits, At, Starting, Bears
    <3> QED
      BY <3>1, <3>2
  <2>8. RunsInv'
    <3>1. \A d \in Req : /\ Bears(d)' <=> Bears(d)
                         /\ Bears(d) => req'[d].run = req[d].run
                         /\ At(d, "start", "register")' => At(d, "start", "register")
      BY <1>4, <2>2, <2>6 DEF Bears, Starting, At
    <3> QED
      BY <1>2, <1>3, <2>5, <2>7, <3>1, SameDatabase, TrimmedSessions, PrunedRuns DEF IInv
  <2>9. PermitsInv'
    <3>1. \A d \in Req : Holding(d)' => Holding(d) /\ req'[d] = req[d]
      BY <1>2, <2>2, <2>6 DEF Holding, Starting
    <3>2. \A d \in Req : Holding(d)' => d \in runSem'[req'[d].visitor].held /\ d \in globalRun'
      BY <1>2, <3>1 DEF IInv, PermitsInv
    <3>3. OpenStreams' = OpenStreams \cup {c}
      BY <1>1, <2>2 DEF OpenStreams, At
    <3>4. ASSUME NEW d \in OpenStreams' PROVE d \in streamSem'[req'[d].visitor].held
      <4>1. CASE d = c
        BY <2>2, <2>3, <4>1
      <4>2. CASE d # c
        <5>1. d \in OpenStreams /\ req'[d] = req[d] /\ req[d].visitor \in Visitor
          BY <1>3, <2>2, <3>3, <4>2 DEF OpenStreams, ReqFits
        <5>2. d \in streamSem[req[d].visitor].held
          BY <5>1 DEF IInv, PermitsInv
        <5> QED
          BY <2>3, <5>1, <5>2
      <4> QED
        BY <4>1, <4>2
    <3>5. streamSem[v].held \in SUBSET Req /\ OpenStreams \in SUBSET Req
      BY <1>3, <1>4 DEF Semaphores, Semaphore, OpenStreams
    <3>6. /\ Cardinality(streamSem[v].held) \in Nat /\ Cardinality(streamSem[v].held \cup {c}) \in Nat
          /\ Cardinality(streamSem[v].held \cup {c}) <= Cardinality(streamSem[v].held) + 1
          /\ Cardinality(OpenStreams) \in Nat /\ Cardinality(OpenStreams \cup {c}) \in Nat
          /\ Cardinality(OpenStreams \cup {c}) <= Cardinality(OpenStreams) + 1
      BY <3>5, OneMore
    <3>7. Cardinality(streamSem'[v].held) <= VisitorStreams /\ Cardinality(OpenStreams') <= GlobalStreams
      BY <1>6, <2>3, <2>4, <3>3, <3>6, Limits
    <3>8. \A w \in Visitor : Cardinality(streamSem'[w].held) <= VisitorStreams
      BY <2>3, <3>7 DEF IInv, PermitsInv
    <3>9. \A w \in Visitor : Cardinality(runSem'[w].held) <= VisitorRuns
      BY <1>2 DEF IInv, PermitsInv
    <3>10. Cardinality(globalRun') <= GlobalRuns
      BY <1>2 DEF IInv, PermitsInv
    <3> QED
      BY <3>2, <3>4, <3>7, <3>8, <3>9, <3>10 DEF PermitsInv
  <2>10. SlotsInv'
    <3>1. \A d \in Req : req'[d].pc \in {"idle", "admit", "reserve"}
              => req[d].pc \in {"idle", "admit", "reserve"}
      BY <2>2
    <3>2. \A d \in Req : Starting(d)' =>
              Starting(d) /\ req'[d].visitor = req[d].visitor /\ req'[d].ip = req[d].ip
      BY <2>2, <2>6 DEF Starting
    <3>3. \A d \in Req : Slotted(d)' => Slotted(d) /\ req'[d].at = req[d].at
      BY <2>2, <2>6 DEF Slotted, Starting
    <3>4. \A d \in Req : Starting(d) => req[d].visitor \in Visitor /\ req[d].ip \in Ip
      BY <1>3 DEF ReqFits
    <3>5. now <= now' /\ now' \in Int
      BY <1>2, <1>3, Bounds DEF TypeOK
    <3>6. SlotsInv /\ UNCHANGED windows
      BY <1>2 DEF IInv, windows
    <3> QED
      BY <1>3, <3>1, <3>2, <3>3, <3>4, <3>5, <3>6, KeepsSlotsOfAll
  <2>11. AdmissionInv'
    <3>1. \A d \in Req : Prepares(d)' => admission' = d
      BY <1>2, <2>2, <2>6 DEF Prepares, Starting, IInv, AdmissionInv
    <3>2. \A d \in Req : At(d, "start", "session")' \/ At(d, "start", "insert")'
              => d # c
      BY <2>6 DEF At, Starting
    <3>3. \A q \in Run : Present(q)' => Present(q) /\ row'[q].owner = row[q].owner
      <4>1. row' = row
        BY <1>2
      <4> QED
        BY <4>1 DEF Present
    <3> QED
      BY <1>3, <2>2, <3>1, <3>2, <3>3, KeepsAdmission DEF IInv, At
  <2> QED
    BY <2>5, <2>8, <2>9, <2>10, <2>11 DEF IInv
<1> QED
  BY <1>1, <1>5, <1>6

LEMMA ClosesIInv ==
    ASSUME IInv, NEW c \in Req, At(c, "stream", "poll"), NEW s \in {"ok", "refused"}, Closes(c, s)
    PROVE  IInv'
<1>1. /\ Answers(c, s) /\ streamSem' = Returned(streamSem, c)
      /\ UNCHANGED <<registry, now, database, task, admission, windows, runSem, globalRun, restarts>>
  BY DEF Closes
<1>2. UNCHANGED <<now, session, lastId, row, task, admission, byToken, byIp, runSem,
                  globalRun, tasks, exclusive, cancelled, restarts>>
  BY <1>1 DEF registry, database, windows
<1>3. runSem \in Semaphores /\ streamSem \in Semaphores
  BY DEF IInv, TypeOK, Semaphores
<1>4. RegistryTypeOK' /\ row' \in Rows /\ runSem' \in Semaphores
  BY <1>2, <1>3 DEF IInv, TypeOK, RegistryTypeOK, Rows
<1>5. streamSem' \in Semaphores /\ LosesAtMost(streamSem, streamSem', c)
  BY <1>1, <1>3, SemaphoreSteps
<1>6. LosesAtMost(runSem, runSem', c) /\ ~Starting(c)
  BY <1>2 DEF LosesAtMost, At, Starting
<1> QED
  BY <1>1, <1>2, <1>4, <1>5, <1>6, SameDatabase, RepliesIInv

-----------------------------------------------------------------------------
(* Tasks, the cleanup loop, time and restarts: no request moves.           *)

LEMMA DriveEndsIInv ==
    ASSUME IInv, NEW r \in Run, DriveEnds(r)
    PROVE  IInv'
<1>1. PICK o \in {"completed", "failed", "aborted"} : row' = [row EXCEPT ![r].outcome = o]
  BY DEF DriveEnds
<1>2. /\ task[r] = "driving" /\ task' = [task EXCEPT ![r] = "driven"]
      /\ UNCHANGED <<now, session, lastId, admission, byToken, byIp, runSem, streamSem,
                     globalRun, req, tasks, exclusive, cancelled, restarts>>
  BY DEF DriveEnds, registry, windows, permits
<1>3. TypeOK /\ row \in Rows /\ \A d \in Req : ReqFits(d)
  BY DEF IInv, TypeOK, Rows, RunsInv
<1>4. /\ row' \in Rows /\ row'[r].owner = row[r].owner /\ row'[r].outcome = o
      /\ \A q \in Run : q # r => row'[q] = row[q]
  BY <1>1, <1>3 DEF Rows
<1>5. /\ task' \in [Run -> {"none", "driving", "driven"}] /\ task'[r] = "driven"
      /\ \A q \in Run : q # r => task'[q] = task[q]
  BY <1>2, <1>3 DEF TypeOK
<1>6. TypeOK'
  BY <1>2, <1>3, <1>4, <1>5 DEF TypeOK, RegistryTypeOK, Rows
<1>7. row[r].outcome = "running"
  BY <1>2 DEF IInv, RunsInv, RowsFit
<1>8. RunsInv'
  <2>1. \A d \in Req : ReqFits(d)'
    BY <1>2, <1>3 DEF ReqFits, At, Starting, Bears
  <2>2. \A d \in Req : (Bears(d)' <=> Bears(d)) /\ req'[d] = req[d]
    BY <1>2 DEF Bears, Starting
  <2>3. \A d \in Req : At(d, "start", "register")' =>
           /\ At(d, "start", "register") /\ row'[req[d].run].outcome = "running"
           /\ task'[req[d].run] = "none"
    <3> SUFFICES ASSUME NEW d \in Req, At(d, "start", "register")'
                 PROVE  /\ At(d, "start", "register") /\ row'[req[d].run].outcome = "running"
                        /\ task'[req[d].run] = "none"
      OBVIOUS
    <3>1. /\ At(d, "start", "register") /\ req[d].run \in Run
          /\ row[req[d].run].outcome = "running" /\ task[req[d].run] = "none"
      BY <1>2, <1>3 DEF At, ReqFits, IInv, RunsInv, StartsFit
    <3> QED
      BY <1>2, <1>4, <1>5, <3>1
  <2>4. \A q \in Run : /\ row'[q].owner = row[q].owner
                       /\ row'[q].outcome = "running" => row[q].outcome = "running"
                       /\ row[q].outcome # "absent" => row'[q].outcome # "absent"
    BY <1>4, <1>7
  <2>5. \A v \in Visitor : session'[v].id = session[v].id /\ session'[v].id <= lastId'
    BY <1>2 DEF IInv, RunsInv, RowsFit
  <2>6. \A q \in Run : task'[q] = "driving" => task[q] = "driving" /\ row'[q].outcome = "running"
    BY <1>4, <1>5 DEF IInv, RunsInv, RowsFit
  <2>7. \A q \in Run : task'[q] # "none" => task[q] # "none"
    BY <1>2, <1>5
  <2>8. lastId <= lastId'
    BY <1>2, <1>3 DEF TypeOK
  <2> QED
    BY <1>3, <1>6, <2>1, <2>2, <2>3, <2>4, <2>5, <2>6, <2>7, <2>8, KeepsRuns DEF IInv
<1>9. PermitsInv'
  <2>1. \A d \in Req : Holding(d)' => Holding(d) /\ req[d].visitor \in Visitor
    <3> SUFFICES ASSUME NEW d \in Req, Holding(d)' PROVE Holding(d) /\ req[d].visitor \in Visitor
      OBVIOUS
    <3>1. req[d].run # None => req[d].run \in Run
      BY <1>3 DEF TypeOK, ReqRec
    <3>2. Holding(d)
      BY <1>2, <1>5, <3>1 DEF Holding, Starting
    <3> QED
      BY <1>3, <3>2 DEF ReqFits, Holding
  <2>2. \A d \in Req : At(d, "stream", "poll")' => At(d, "stream", "poll") /\ req[d].visitor \in Visitor
    BY <1>2, <1>3 DEF At, ReqFits
  <2> QED
    BY <1>2, <1>3, <1>6, <2>1, <2>2, KeepsPermits DEF IInv
<1>10. AdmissionInv'
  <2>1. \A d \in Req : Prepares(d)' => admission' = d
    BY <1>2 DEF Prepares, Starting, IInv, AdmissionInv
  <2>2. \A q \in Run : Present(q)' => Present(q) /\ row'[q].owner = row[q].owner
    BY <1>4, <1>7 DEF Present
  <2> QED
    BY <1>2, <1>3, <2>1, <2>2, KeepsAdmission DEF IInv, At
<1>11. SlotsInv'
  BY <1>2 DEF IInv, SlotsInv, Slotted, Starting
<1> QED
  BY <1>6, <1>8, <1>9, <1>10, <1>11 DEF IInv

LEMMA StarterIs ==
    ASSUME IInv, NEW r \in Run, task[r] # "none"
    PROVE  /\ Starter(r) \in Req /\ Bears(Starter(r)) /\ req[Starter(r)].run = r
           /\ \A d \in Req : Bears(d) /\ req[d].run = r => d = Starter(r)
<1>1. PICK c \in Req : Bears(c) /\ req[c].run = r
  BY DEF IInv, RunsInv, StartsFit
<1>2. \E d \in Req : req[d].kind = "start" /\ req[d].run = r
  BY <1>1 DEF Bears, Starting
<1>3. Starter(r) \in Req /\ req[Starter(r)].kind = "start" /\ req[Starter(r)].run = r
  BY <1>2 DEF Starter
<1>4. Bears(Starter(r))
  BY <1>3, DemoConstants DEF Bears, Starting
<1> QED
  BY <1>3, <1>4 DEF IInv, RunsInv, StartsFit

LEMMA TaskEndsIInv ==
    ASSUME IInv, NEW r \in Run, TaskEnds(r)
    PROVE  IInv'
<1> DEFINE s == Starter(r)
<1>1. /\ task[r] = "driven" /\ task' = [task EXCEPT ![r] = "none"]
      /\ row' = Without(row, Excess(row, row[r].owner))
      /\ runSem' = Returned(runSem, s) /\ globalRun' = globalRun \ {s} /\ ReleaseRun(r)
      /\ UNCHANGED <<now, session, lastId, admission, byToken, byIp, streamSem, req, restarts>>
  BY DEF TaskEnds, windows
<1>2. TypeOK /\ row \in Rows /\ runSem \in Semaphores /\ \A d \in Req : ReqFits(d)
  BY DEF IInv, TypeOK, Rows, Semaphores, RunsInv
<1>3. /\ s \in Req /\ Bears(s) /\ req[s].run = r
      /\ \A d \in Req : Bears(d) /\ req[d].run = r => d = s
  BY <1>1, StarterIs
<1> HIDE DEF s
<1>4. Prunes
  <2>1. PICK o : o = row[r].owner
    OBVIOUS
  <2>2. row' = Without(row, Excess(row, o))
    BY <1>1, <2>1
  <2> QED
    BY <1>2, <2>2, TrimmedCount
<1>5. row' \in Rows
  BY <1>1, <1>2, WithoutRows
<1>6. /\ task' \in [Run -> {"none", "driving", "driven"}] /\ task'[r] = "none"
      /\ \A q \in Run : q # r => task'[q] = task[q]
  BY <1>1, <1>2 DEF TypeOK
<1>7. runSem' \in Semaphores /\ LosesAtMost(runSem, runSem', s)
  BY <1>1, <1>2, SemaphoreSteps
<1>8. RegistryTypeOK'
  BY <1>1, <1>2 DEF TypeOK, RegistryTypeOK, ReleaseRun
<1>9. TypeOK'
  BY <1>1, <1>2, <1>5, <1>6, <1>7, <1>8 DEF TypeOK, Rows, Semaphores
<1>10. RunsInv'
  <2>1. \A d \in Req : ReqFits(d)'
    BY <1>1, <1>2 DEF ReqFits, At, Starting, Bears
  <2>2. \A d \in Req : (Bears(d)' <=> Bears(d)) /\ req'[d] = req[d]
    BY <1>1 DEF Bears, Starting
  <2>3. \A q \in Run : /\ row'[q].owner = row[q].owner
                       /\ row'[q].outcome = "running" <=> row[q].outcome = "running"
                       /\ row[q].outcome # "absent" => row'[q].outcome # "absent"
    BY <1>4 DEF Prunes
  <2>4. \A d \in Req : At(d, "start", "register")' =>
           /\ At(d, "start", "register") /\ row'[req[d].run].outcome = "running"
           /\ task'[req[d].run] = "none"
    <3> SUFFICES ASSUME NEW d \in Req, At(d, "start", "register")'
                 PROVE  /\ At(d, "start", "register") /\ row'[req[d].run].outcome = "running"
                        /\ task'[req[d].run] = "none"
      OBVIOUS
    <3>1. /\ At(d, "start", "register") /\ req[d].run \in Run
          /\ row[req[d].run].outcome = "running" /\ task[req[d].run] = "none"
      BY <1>1, <1>2 DEF At, ReqFits, IInv, RunsInv, StartsFit
    <3> QED
      BY <1>6, <2>3, <3>1
  <2>5. \A v \in Visitor : session'[v].id = session[v].id /\ session'[v].id <= lastId'
    BY <1>1 DEF IInv, RunsInv, RowsFit
  <2>6. \A q \in Run : task'[q] = "driving" => task[q] = "driving" /\ row'[q].outcome = "running"
    BY <1>6, <2>3 DEF IInv, RunsInv, RowsFit
  <2>7. \A q \in Run : task'[q] # "none" => task[q] # "none"
    BY <1>6
  <2>8. lastId <= lastId'
    BY <1>1, <1>2 DEF TypeOK
  <2> QED
    BY <1>2, <1>9, <2>1, <2>2, <2>3, <2>4, <2>5, <2>6, <2>7, <2>8, KeepsRuns DEF IInv
<1>11. PermitsInv'
  <2>1. ASSUME NEW d \in Req, Holding(d)' PROVE Holding(d) /\ d # s
    <3>1. req[d].run # None => req[d].run \in Run
      BY <1>2 DEF TypeOK, ReqRec
    <3>2. Starting(d) /\ (req[d].pc \in Preparing \/ (req[d].run # None /\ task'[req[d].run] # "none"))
      BY <1>1, <2>1 DEF Holding, Starting
    <3>3. Holding(d)
      BY <1>6, <3>1, <3>2 DEF Holding
    <3>4. d # s
      <4>1. CASE req[d].run # None /\ task'[req[d].run] # "none"
        BY <1>3, <1>6, <4>1
      <4>2. CASE req[d].pc \in Preparing
        <5> SUFFICES ASSUME d = s PROVE FALSE
          OBVIOUS
        <5>1. At(d, "start", "register")
          BY <1>2, <1>3, <3>2, <4>2 DEF ReqFits, Preparing, At, Starting
        <5>2. task[r] = "none"
          BY <1>3, <5>1 DEF IInv, RunsInv, StartsFit
        <5> QED
          BY <1>1, <5>2
      <4> QED
        BY <3>2, <4>1, <4>2
    <3> QED
      BY <3>3, <3>4
  <2>2. \A d \in Req : Holding(d) => req[d].visitor \in Visitor
    BY <1>2 DEF ReqFits, Holding
  <2>3. /\ \A v \in Visitor : runSem'[v].held \subseteq runSem[v].held
        /\ \A d \in Req, v \in Visitor : d # s /\ d \in runSem[v].held => d \in runSem'[v].held
    BY <1>7 DEF LosesAtMost
  <2>4. \A d \in Req : At(d, "stream", "poll")' => At(d, "stream", "poll") /\ req[d].visitor \in Visitor
    BY <1>1, <1>2 DEF At, ReqFits
  <2>5. globalRun' \subseteq globalRun /\ \A d \in Req : d # s /\ d \in globalRun => d \in globalRun'
    BY <1>1
  <2>6. \A d \in Req : Holding(d)' =>
           /\ Holding(d) /\ req'[d].visitor = req[d].visitor /\ req[d].visitor \in Visitor
           /\ d \in globalRun => d \in globalRun'
           /\ \A v \in Visitor : d \in runSem[v].held => d \in runSem'[v].held
    BY <1>1, <2>1, <2>2, <2>3, <2>5
  <2> QED
    BY <1>1, <1>2, <1>9, <2>3, <2>4, <2>5, <2>6, KeepsPermits DEF IInv
<1>12. AdmissionInv'
  <2>1. \A d \in Req : Prepares(d)' => admission' = d
    BY <1>1 DEF Prepares, Starting, IInv, AdmissionInv
  <2>2. \A q \in Run : Present(q)' => Present(q) /\ row'[q].owner = row[q].owner
    BY <1>4 DEF Prunes, Present
  <2> QED
    BY <1>1, <1>2, <2>1, <2>2, KeepsAdmission DEF IInv, At
<1>13. SlotsInv'
  BY <1>1 DEF IInv, SlotsInv, Slotted, Starting
<1> QED
  BY <1>9, <1>10, <1>11, <1>12, <1>13 DEF IInv

\* No request moves and no task changes: what the windows, the semaphores and
\* the database lose is nobody's.
LEMMA RestIInv ==
    ASSUME IInv, TypeOK', UNCHANGED <<req, task, lastId, admission, globalRun>>, Prunes, Trims,
           \A v \in Visitor : /\ runSem'[v].held = runSem[v].held
                              /\ streamSem'[v].held = streamSem[v].held,
           now <= now', UNCHANGED windows \/ (PruneWindows(now) /\ now' = now)
    PROVE  IInv'
<1>1. TypeOK /\ \A d \in Req : ReqFits(d)
  BY DEF IInv, RunsInv
<1>2. \A d \in Req : /\ ReqFits(d)' /\ (Bears(d)' <=> Bears(d)) /\ (Holding(d)' <=> Holding(d))
                     /\ Starting(d)' <=> Starting(d)
                     /\ Prepares(d)' <=> Prepares(d)
                     /\ Slotted(d)' <=> Slotted(d)
  BY <1>1 DEF ReqFits, At, Bears, Starting, Holding, Prepares, Slotted
<1>3. \A d \in Req : /\ At(d, "start", "register")' <=> At(d, "start", "register")
                     /\ At(d, "start", "session")' <=> At(d, "start", "session")
                     /\ At(d, "start", "insert")' <=> At(d, "start", "insert")
                     /\ At(d, "stream", "poll")' <=> At(d, "stream", "poll")
  BY DEF At
<1>4. RunsInv'
  <2>1. /\ lastId <= lastId'
        /\ \A v \in Visitor :
               /\ \/ session'[v].id = session[v].id
                  \/ ~ \E r \in Run : row[r].outcome = "running" /\ row[r].owner = session[v].id
               /\ session'[v].id <= lastId'
    BY <1>1, TrimmedSessions DEF IInv
  <2> QED
    BY <1>1, <1>2, <1>3, <2>1, PrunedRuns DEF IInv
<1>5. PermitsInv'
  <2>1. \A d \in Req : Holding(d) => req[d].visitor \in Visitor
    BY <1>1 DEF ReqFits, Holding
  <2>2. \A d \in Req : At(d, "stream", "poll")' => At(d, "stream", "poll") /\ req[d].visitor \in Visitor
    BY <1>1, <1>3 DEF At, ReqFits
  <2> QED
    BY <1>1, <1>2, <2>1, <2>2, KeepsPermits DEF IInv
<1>6. AdmissionInv'
  <2>1. \A d \in Req : Prepares(d)' => admission' = d
    BY <1>2 DEF IInv, AdmissionInv
  <2>2. \A q \in Run : Present(q)' => Present(q) /\ row'[q].owner = row[q].owner
    BY DEF Prunes, Present
  <2> QED
    BY <1>1, <1>3, <2>1, <2>2, KeepsAdmission DEF IInv
<1>7. SlotsInv'
  <2>1. \A d \in Req : Starting(d) => req[d].visitor \in Visitor /\ req[d].ip \in Ip
    BY <1>1 DEF ReqFits
  <2>2. now' \in Int
    BY Bounds DEF TypeOK
  <2> QED
    BY <1>1, <1>2, <2>1, <2>2, KeepsSlotsOfAll DEF IInv
<1> QED
  BY <1>4, <1>5, <1>6, <1>7 DEF IInv

LEMMA CleanupTickIInv ==
    ASSUME IInv, CleanupTick
    PROVE  IInv'
<1>1. /\ CleanUpExpired(row, Expired(now)) /\ PruneWindows(now)
      /\ runSem' = RetainActive(runSem) /\ streamSem' = RetainActive(streamSem)
      /\ UNCHANGED <<registry, now, task, admission, globalRun, req, restarts>>
  BY DEF CleanupTick
<1>2. TypeOK /\ runSem \in Semaphores /\ streamSem \in Semaphores
  BY DEF IInv, TypeOK, Semaphores
<1>3. row' \in Rows /\ session' \in Sessions /\ lastId' = lastId /\ Trims /\ Prunes
  BY <1>1, <1>2, CleansUpExpired
<1>4. byToken' \in [Visitor -> SUBSET Slot] /\ byIp' \in [Ip -> SUBSET Slot]
  BY <1>1, <1>2, PrunesWindows
<1>5. /\ runSem' \in Semaphores /\ streamSem' \in Semaphores
      /\ \A v \in Visitor : /\ runSem'[v].held = runSem[v].held
                            /\ streamSem'[v].held = streamSem[v].held
  BY <1>1, <1>2, SemaphoreSteps
<1>6. UNCHANGED <<tasks, exclusive, cancelled>>
  BY <1>1 DEF registry
<1>7. TypeOK'
  BY <1>1, <1>2, <1>3, <1>4, <1>5, <1>6 DEF TypeOK, RegistryTypeOK, Rows, Sessions, Semaphores
<1>8. now <= now'
  BY <1>1, <1>2, Bounds DEF TypeOK
<1> QED
  BY <1>1, <1>3, <1>5, <1>7, <1>8, RestIInv

LEMMA AdvanceIInv ==
    ASSUME IInv, Advance
    PROVE  IInv'
<1>1. /\ now < MaxTime /\ now' = now + 1
      /\ UNCHANGED <<registry, database, task, admission, windows, permits, req, restarts>>
  BY DEF Advance
<1>2. UNCHANGED <<session, lastId, row, task, admission, byToken, byIp, runSem, streamSem,
                  globalRun, req, tasks, exclusive, cancelled, restarts>>
  BY <1>1 DEF registry, database, windows, permits
<1>3. TypeOK
  BY DEF IInv
<1>4. now' \in 0..MaxTime /\ now <= now'
  BY <1>1, <1>3, Bounds DEF TypeOK
<1>5. TypeOK'
  BY <1>2, <1>3, <1>4 DEF TypeOK, RegistryTypeOK
<1> QED
  BY <1>2, <1>4, <1>5, SameDatabase, RestIInv DEF windows

\* A restart leaves no start, no permit, no slot and no running row.
LEMMA RestartIInv ==
    ASSUME IInv, Restart
    PROVE  IInv'
<1> DEFINE gone == {v \in Visitor : session[v].id # 0 /\ session[v].expires <= now}
<1>1. /\ restarts < MaxRestarts /\ restarts' = restarts + 1
      /\ tasks' = {} /\ exclusive' = None /\ cancelled' = {}
      /\ task' = [r \in Run |-> "none"] /\ admission' = None
      /\ byToken' = [v \in Visitor |-> {}] /\ byIp' = [i \in Ip |-> {}]
      /\ runSem' = [v \in Visitor |-> Fresh] /\ streamSem' = [v \in Visitor |-> Fresh]
      /\ globalRun' = {}
      /\ req' = [c \in Req |-> IF req[c].pc = "idle" THEN req[c] ELSE Over("refused")]
      /\ CleanUpExpired(Recovered, gone) /\ now' = now
  BY DEF Restart
<1>2. TypeOK /\ row \in Rows /\ \A d \in Req : ReqFits(d)
  BY DEF IInv, TypeOK, Rows, RunsInv
<1>3. /\ Recovered \in Rows
      /\ \A r \in Run : Recovered[r].owner = row[r].owner /\ Recovered[r].outcome # "running"
  BY <1>2 DEF Recovered, Rows
<1>4. gone \in SUBSET Visitor
  OBVIOUS
<1> HIDE DEF gone
<1>5. /\ row' \in Rows /\ session' \in Sessions /\ lastId' = lastId
      /\ \A v \in Visitor : session'[v] = IF v \in gone THEN NoSession ELSE session[v]
      /\ \A r \in Run : row'[r].owner = row[r].owner /\ row'[r].outcome # "running"
  BY <1>1, <1>2, <1>3, <1>4, CleansUp
<1>6. /\ Over("refused") \in ReqRec /\ Over("refused").pc = "done" /\ Over("refused").kind = "none"
  BY RestFits DEF Over, ReqRec, Rest
<1>7. \A c \in Req : \/ req[c].pc = "idle" /\ req'[c] = Rest
                     \/ req'[c] = Over("refused")
  BY <1>1, <1>2 DEF ReqFits
<1>8. \A c \in Req : /\ req'[c].kind = "none" /\ req'[c].pc \in {"idle", "done"}
                     /\ req'[c].pc = "idle" => req'[c] = Rest
  BY <1>6, <1>7 DEF Rest
<1>9. TypeOK'
  <2>1. RegistryTypeOK'
    BY <1>1 DEF RegistryTypeOK
  <2>2. now' \in 0..MaxTime /\ lastId' \in 0..MaxSession /\ restarts' \in 0..MaxRestarts
    BY <1>1, <1>2, <1>5, Bounds DEF TypeOK
  <2>3. req' \in [Req -> ReqRec]
    BY <1>1, <1>2, <1>6 DEF TypeOK
  <2>4. Fresh \in Semaphore
    BY DEF Fresh, Semaphore
  <2> QED
    BY <1>1, <1>5, <2>1, <2>2, <2>3, <2>4 DEF TypeOK, Rows, Sessions
<1>10. \A c \in Req : ~Starting(c)' /\ ~At(c, "stream", "poll")' /\ ~At(c, "stream", "found")'
  BY <1>8 DEF Starting, At
<1>11. RunsInv'
  <2>1. \A d \in Req : ReqFits(d)'
    BY <1>8, <1>10 DEF ReqFits, Bears, At, Starting
  <2>2. RowsFit'
    <3>1. \A v \in Visitor : session'[v].id <= lastId'
      BY <1>2, <1>5 DEF IInv, RunsInv, RowsFit, NoSession, TypeOK
    <3> QED
      BY <1>1, <1>5, <3>1 DEF IInv, RunsInv, RowsFit
  <2>3. StartsFit'
    BY <1>1, <1>10 DEF StartsFit, Bears, At, Starting
  <2> QED
    BY <2>1, <2>2, <2>3 DEF RunsInv
<1>12. PermitsInv'
  <2>1. OpenStreams' = {}
    BY <1>10 DEF OpenStreams
  <2>2. \A v \in Visitor : runSem'[v].held = {} /\ streamSem'[v].held = {}
    BY <1>1 DEF Fresh
  <2>3. Cardinality({}) = 0
    BY FS_EmptySet
  <2>4. \A c \in Req : ~Holding(c)'
    BY <1>10 DEF Holding
  <2>5. ASSUME NEW v \in Visitor
        PROVE  /\ Cardinality(runSem'[v].held) <= VisitorRuns
               /\ Cardinality(streamSem'[v].held) <= VisitorStreams
    <3>1. Cardinality(runSem'[v].held) = 0 /\ Cardinality(streamSem'[v].held) = 0
      BY <2>2, <2>3
    <3> QED
      BY <3>1, Limits
  <2>6. Cardinality(globalRun') <= GlobalRuns /\ Cardinality(OpenStreams') <= GlobalStreams
    BY <1>1, <2>1, <2>3, Limits
  <2> QED
    BY <2>1, <2>4, <2>5, <2>6 DEF PermitsInv
<1>13. AdmissionInv'
  BY <1>10 DEF AdmissionInv, Prepares, At, Starting
<1>14. SlotsInv'
  BY <1>1, <1>10 DEF SlotsInv, SlotsOf, Slotted
<1> QED
  BY <1>9, <1>11, <1>12, <1>13, <1>14 DEF IInv

LEMMA InitIInv ==
    ASSUME Init
    PROVE  IInv
<1>1. PICK v \in Visitor, o \in {"absent", "completed"} :
        /\ session = [w \in Visitor |->
                         IF w = v THEN [id |-> 1, expires |-> SessionTtl] ELSE NoSession]
        /\ row = [r \in Run |-> IF r = 1 THEN [owner |-> 1, outcome |-> o]
                                          ELSE [owner |-> 0, outcome |-> "absent"]]
  BY DEF Init
<1>2. /\ RegistryInit /\ now = 0 /\ lastId = 1 /\ restarts = 0
      /\ task = [r \in Run |-> "none"] /\ admission = None
      /\ byToken = [w \in Visitor |-> {}] /\ byIp = [i \in Ip |-> {}]
      /\ runSem = [w \in Visitor |-> Fresh] /\ streamSem = [w \in Visitor |-> Fresh]
      /\ globalRun = {} /\ req = [c \in Req |-> Rest]
  BY DEF Init
<1>3. session \in Sessions /\ \A w \in Visitor : session[w].id \in {0, 1}
  BY <1>1, Bounds DEF Sessions, NoSession
<1>4. row \in Rows /\ \A r \in Run : row[r].owner \in {0, 1} /\ row[r].outcome # "running"
  BY <1>1, Bounds DEF Rows
<1>5. TypeOK
  <2>1. RegistryTypeOK
    BY <1>2 DEF RegistryInit, RegistryTypeOK
  <2>2. now \in 0..MaxTime /\ lastId \in 0..MaxSession /\ restarts \in 0..MaxRestarts
    BY <1>2, Bounds
  <2>3. Fresh \in Semaphore
    BY DEF Fresh, Semaphore
  <2> QED
    BY <1>2, <1>3, <1>4, <2>1, <2>2, <2>3, RestFits DEF TypeOK, Rows, Sessions
<1>6. \A c \in Req : req[c] = Rest /\ ~Starting(c) /\ ~At(c, "stream", "poll") /\ ~At(c, "stream", "found")
  BY <1>2 DEF Rest, Starting, At
<1>7. RunsInv
  <2>1. \A d \in Req : ReqFits(d)
    BY <1>6 DEF ReqFits, Bears, At, Starting
  <2>2. RowsFit
    BY <1>2, <1>3, <1>4 DEF RowsFit
  <2>3. StartsFit
    BY <1>2, <1>6 DEF StartsFit, Bears, At, Starting
  <2> QED
    BY <2>1, <2>2, <2>3 DEF RunsInv
<1>8. PermitsInv
  <2>1. OpenStreams = {}
    BY <1>6 DEF OpenStreams
  <2>2. \A w \in Visitor : runSem[w].held = {} /\ streamSem[w].held = {}
    BY <1>2 DEF Fresh
  <2>3. Cardinality({}) = 0
    BY FS_EmptySet
  <2>4. \A c \in Req : ~Holding(c)
    BY <1>6 DEF Holding
  <2>5. ASSUME NEW w \in Visitor
        PROVE  /\ Cardinality(runSem[w].held) <= VisitorRuns
               /\ Cardinality(streamSem[w].held) <= VisitorStreams
    <3>1. Cardinality(runSem[w].held) = 0 /\ Cardinality(streamSem[w].held) = 0
      BY <2>2, <2>3
    <3> QED
      BY <3>1, Limits
  <2>6. Cardinality(globalRun) <= GlobalRuns /\ Cardinality(OpenStreams) <= GlobalStreams
    BY <1>2, <2>1, <2>3, Limits
  <2> QED
    BY <2>1, <2>4, <2>5, <2>6 DEF PermitsInv
<1>9. AdmissionInv
  BY <1>6 DEF AdmissionInv, Prepares, At, Starting
<1>10. SlotsInv
  BY <1>2, <1>6 DEF SlotsInv, SlotsOf, Slotted
<1> QED
  BY <1>5, <1>7, <1>8, <1>9, <1>10 DEF IInv

LEMMA NextIInv ==
    ASSUME IInv, [Next]_vars
    PROVE  IInv'
<1>1. ASSUME NEW c \in Req, Handler(c) PROVE IInv'
  <2>1. CASE StartRun(c)
    BY <2>1, StartRunIInv
  <2>2. CASE Admit(c)
    BY <2>2, AdmitIInv
  <2>3. CASE ReserveStart(c)
    BY <2>3, ReserveStartIInv
  <2>4. CASE CleanUp(c)
    BY <2>4, CleanUpIInv
  <2>5. CASE TakeSession(c)
    BY <2>5, TakeSessionIInv
  <2>6. CASE PrepareOwned(c)
    BY <2>6, PrepareOwnedIInv
  <2>7. CASE PreparationFails(c)
    BY <2>7, PreparationFailsIInv
  <2>8. CASE RegisterRun(c)
    BY <2>8, RegisterRunIInv
  <2>9. CASE AnswerDetail(c)
    BY <2>9, AnswerDetailIInv
  <2>10. CASE LookUp(c)
    BY <2>10, LookUpIInv
  <2>11. CASE ReadRun(c)
    BY <2>11, ReadRunIInv
  <2>12. CASE CancelOwned(c)
    BY <2>12, CancelOwnedIInv
  <2>13. CASE DeleteOwned(c)
    BY <2>13, DeleteOwnedIInv
  <2>14. CASE OpenStream(c)
    BY <2>14, OpenStreamIInv
  <2>15. CASE PollStream(c)
    BY <2>15, ClosesIInv DEF PollStream
  <2>16. CASE ExpireStream(c)
    BY <2>16, ClosesIInv DEF ExpireStream
  <2> QED
    BY <1>1, <2>1, <2>2, <2>3, <2>4, <2>5, <2>6, <2>7, <2>8, <2>9, <2>10, <2>11, <2>12, <2>13,
       <2>14, <2>15, <2>16 DEF Handler
<1>2. ASSUME NEW c \in Req, Drop(c) PROVE IInv'
  BY <1>2, DropIInv
<1>3. ASSUME NEW r \in Run, DriveEnds(r) PROVE IInv'
  BY <1>3, DriveEndsIInv
<1>4. ASSUME NEW r \in Run, TaskEnds(r) PROVE IInv'
  BY <1>4, TaskEndsIInv
<1>5. CASE CleanupTick
  BY <1>5, CleanupTickIInv
<1>6. CASE Advance
  BY <1>6, AdvanceIInv
<1>7. CASE Restart
  BY <1>7, RestartIInv
<1>8. CASE UNCHANGED vars
  <2>1. UNCHANGED <<now, session, lastId, row, task, admission, byToken, byIp, runSem, streamSem,
                    globalRun, req, tasks, exclusive, cancelled, restarts>>
    BY <1>8 DEF vars, registry, database, windows, permits
  <2>2. TypeOK /\ now <= now'
    BY <2>1, Bounds DEF IInv, TypeOK
  <2>3. TypeOK'
    BY <2>1, <2>2 DEF TypeOK, RegistryTypeOK
  <2> QED
    BY <2>1, <2>2, <2>3, SameDatabase, RestIInv DEF windows
<1> QED
  BY <1>1, <1>2, <1>3, <1>4, <1>5, <1>6, <1>7, <1>8 DEF Next

-----------------------------------------------------------------------------
(* What the invariant gives.                                               *)

\* Who holds what: the inductive invariant holds of every Demo server.
THEOREM TheLedgerIsKept == Spec => []IInv
<1>1. Init => IInv
  BY InitIInv
<1>2. IInv /\ [Next]_vars => IInv'
  BY NextIInv
<1> QED
  BY <1>1, <1>2, PTL DEF Spec

\* What is active holds permits, and no more permits are out than a limit allows.
LEMMA HeldWithinLimits ==
    ASSUME IInv
    PROVE  ActiveWithinLimits
<1>1. \A S \in SUBSET Req : IsFiniteSet(S) /\ Cardinality(S) \in Nat
  BY DemoConstants, FS_Subset, FS_CardinalityType
<1>2. \A S, T \in SUBSET Req : S \subseteq T => Cardinality(S) <= Cardinality(T)
  BY <1>1, FS_Subset
<1>3. /\ globalRun \in SUBSET Req
      /\ \A v \in Visitor : runSem[v].held \in SUBSET Req /\ streamSem[v].held \in SUBSET Req
  BY DEF IInv, TypeOK, Semaphore
<1>4. ASSUME NEW v \in Visitor
      PROVE  /\ Active(v) \subseteq runSem[v].held /\ Active(v) \subseteq globalRun
             /\ {c \in OpenStreams : req[c].visitor = v} \subseteq streamSem[v].held
  <2>1. \A c \in Active(v) : c \in Req /\ Holding(c) /\ req[c].visitor = v
    BY DEF Active, Holding, Starting, Preparing
  <2>2. \A c \in OpenStreams : c \in streamSem[req[c].visitor].held
    BY DEF IInv, PermitsInv
  <2> QED
    BY <2>1, <2>2 DEF IInv, PermitsInv
<1>5. ASSUME NEW v \in Visitor
      PROVE  /\ Cardinality(Active(v)) <= VisitorRuns
             /\ Cardinality({c \in OpenStreams : req[c].visitor = v}) <= VisitorStreams
  <2>1. /\ Active(v) \in SUBSET Req
        /\ {c \in OpenStreams : req[c].visitor = v} \in SUBSET Req
    BY DEF Active, OpenStreams
  <2>2. /\ Cardinality(Active(v)) <= Cardinality(runSem[v].held)
        /\ Cardinality({c \in OpenStreams : req[c].visitor = v}) <= Cardinality(streamSem[v].held)
    BY <1>2, <1>3, <1>4, <2>1
  <2>3. /\ Cardinality(runSem[v].held) <= VisitorRuns
        /\ Cardinality(streamSem[v].held) <= VisitorStreams
    BY DEF IInv, PermitsInv
  <2> QED
    BY <1>1, <1>3, <2>1, <2>2, <2>3, Limits
<1>6. Cardinality(UNION {Active(v) : v \in Visitor}) <= GlobalRuns
  <2> DEFINE all == UNION {Active(v) : v \in Visitor}
  <2>1. all \subseteq globalRun
    BY <1>4
  <2>2. all \in SUBSET Req
    BY <1>3, <2>1
  <2>3. Cardinality(globalRun) <= GlobalRuns
    BY DEF IInv, PermitsInv
  <2> HIDE DEF all
  <2>4. Cardinality(all) <= Cardinality(globalRun)
    BY <1>2, <1>3, <2>1, <2>2
  <2>5. Cardinality(all) <= GlobalRuns
    BY <1>1, <1>3, <2>2, <2>3, <2>4, Limits
  <2> QED
    BY <2>5 DEF all
<1>7. Cardinality(OpenStreams) <= GlobalStreams
  BY DEF IInv, PermitsInv
<1> QED
  BY <1>5, <1>6, <1>7 DEF ActiveWithinLimits

\* DemoLimitsHold: neither the runs and streams of a visitor or of the server,
\* nor the rows a start leaves, ever pass their limit, whatever handlers are
\* dropped, tasks end and semaphores are reclaimed meanwhile.
THEOREM LimitsHold == Spec => []DemoLimitsHold
<1>1. IInv => DemoLimitsHold
  BY HeldWithinLimits DEF DemoLimitsHold, CapacityHeldUntilInsert, IInv, AdmissionInv
<1> QED
  BY <1>1, TheLedgerIsKept, PTL

\* StartedRunsAreKept: a start that was not released stays in the windows of
\* its token and its address, and a driven run keeps its row and its session.
THEOREM StartsAreKept == Spec => []StartedRunsAreKept
<1>1. ASSUME IInv PROVE ScheduledStartsCount
  <2>1. ASSUME NEW c \in Req, req[c].kind = "start"
        PROVE  (\E s \in byToken[req[c].visitor] : s.id = c)
                   <=> (\E s \in byIp[req[c].ip] : s.id = c)
    <3>1. SlotsOf(byToken[req[c].visitor], c) = SlotsOf(byIp[req[c].ip], c)
      BY <1>1, <2>1 DEF IInv, SlotsInv, Starting
    <3> QED
      BY <3>1 DEF SlotsOf
  <2>2. ASSUME NEW c \in Req, req[c].run # None, req[c].kind = "start", req[c].at > now - Window
        PROVE  \E s \in byToken[req[c].visitor] : s.id = c
    <3>1. [id |-> c, at |-> req[c].at] \in byToken[req[c].visitor]
      BY <1>1, <2>2 DEF IInv, SlotsInv, Slotted, Starting
    <3> QED
      BY <3>1
  <2> QED
    BY <2>1, <2>2 DEF ScheduledStartsCount
<1>2. IInv => DrivenKeepsSession
  BY DEF IInv, RunsInv, RowsFit, DrivenKeepsSession
<1>3. IInv => StartedRunsAreKept
  BY <1>1, <1>2 DEF StartedRunsAreKept
<1> QED
  BY <1>3, TheLedgerIsKept, PTL
=============================================================================
