------------------------- MODULE LiveOwnershipProofs -------------------------
(***************************************************************************)
(* Safety of the ownership protocol of LiveOwnership for any number of     *)
(* processes, runs, owners and loops, any staleness bound and any use of   *)
(* history deletion.  The inductive invariant is built in three layers:    *)
(*   IInv  types, the lock discipline and NoTakeover, with what the locals *)
(*         of a process hold at each program counter;                      *)
(*   CInv  how the rows fit each other: claims, owners, runs, the source   *)
(*         of every unresolved recovery;                                   *)
(*   KInv  what the loops carry and which rows tell of it (with GoalsFit:  *)
(*         who issues which controller call).                              *)
(* IInv and CInv hold whatever is deleted.  KInv, and the two theorems     *)
(* that rest on it, PerturbationsAccounted and OwnershipIsCustody, are for *)
(* a program that deletes no history: with deletion both are false (TLC    *)
(* refutes both in the instance of LiveOwnership_deletion.cfg).            *)
(***************************************************************************)
EXTENDS LiveOwnership, TLAPS

\* What the locals w of a process hold at each program counter.
LocalsFit(w) ==
    /\ w.pc \in Guarded \cup {"locked", "rlocked", "prepared"} => w.res \in Resource
    /\ w.pc \in Guarded \cup {"exported"} => w.own \in Owner
    /\ w.pc \in {"prepared", "owned", "finishing", "releasing"} => w.kind = "tune"
    /\ w.pc \in {"rlocked", "completing"} => w.kind = "recovery"
    /\ w.kind \in {"tune", "recovery"} => w.run \in Run

LocalsOK == \A p \in Proc : LocalsFit(proc[p])

\* A run row that exists names its resource.
RunsHaveResource ==
    \A r \in Run : runs[r].outcome \notin {"absent", "deleted"} => runs[r].res \in Resource

\* The run a process works for has had a row.
RunsStarted ==
    \A p \in Proc :
        proc[p].kind \in {"tune", "recovery"} => runs[proc[p].run].outcome # "absent"

\* The inductive invariant.
IInv ==
    /\ TypeOK
    /\ LockDiscipline
    /\ LocalsOK
    /\ RunsHaveResource
    /\ RunsStarted
    /\ NoTakeover

\* How a step may change the run rows.
RunStep ==
    \A r \in Run :
        /\ runs'[r].outcome \notin {"absent", "deleted"} => runs'[r].res \in Resource
        /\ runs[r].outcome # "absent" => runs'[r].outcome # "absent"

\* The types of everything but the processes and the lock.
RowsOK ==
    /\ runs \in [Run -> RunRec]
    /\ owners \in [Owner -> OwnerRec]
    /\ claims \in [Resource -> Owner \cup {None}]
    /\ loop \in [Resource -> Owner \cup {None}]
    /\ exported \subseteq Owner

\* The guard with locals w, if it is one, has not been taken over: ow and cl are
\* the owner and claim rows before or after a step.
GuardFits(w, ow, cl) ==
    w.pc \in Guarded => \/ ow[w.own].state = "deleted"
                        \/ /\ ow[w.own].state = "active"
                           /\ ow[w.own].res = w.res
                           /\ cl[w.res] = w.own

\* Go replaces the locals of one process.
LEMMA GoEffect ==
  ASSUME TypeOK, NEW p \in Proc, NEW nw \in ProcRec, Go(p, nw)
  PROVE  /\ proc' \in [Proc -> ProcRec]
         /\ proc'[p] = nw
         /\ \A q \in Proc : q # p => proc'[q] = proc[q]
  BY DEF Go, TypeOK

\* The process holding the OS lock is the only one in a locking state.
LEMMA Alone ==
  ASSUME LockDiscipline, NEW p \in Proc, proc[p].pc \in Locking
  PROVE  lock = p /\ \A q \in Proc : q # p => proc[q].pc \notin Locking
  BY DEF LockDiscipline

\* A guard is held under the OS lock.
LEMMA GuardedLocks == Guarded \subseteq Locking
  BY DEF Locking

\* One process moves to the locals nw.
LEMMA StepIInv ==
  ASSUME IInv, NEW p \in Proc, NEW nw \in ProcRec, Go(p, nw),
         RowsOK', RunStep, LocalsFit(nw),
         \/ nw.kind = proc[p].kind /\ nw.run = proc[p].run
         \/ nw.kind \in {"tune", "recovery"} => runs'[nw.run].outcome # "absent",
         \/ lock' = lock /\ (nw.pc \in Locking <=> proc[p].pc \in Locking)
         \/ lock = None /\ lock' = p /\ nw.pc \in Locking
         \/ lock = p /\ lock' = None /\ nw.pc \notin Locking,
         \/ /\ UNCHANGED <<owners, claims>>
            /\ nw.pc \in Guarded =>
                 proc[p].pc \in Guarded /\ nw.own = proc[p].own /\ nw.res = proc[p].res
         \/ proc[p].pc \in Locking /\ GuardFits(nw, owners', claims')
  PROVE  IInv'
<1> USE DEF IInv
<1>1. /\ proc' \in [Proc -> ProcRec]
      /\ proc'[p] = nw
      /\ \A q \in Proc : q # p => proc'[q] = proc[q]
  BY GoEffect
<1>2. TypeOK' BY <1>1 DEF TypeOK, RowsOK
<1>3. LockDiscipline' BY <1>1, ConstantsAssumption DEF LockDiscipline
<1>4. LocalsOK' BY <1>1 DEF LocalsOK, LocalsFit
<1>5. NoTakeover'
  <2> SUFFICES ASSUME NEW q \in Proc PROVE GuardFits(proc'[q], owners', claims')
    BY <1>4, ConstantsAssumption DEF NoTakeover, GuardFits, HoldsClaim, LocalsOK, LocalsFit
  <2>0. GuardFits(proc[q], owners, claims) /\ GuardFits(proc[p], owners, claims)
    BY DEF NoTakeover, GuardFits, HoldsClaim
  <2>1. CASE UNCHANGED <<owners, claims>> /\ (nw.pc \in Guarded =>
                 proc[p].pc \in Guarded /\ nw.own = proc[p].own /\ nw.res = proc[p].res)
    BY <1>1, <2>0, <2>1 DEF GuardFits, HoldsClaim
  <2>2. CASE proc[p].pc \in Locking /\ GuardFits(nw, owners', claims')
    <3>1. CASE q = p BY <1>1, <2>2, <3>1 DEF GuardFits, HoldsClaim
    <3>2. CASE q # p
      <4>1. proc'[q].pc \notin Guarded BY <1>1, <2>2, <3>2, Alone, GuardedLocks
      <4> QED BY <4>1 DEF GuardFits
    <3> QED BY <3>1, <3>2
  <2> QED BY <2>1, <2>2
<1>6. RunsHaveResource' BY DEF RunsHaveResource, RunStep
<1>7. RunsStarted' BY <1>1, <1>4 DEF RunsStarted, RunStep, LocalsOK, LocalsFit
<1> QED BY <1>2, <1>3, <1>4, <1>5, <1>6, <1>7

\* The records of an idle or stopped process and of a missing row.
LEMMA RestTypes ==
  /\ NoOperation \in ProcRec /\ NoOperation.pc = "idle" /\ NoOperation.kind = "none"
  /\ ProcDown \in ProcRec /\ ProcDown.pc = "down" /\ ProcDown.kind = "none"
  /\ NoRunRow \in RunRec
  /\ NoOwnerRow \in OwnerRec
<1>1. NoOperation \in ProcRec BY DEF NoOperation, ProcRec, PCs
<1>2. NoOperation.pc = "idle" /\ NoOperation.kind = "none" BY DEF NoOperation
<1>3. ProcDown \in ProcRec /\ ProcDown.pc = "down" /\ ProcDown.kind = "none" BY <1>1, <1>2 DEF ProcDown, ProcRec, PCs
<1>4. NoRunRow \in RunRec BY DEF NoRunRow, RunRec, Terminal
<1>5. NoOwnerRow \in OwnerRec BY ConstantsAssumption DEF NoOwnerRow, OwnerRec
<1> QED BY <1>1, <1>2, <1>3, <1>4, <1>5

\* A process ends what it was doing: it goes idle or down and drops its lock.
LEMMA LeaveIInv ==
  ASSUME IInv, NEW p \in Proc, NEW nw \in {NoOperation, ProcDown}, Go(p, nw),
         lock' = IF lock = p THEN None ELSE lock, RowsOK', RunStep,
         proc[p].pc \in Locking \/ UNCHANGED <<owners, claims>>
  PROVE  IInv'
<1>1. nw \in ProcRec /\ nw.pc \in {"idle", "down"} /\ nw.kind = "none" BY RestTypes
<1> HIDE DEF NoOperation, ProcDown
<1>2. nw.pc \notin Locking /\ nw.pc \notin Guarded BY <1>1 DEF Locking, Guarded
<1>3. LocalsFit(nw) BY <1>1, <1>2 DEF LocalsFit
<1>4. GuardFits(nw, owners', claims') BY <1>2 DEF GuardFits
<1>5. lock = p <=> proc[p].pc \in Locking BY DEF IInv, LockDiscipline
<1> QED BY <1>1, <1>2, <1>3, <1>4, <1>5, StepIInv DEF IInv, TypeOK

\* The invariant holds before the first process starts.
LEMMA InitIInv == Init => IInv
<1> SUFFICES ASSUME Init PROVE IInv OBVIOUS
<1>1. \A p \in Proc : proc[p] = ProcDown BY DEF Init
<1>2. \A r \in Run : runs[r] = NoRunRow BY DEF Init
<1>3. TypeOK BY RestTypes DEF Init, TypeOK
<1>4. LockDiscipline BY <1>1, RestTypes, ConstantsAssumption DEF Init, LockDiscipline, Locking, Guarded
<1>5. LocalsOK BY <1>1, RestTypes DEF LocalsOK, LocalsFit, Guarded
<1>6. RunsHaveResource BY <1>2 DEF RunsHaveResource, NoRunRow
<1>7. RunsStarted BY <1>1, RestTypes DEF RunsStarted
<1>8. NoTakeover BY <1>1, RestTypes DEF NoTakeover, Guarded
<1> QED BY <1>3, <1>4, <1>5, <1>6, <1>7, <1>8 DEF IInv

\* One run row changes; it exists before.
LEMMA RunUpdate ==
  ASSUME TypeOK, RunsHaveResource, NEW r \in Run, NEW nr \in RunRec,
         runs' = [runs EXCEPT ![r] = nr], nr.outcome # "absent",
         nr.res \in Resource \/ nr.outcome = "deleted"
  PROVE  runs' \in [Run -> RunRec] /\ RunStep
  BY DEF TypeOK, RunsHaveResource, RunStep

\* A step that leaves the run rows alone.
LEMMA RunsUnchanged ==
  ASSUME RunsHaveResource, UNCHANGED runs
  PROVE  RunStep
  BY DEF RunsHaveResource, RunStep

\* A guarded process moves on under its guard.
LEMMA GuardedStepIInv ==
  ASSUME IInv, NEW p \in Proc, NEW nw \in ProcRec, Go(p, nw),
         proc[p].pc \in Guarded, nw.pc \in Guarded, LocalsFit(nw),
         nw.own = proc[p].own, nw.res = proc[p].res,
         nw.kind = proc[p].kind, nw.run = proc[p].run,
         RowsOK', RunStep, UNCHANGED <<lock, claims>>,
         owners'[nw.own].state = owners[nw.own].state,
         owners'[nw.own].res = owners[nw.own].res
  PROVE  IInv'
<1>1. GuardFits(nw, owners', claims')
  BY DEF IInv, NoTakeover, HoldsClaim, GuardFits
<1> QED BY <1>1, GuardedLocks, StepIInv

-----------------------------------------------------------------------------
(* The startup sweep *)

\* Startup, with or without the sweep (db::open).
LEMMA StartupIInv ==
  ASSUME IInv, NEW p \in Proc, StartupSkips(p) \/ StartupSweeps(p)
  PROVE  IInv'
<1> USE DEF IInv
<1>0. RowsOK' /\ RunStep /\ UNCHANGED <<owners, claims>>
  BY DEF StartupSkips, StartupSweeps, TypeOK, RowsOK, RunsHaveResource, RunStep
<1>1. CASE StartupSkips(p)
  <2>1. lock # p BY <1>1 DEF LockDiscipline, StartupSkips, Locking, Guarded
  <2> QED BY <1>0, <1>1, <2>1, LeaveIInv DEF StartupSkips
<1>2. CASE StartupSweeps(p)
  <2> DEFINE todo == {o \in Owner : Stale(o)}
             nw == [NoOperation EXCEPT !.pc = "sweeping", !.todo = todo]
  <2>0. todo \subseteq Owner OBVIOUS
  <2> HIDE DEF todo
  <2>1. nw \in ProcRec /\ nw.pc = "sweeping" /\ nw.kind = "none"
    BY <2>0, RestTypes DEF ProcRec, PCs, Locking
  <2>2. Go(p, nw) /\ lock = None /\ lock' = p BY <1>2 DEF StartupSweeps, todo
  <2> HIDE DEF nw
  <2>3. LocalsFit(nw) /\ nw.pc \in Locking /\ nw.pc \notin Guarded
    BY <2>1 DEF LocalsFit, Locking, Guarded
  <2> QED BY <1>0, <2>1, <2>2, <2>3, StepIInv
<1> QED BY <1>1, <1>2

\* The evidence export of one candidate.
LEMMA SweepExportIInv ==
  ASSUME IInv, NEW p \in Proc, NEW o \in Owner, SweepExport(p, o)
  PROVE  IInv'
<1> USE DEF IInv
<1> DEFINE w == proc[p]
           nw == [w EXCEPT !.pc = "exported", !.own = o, !.todo = @ \ {o}]
<1>1. w \in ProcRec /\ w.pc = "sweeping" /\ LocalsFit(w)
  BY DEF SweepExport, TypeOK, LocalsOK
<1>2. Go(p, nw) /\ lock' = lock /\ UNCHANGED <<owners, claims>> BY DEF SweepExport
<1>3. RowsOK' /\ RunStep BY DEF SweepExport, TypeOK, RowsOK, RunsHaveResource, RunStep
<1> HIDE DEF w
<1>4. /\ nw \in ProcRec /\ nw.pc = "exported" /\ nw.own = o
      /\ nw.kind = w.kind /\ nw.run = w.run /\ nw.res = w.res
  BY <1>1 DEF ProcRec, PCs, Locking
<1> HIDE DEF nw
<1>5. LocalsFit(nw) /\ nw.pc \notin Guarded /\ nw.pc \in Locking /\ w.pc \in Locking
  BY <1>1, <1>4 DEF LocalsFit, Guarded, Locking
<1> QED BY <1>2, <1>3, <1>4, <1>5, StepIInv DEF w

\* A sweep step over the rows brings the process back to its list.
LEMMA SweepNextIInv ==
  ASSUME IInv, NEW p \in Proc, proc[p].pc = "exported",
         Go(p, [proc[p] EXCEPT !.pc = "sweeping", !.own = None]),
         lock' = lock, RowsOK', RunStep
  PROVE  IInv'
<1> USE DEF IInv
<1> DEFINE w == proc[p]
           nw == [w EXCEPT !.pc = "sweeping", !.own = None]
<1>1. w \in ProcRec /\ w.pc = "exported" /\ LocalsFit(w) BY DEF TypeOK, LocalsOK
<1>2. Go(p, nw) OBVIOUS
<1> HIDE DEF w
<1>3. nw \in ProcRec /\ nw.pc = "sweeping" /\ nw.kind = w.kind /\ nw.run = w.run
  BY <1>1, ZenonT(60) DEF ProcRec, PCs, Locking
<1> HIDE DEF nw
<1>4. LocalsFit(nw) /\ nw.pc \in Locking /\ nw.pc \notin Guarded /\ w.pc \in Locking
  BY <1>1, <1>3 DEF LocalsFit, Locking, Guarded
<1>5. GuardFits(nw, owners', claims') BY <1>4 DEF GuardFits
<1> QED BY <1>2, <1>3, <1>4, <1>5, StepIInv DEF w

\* The three ways the sweep settles a stale owner.
LEMMA SweepRowsIInv ==
  ASSUME IInv, NEW p \in Proc, SweepOrphan(p) \/ SweepRetire(p) \/ SweepAbandon(p)
  PROVE  IInv'
<1> USE DEF IInv
<1> DEFINE o == proc[p].own
           v == owners[o]
           r == v.run
<1>0. /\ proc[p].pc = "exported" /\ lock' = lock
      /\ Go(p, [proc[p] EXCEPT !.pc = "sweeping", !.own = None])
      /\ UNCHANGED <<loop, exported>>
  BY Zenon DEF SweepOrphan, SweepRetire, SweepAbandon, MarkOrphaned,
         MarkOrphanedUnrecoverable, AbandonAfterRestart, Stale
<1>1. o \in Owner /\ v \in OwnerRec
  BY <1>0 DEF LocalsOK, LocalsFit, TypeOK
<1>2. v.res \in Resource
  BY <1>1, Zenon DEF SweepOrphan, SweepRetire, SweepAbandon, MarkOrphaned,
         MarkOrphanedUnrecoverable, AbandonAfterRestart, Stale, HoldsClaim, OwnerRec
<1>3. CASE SweepOrphan(p)
  <2> DEFINE e == RecoveryEligible(o)
             nv == [v EXCEPT !.state = "orphaned", !.eligible = e]
             nr == [runs[r] EXCEPT !.outcome = "failed", !.restore = "incomplete",
                      !.recovery = IF e THEN "eligible" ELSE "not_recoverable"]
  <2>1. /\ owners' = [owners EXCEPT ![o] = nv]
        /\ runs' = [runs EXCEPT ![r] = nr]
        /\ claims' = IF e THEN claims ELSE [claims EXCEPT ![v.res] = None]
    BY <1>3, Zenon DEF SweepOrphan, MarkOrphaned, Stale
  <2>2. e \in BOOLEAN BY <1>1 DEF RecoveryEligible, OwnerRec
  <2> HIDE DEF v, e
  <2>3. nv \in OwnerRec BY <1>1, <2>2 DEF OwnerRec
  <2> HIDE DEF nv
  <2>4. /\ runs' \in [Run -> RunRec]
        /\ \A x \in Run : /\ runs'[x].res = runs[x].res
                          /\ \/ runs'[x].outcome = runs[x].outcome
                             \/ x = r /\ runs[r].outcome = "running"
    <3>1. CASE r \in Run
      <4> DEFINE b == runs[r]
      <4>1. b \in RunRec BY <3>1 DEF TypeOK
      <4> HIDE DEF b
      <4>2. [b EXCEPT !.outcome = "failed", !.restore = "incomplete",
                      !.recovery = IF e THEN "eligible" ELSE "not_recoverable"] \in RunRec
         /\ [b EXCEPT !.outcome = "failed", !.restore = "incomplete",
                      !.recovery = IF e THEN "eligible" ELSE "not_recoverable"].res = b.res
        BY <4>1 DEF RunRec, Terminal, Unresolved
      <4>3. b.outcome = "running" BY <1>3, Zenon DEF SweepOrphan, MarkOrphaned, b, v
      <4> QED BY <2>1, <3>1, <4>1, <4>2, <4>3 DEF b, TypeOK
    <3>2. CASE r \notin Run BY <2>1, <3>2 DEF TypeOK
    <3> QED BY <3>1, <3>2
  <2>5. RowsOK' BY <1>0, <1>2, <2>1, <2>3, <2>4 DEF RowsOK, TypeOK
  <2>6. RunStep
    <3> SUFFICES ASSUME NEW x \in Run
                 PROVE  /\ runs'[x].outcome \notin {"absent", "deleted"} => runs'[x].res \in Resource
                        /\ runs[x].outcome # "absent" => runs'[x].outcome # "absent"
      BY DEF RunStep
    <3>1. CASE runs'[x].outcome = runs[x].outcome BY <2>4, <3>1 DEF RunsHaveResource
    <3>2. CASE x = r /\ runs[r].outcome = "running" BY <2>1, <2>4, <3>2 DEF RunsHaveResource, TypeOK
    <3> QED BY <2>4, <3>1, <3>2
  <2> QED BY <1>0, <2>5, <2>6, SweepNextIInv, ZenonT(60)
<1>4. CASE SweepRetire(p)
  <2> DEFINE nv == [v EXCEPT !.state = "orphaned", !.eligible = FALSE]
  <2>1. /\ owners' = [owners EXCEPT ![o] = nv]
        /\ claims' = [claims EXCEPT ![v.res] = None] /\ runs' = runs
    BY <1>4 DEF SweepRetire, MarkOrphanedUnrecoverable, Stale
  <2> HIDE DEF v
  <2>2. nv \in OwnerRec BY <1>1 DEF OwnerRec
  <2> HIDE DEF nv
  <2>3. RowsOK' BY <1>0, <1>2, <2>1, <2>2, Zenon DEF RowsOK, TypeOK
  <2>4. RunStep BY <2>1 DEF RunsHaveResource, RunStep
  <2> QED BY <1>0, <2>3, <2>4, SweepNextIInv
<1>5. CASE SweepAbandon(p)
  <2> DEFINE nv == [v EXCEPT !.state = "released", !.attempt = "incomplete"]
             b == runs[r]
             nr == [b EXCEPT !.restore = "incomplete", !.recovery = "incomplete"]
  <2>1. /\ owners' = [owners EXCEPT ![o] = nv]
        /\ runs' = [runs EXCEPT ![r] = nr]
        /\ claims' = [claims EXCEPT ![v.res] = v.source]
    BY <1>5, ZenonT(60) DEF SweepAbandon, AbandonAfterRestart, Stale
  <2>2. r \in Run /\ b \in RunRec /\ v.source \in Owner \cup {None}
    BY <1>1, <1>5 DEF SweepAbandon, AbandonAfterRestart, Stale, AbandonAccepts, OwnerRec, TypeOK
  <2> HIDE DEF v, b
  <2>3. nv \in OwnerRec BY <1>1 DEF OwnerRec
  <2>4. nr \in RunRec /\ nr.res = b.res /\ nr.outcome = b.outcome
    BY <2>2 DEF RunRec, Unresolved
  <2> HIDE DEF nv, nr
  <2>5. RowsOK' BY <1>0, <1>2, <2>1, <2>2, <2>3, <2>4 DEF RowsOK, TypeOK
  <2>6. RunStep BY <2>1, <2>2, <2>4 DEF RunsHaveResource, RunStep, TypeOK, b
  <2> QED BY <1>0, <2>5, <2>6, SweepNextIInv
<1> QED BY <1>3, <1>4, <1>5

-----------------------------------------------------------------------------
(* Tunes and writes up to their first controller write *)

\* The run row is inserted.
LEMMA StartRunIInv ==
  ASSUME IInv, NEW p \in Proc, NEW r \in Run, NEW res \in Resource, StartRun(p, r, res)
  PROVE  IInv'
<1> USE DEF IInv
<1> DEFINE nw == [NoOperation EXCEPT !.pc = "prepared", !.kind = "tune", !.run = r, !.res = res]
           b  == runs[r]
           nr == [b EXCEPT !.outcome = "running", !.res = res]
<1>1. /\ proc[p].pc = "idle" /\ Go(p, nw) /\ runs' = [runs EXCEPT ![r] = nr]
      /\ UNCHANGED <<lock, owners, claims, loop, exported>>
  BY DEF StartRun
<1>2. /\ nw \in ProcRec /\ nw.pc = "prepared" /\ nw.kind = "tune"
      /\ nw.run = r /\ nw.res = res
  BY RestTypes DEF ProcRec, PCs
<1>3. b \in RunRec BY DEF TypeOK
<1> HIDE DEF nw, b
<1>4. nr \in RunRec /\ nr.res = res /\ nr.outcome = "running" BY <1>3 DEF RunRec, Terminal
<1> HIDE DEF nr
<1>5. runs' \in [Run -> RunRec] /\ RunStep /\ runs'[r] = nr
  BY <1>1, <1>4, RunUpdate DEF TypeOK
<1>6. RowsOK' BY <1>1, <1>5 DEF RowsOK, TypeOK
<1>7. /\ LocalsFit(nw) /\ nw.pc \notin Guarded /\ nw.pc \notin Locking
      /\ proc[p].pc \notin Locking
  BY <1>1, <1>2 DEF LocalsFit, Guarded, Locking
<1> QED BY <1>1, <1>2, <1>4, <1>5, <1>6, <1>7, StepIInv

\* A failed preparation ends or removes its run row.
LEMMA PrepareFailsIInv ==
  ASSUME IInv, NEW p \in Proc, PrepareFails(p)
  PROVE  IInv'
<1> USE DEF IInv
<1> DEFINE r == proc[p].run
           b == runs[r]
<1>1. r \in Run /\ b \in RunRec /\ b.outcome # "absent"
  BY DEF PrepareFails, LocalsOK, LocalsFit, TypeOK, RunsStarted
<1>2. b.outcome = "deleted" \/ b.res \in Resource BY <1>1 DEF RunsHaveResource
<1>3. PICK out \in {"failed", "deleted", "running"} :
        runs' = [runs EXCEPT ![r].outcome = IF @ = "deleted" THEN @ ELSE out]
  BY DEF PrepareFails
<1> DEFINE nr == [b EXCEPT !.outcome = IF b.outcome = "deleted" THEN b.outcome ELSE out]
<1>4. runs' = [runs EXCEPT ![r] = nr] BY <1>3
<1> HIDE DEF r, b
<1>5. /\ nr \in RunRec /\ nr.res = b.res /\ nr.outcome # "absent"
      /\ nr.outcome = "deleted" \/ b.outcome # "deleted"
  BY <1>1 DEF RunRec, Terminal
<1> HIDE DEF nr
<1>6. runs' \in [Run -> RunRec] /\ RunStep BY <1>1, <1>2, <1>4, <1>5, RunUpdate
<1>7. RowsOK' BY <1>6 DEF PrepareFails, RowsOK, TypeOK
<1> QED BY <1>6, <1>7, LeaveIInv DEF PrepareFails, Unlock

\* A prepared tune takes the OS lock.
LEMMA LockForTuneIInv ==
  ASSUME IInv, NEW p \in Proc, LockForTune(p)
  PROVE  IInv'
<1> USE DEF IInv
<1> DEFINE w == proc[p]
           nw == [w EXCEPT !.pc = "locked"]
<1>1. /\ w \in ProcRec /\ w.pc = "prepared" /\ LocalsFit(w) /\ Go(p, nw)
      /\ lock = None /\ lock' = p /\ UNCHANGED <<owners, claims>>
  BY DEF LockForTune, TypeOK, LocalsOK
<1>2. RowsOK' /\ RunStep BY RunsUnchanged DEF LockForTune, RowsOK, TypeOK
<1> HIDE DEF w
<1>3. /\ nw \in ProcRec /\ nw.pc = "locked"
      /\ nw.kind = w.kind /\ nw.run = w.run /\ nw.res = w.res
  BY <1>1 DEF ProcRec, PCs, Locking
<1> HIDE DEF nw
<1>4. LocalsFit(nw) /\ nw.pc \in Locking /\ nw.pc \notin Guarded
  BY <1>1, <1>3 DEF LocalsFit, Locking, Guarded
<1> QED BY <1>1, <1>2, <1>3, <1>4, StepIInv DEF w

\* A PID or raw write takes the OS lock.
LEMMA LockForWriteIInv ==
  ASSUME IInv, NEW p \in Proc, NEW r \in Run \cup {None}, NEW res \in Resource,
         LockForWrite(p, r, res)
  PROVE  IInv'
<1> USE DEF IInv
<1> DEFINE nw == [NoOperation EXCEPT !.pc = "locked", !.kind = "pid", !.run = r, !.res = res]
<1>1. Go(p, nw) /\ lock = None /\ lock' = p /\ UNCHANGED <<owners, claims>>
  BY DEF LockForWrite
<1>2. RowsOK' /\ RunStep BY RunsUnchanged DEF LockForWrite, RowsOK, TypeOK
<1>3. nw \in ProcRec /\ nw.pc = "locked" /\ nw.kind = "pid" /\ nw.res = res
  BY RestTypes DEF ProcRec, PCs, Locking
<1> HIDE DEF nw
<1>4. LocalsFit(nw) /\ nw.pc \in Locking /\ nw.pc \notin Guarded
  BY <1>3 DEF LocalsFit, Locking, Guarded
<1> QED BY <1>1, <1>2, <1>3, <1>4, StepIInv

\* create_and_claim: the one place a fresh guard comes from.
LEMMA CreateAndClaimIInv ==
  ASSUME IInv, NEW p \in Proc, NEW o \in Owner, CreateAndClaim(p, o)
  PROVE  IInv'
<1> USE DEF IInv
<1> DEFINE w == proc[p]
           nw == [w EXCEPT !.own = o, !.pc = IF w.kind = "tune" THEN "owned" ELSE "active"]
           new == [NoOwnerRow EXCEPT !.state = "active", !.kind = w.kind, !.run = w.run,
                                     !.res = w.res]
<1>1. /\ w \in ProcRec /\ w.pc = "locked" /\ LocalsFit(w) /\ Go(p, nw)
      /\ owners' = [owners EXCEPT ![o] = new] /\ claims' = [claims EXCEPT ![w.res] = o]
      /\ UNCHANGED <<lock, runs, loop, exported>>
  BY DEF CreateAndClaim, TypeOK, LocalsOK
<1> HIDE DEF w
<1>2. w.res \in Resource /\ w.pc \in Locking BY <1>1 DEF LocalsFit, Locking
<1>3. /\ nw \in ProcRec /\ nw.pc \in {"owned", "active"} /\ nw.own = o
      /\ nw.pc = "owned" => w.kind = "tune"
      /\ nw.kind = w.kind /\ nw.run = w.run /\ nw.res = w.res
  BY <1>1 DEF ProcRec, PCs, Locking, Guarded
<1>4. new \in OwnerRec /\ new.state = "active" /\ new.res = w.res
  BY <1>1, RestTypes, ZenonT(60) DEF ProcRec, OwnerRec
<1> HIDE DEF nw, new
<1>5. RowsOK' /\ RunStep BY <1>1, <1>4, RunsUnchanged DEF RowsOK, TypeOK
<1>6. LocalsFit(nw) /\ nw.pc \in Locking
  BY <1>1, <1>2, <1>3 DEF LocalsFit, Locking, Guarded
<1>7. GuardFits(nw, owners', claims') BY <1>1, <1>2, <1>3, <1>4 DEF GuardFits, TypeOK
<1> QED BY <1>1, <1>2, <1>3, <1>5, <1>6, <1>7, StepIInv DEF w

\* The restore intent is recorded.
LEMMA PersistIntentIInv ==
  ASSUME IInv, NEW p \in Proc, PersistIntent(p)
  PROVE  IInv'
<1> USE DEF IInv
<1> DEFINE w == proc[p]
           v == owners[w.own]
           nw == [w EXCEPT !.pc = "active"]
           nv == [v EXCEPT !.intent = TRUE, !.base = loop[w.res]]
<1>1. /\ w \in ProcRec /\ w.pc = "owned" /\ LocalsFit(w) /\ Go(p, nw)
      /\ owners' = [owners EXCEPT ![w.own] = nv]
      /\ UNCHANGED <<lock, runs, claims, loop, exported>>
  BY DEF PersistIntent, TypeOK, LocalsOK
<1>2. w.own \in Owner /\ w.res \in Resource BY <1>1 DEF LocalsFit, Guarded
<1>3. v \in OwnerRec /\ loop[w.res] \in Owner \cup {None} BY <1>2 DEF TypeOK
<1> HIDE DEF w, v
<1>4. /\ nw \in ProcRec /\ nw.pc = "active" /\ nw.own = w.own
      /\ nw.kind = w.kind /\ nw.run = w.run /\ nw.res = w.res
  BY <1>1 DEF ProcRec, PCs, Locking, Guarded
<1>5. nv \in OwnerRec /\ nv.state = v.state /\ nv.res = v.res BY <1>3 DEF OwnerRec
<1> HIDE DEF nw, nv
<1>6. RowsOK' /\ RunStep BY <1>1, <1>5, RunsUnchanged DEF RowsOK, TypeOK
<1>7. LocalsFit(nw) /\ nw.pc \in Guarded /\ w.pc \in Guarded
  BY <1>1, <1>4 DEF LocalsFit, Guarded
<1>8. owners'[w.own].state = owners[w.own].state /\ owners'[w.own].res = owners[w.own].res
  BY <1>1, <1>2, <1>5 DEF TypeOK, v
<1> QED BY <1>1, <1>4, <1>6, <1>7, <1>8, GuardedStepIInv DEF w

\* Setup fails under the guard, before any write.
LEMMA SetupFailsIInv ==
  ASSUME IInv, NEW p \in Proc, SetupFails(p)
  PROVE  IInv'
<1> USE DEF IInv
<1> DEFINE w == proc[p]
           nw == [w EXCEPT !.pc = "finishing", !.restored = TRUE]
<1>1. /\ w \in ProcRec /\ w.pc = "owned" /\ LocalsFit(w) /\ Go(p, nw)
      /\ UNCHANGED <<lock, runs, owners, claims, loop, exported>>
  BY DEF SetupFails, TypeOK, LocalsOK
<1>2. RowsOK' /\ RunStep BY <1>1, RunsUnchanged DEF RowsOK, TypeOK
<1> HIDE DEF w
<1>3. /\ nw \in ProcRec /\ nw.pc = "finishing" /\ nw.own = w.own
      /\ nw.kind = w.kind /\ nw.run = w.run /\ nw.res = w.res
  BY <1>1 DEF ProcRec, PCs, Locking, Guarded
<1> HIDE DEF nw
<1>4. LocalsFit(nw) /\ nw.pc \in Guarded /\ w.pc \in Guarded
  BY <1>1, <1>3 DEF LocalsFit, Guarded
<1> QED BY <1>1, <1>2, <1>3, <1>4, GuardedStepIInv DEF w

-----------------------------------------------------------------------------
(* Controller writes *)

\* The intent step row of a controller write.
LEMMA BeginWriteIInv ==
  ASSUME IInv, NEW p \in Proc, NEW goal \in {"perturb", "restore", "pid"},
         BeginWrite(p, goal)
  PROVE  IInv'
<1> USE DEF IInv
<1> DEFINE w == proc[p]
           v == owners[w.own]
           nw == [w EXCEPT !.pc = "writing", !.goal = goal]
           nv == [v EXCEPT !.step = "intent"]
<1>1. /\ w \in ProcRec /\ w.pc \in {"active", "releasing"} /\ LocalsFit(w) /\ Go(p, nw)
      /\ owners' = [owners EXCEPT ![w.own] = nv]
      /\ UNCHANGED <<lock, runs, claims, loop, exported>>
  BY DEF BeginWrite, Goals, TypeOK, LocalsOK
<1>2. w.own \in Owner BY <1>1 DEF LocalsFit, Guarded
<1>3. v \in OwnerRec BY <1>2 DEF TypeOK
<1> HIDE DEF w, v
<1>4. /\ nw \in ProcRec /\ nw.pc = "writing" /\ nw.own = w.own
      /\ nw.kind = w.kind /\ nw.run = w.run /\ nw.res = w.res
  BY <1>1 DEF ProcRec, PCs, Locking, Guarded
<1>5. nv \in OwnerRec /\ nv.state = v.state /\ nv.res = v.res BY <1>3 DEF OwnerRec
<1> HIDE DEF nw, nv
<1>6. RowsOK' /\ RunStep BY <1>1, <1>5, RunsUnchanged DEF RowsOK, TypeOK
<1>7. LocalsFit(nw) /\ nw.pc \in Guarded /\ w.pc \in Guarded
  BY <1>1, <1>4 DEF LocalsFit, Guarded
<1>8. owners'[w.own].state = owners[w.own].state /\ owners'[w.own].res = owners[w.own].res
  BY <1>1, <1>2, <1>5 DEF TypeOK, v
<1> QED BY <1>1, <1>4, <1>6, <1>7, <1>8, GuardedStepIInv DEF w

\* A controller write leaves an owner or nothing on the loop.
LEMMA AppliedType ==
  ASSUME IInv, NEW p \in Proc, proc[p].pc = "writing"
  PROVE  Applied(p) \in [Resource -> Owner \cup {None}]
<1>1. /\ proc[p].own \in Owner /\ loop \in [Resource -> Owner \cup {None}]
      /\ owners[proc[p].own] \in OwnerRec
  BY DEF IInv, TypeOK, LocalsOK, LocalsFit, Guarded
<1>2. owners[proc[p].own].base \in Owner \cup {None} BY <1>1 DEF OwnerRec
<1> QED BY <1>1, <1>2 DEF Applied

\* The driver call returns, applied or not.
LEMMA DriverReturnsIInv ==
  ASSUME IInv, NEW p \in Proc, DriverReturns(p)
  PROVE  IInv'
<1> USE DEF IInv
<1> DEFINE w == proc[p]
<1>1. /\ w \in ProcRec /\ w.pc = "writing" /\ LocalsFit(w)
      /\ UNCHANGED <<lock, runs, owners, claims, exported>>
  BY DEF DriverReturns, TypeOK, LocalsOK
<1>2. PICK ok \in BOOLEAN :
        /\ Go(p, [w EXCEPT !.pc = "written", !.ok = ok])
        /\ loop' \in IF ok THEN {Applied(p)} ELSE {loop, Applied(p)}
  BY DEF DriverReturns
<1> DEFINE nw == [w EXCEPT !.pc = "written", !.ok = ok]
<1>3. loop' \in [Resource -> Owner \cup {None}] BY <1>1, <1>2, AppliedType DEF TypeOK
<1>4. RowsOK' /\ RunStep BY <1>1, <1>3, RunsUnchanged DEF RowsOK, TypeOK
<1> HIDE DEF w
<1>5. /\ nw \in ProcRec /\ nw.pc = "written" /\ nw.own = w.own
      /\ nw.kind = w.kind /\ nw.run = w.run /\ nw.res = w.res
  BY <1>1 DEF ProcRec, PCs, Locking, Guarded
<1>6. Go(p, nw) BY <1>2
<1> HIDE DEF nw
<1>7. LocalsFit(nw) /\ nw.pc \in Guarded /\ w.pc \in Guarded
  BY <1>1, <1>5 DEF LocalsFit, Guarded
<1> QED BY <1>1, <1>4, <1>5, <1>6, <1>7, GuardedStepIInv DEF w

\* The audit row of the write is finished, or not.
LEMMA FinishStepIInv ==
  ASSUME IInv, NEW p \in Proc, FinishStep(p)
  PROVE  IInv'
<1> USE DEF IInv
<1> DEFINE w == proc[p]
           v == owners[w.own]
           next == AfterWrite(p)
           nv == [v EXCEPT !.step = "finished"]
<1>1. /\ w \in ProcRec /\ w.pc = "written" /\ LocalsFit(w)
      /\ UNCHANGED <<lock, runs, claims, loop, exported>>
  BY DEF FinishStep, TypeOK, LocalsOK
<1>2. PICK audited \in BOOLEAN :
        /\ owners' = IF audited THEN [owners EXCEPT ![w.own] = nv] ELSE owners
        /\ Go(p, [w EXCEPT !.pc = next, !.goal = "none", !.ok = FALSE,
                    !.restored = IF w.goal = "restore" THEN audited /\ w.ok ELSE w.restored])
  BY DEF FinishStep
<1> DEFINE back == IF w.goal = "restore" THEN audited /\ w.ok ELSE w.restored
           nw == [w EXCEPT !.pc = next, !.goal = "none", !.ok = FALSE, !.restored = back]
<1>3. /\ next \in {"finishing", "completing", "releasing", "active"}
      /\ next \in {"finishing", "releasing"} => w.kind = "tune"
      /\ next = "completing" => w.kind = "recovery"
  BY DEF AfterWrite
<1>4. w.own \in Owner BY <1>1 DEF LocalsFit, Guarded
<1>5. v \in OwnerRec BY <1>4 DEF TypeOK
<1>6. Go(p, nw) BY <1>2
<1> HIDE DEF w, v, next
<1>7. back \in BOOLEAN BY <1>1 DEF ProcRec
<1> HIDE DEF back
<1>8. /\ nw \in ProcRec /\ nw.pc = next /\ nw.own = w.own
      /\ nw.kind = w.kind /\ nw.run = w.run /\ nw.res = w.res
  BY <1>1, <1>3, <1>7, ZenonT(60) DEF ProcRec, PCs, Locking, Guarded
<1>9. nv \in OwnerRec /\ nv.state = v.state /\ nv.res = v.res BY <1>5 DEF OwnerRec
<1> HIDE DEF nw, nv
<1>10. RowsOK' /\ RunStep BY <1>1, <1>2, <1>9, RunsUnchanged DEF RowsOK, TypeOK
<1>11. LocalsFit(nw) /\ nw.pc \in Guarded /\ w.pc \in Guarded
  BY <1>1, <1>3, <1>8 DEF LocalsFit, Guarded
<1>12. owners'[w.own].state = owners[w.own].state /\ owners'[w.own].res = owners[w.own].res
  BY <1>2, <1>4, <1>9 DEF TypeOK, v
<1> QED BY <1>1, <1>6, <1>8, <1>10, <1>11, <1>12, GuardedStepIInv DEF w

\* The operation stops without a restore write.
LEMMA StopWithoutRestoreIInv ==
  ASSUME IInv, NEW p \in Proc, StopWithoutRestore(p)
  PROVE  IInv'
<1> USE DEF IInv
<1> DEFINE w == proc[p]
           next == IF w.kind = "tune" THEN "finishing" ELSE "completing"
           nw == [w EXCEPT !.pc = next, !.restored = FALSE]
<1>1. /\ w \in ProcRec /\ w.pc = "active" /\ LocalsFit(w) /\ Go(p, nw)
      /\ w.kind \in {"tune", "recovery"}
      /\ UNCHANGED <<lock, runs, owners, claims, loop, exported>>
  BY DEF StopWithoutRestore, TypeOK, LocalsOK
<1>2. RowsOK' /\ RunStep BY <1>1, RunsUnchanged DEF RowsOK, TypeOK
<1> HIDE DEF w
<1>3. /\ nw \in ProcRec /\ nw.pc = next /\ nw.own = w.own
      /\ nw.kind = w.kind /\ nw.run = w.run /\ nw.res = w.res
  BY <1>1 DEF ProcRec, PCs, Locking, Guarded
<1> HIDE DEF nw
<1>4. LocalsFit(nw) /\ nw.pc \in Guarded /\ w.pc \in Guarded
  BY <1>1, <1>3 DEF LocalsFit, Guarded
<1> QED BY <1>1, <1>2, <1>3, <1>4, GuardedStepIInv DEF w

-----------------------------------------------------------------------------
(* Finishing and releasing *)

\* The terminal outcome of a tune is stored.
LEMMA FinishTuneIInv ==
  ASSUME IInv, NEW p \in Proc, FinishTune(p)
  PROVE  IInv'
<1> USE DEF IInv
<1> DEFINE w == proc[p]
           r == w.run
           b == runs[r]
           nw == [w EXCEPT !.pc = "releasing"]
<1>1. /\ w \in ProcRec /\ w.pc = "finishing" /\ LocalsFit(w) /\ Go(p, nw)
      /\ b.outcome # "deleted"
      /\ UNCHANGED <<lock, owners, claims, loop, exported>>
  BY DEF FinishTune, TypeOK, LocalsOK
<1>2. w.kind = "tune" /\ r \in Run /\ b \in RunRec
  BY <1>1 DEF LocalsFit, TypeOK
<1>3. b.res \in Resource BY <1>1, <1>2 DEF RunsHaveResource, RunsStarted
<1>4. PICK out \in Terminal, rest \in {"confirmed", "incomplete", b.restore} :
        runs' = [runs EXCEPT ![r].outcome = out, ![r].restore = rest]
  <2> DEFINE touched == owners[w.own].intent
             outs == {"failed"} \cup (IF ~ touched THEN {} ELSE {IF b.results THEN "completed"
                                                  ELSE "aborted"})
             rests == IF touched THEN {IF w.restored THEN "confirmed" ELSE "incomplete",
                                       b.restore} ELSE {b.restore}
  <2>1. \E out \in outs, rest \in rests :
          runs' = [runs EXCEPT ![r].outcome = out, ![r].restore = rest]
    BY DEF FinishTune
  <2>2. outs \subseteq Terminal /\ rests \subseteq {"confirmed", "incomplete", b.restore}
    BY DEF Terminal
  <2> QED BY <2>1, <2>2
<1> DEFINE nr == [b EXCEPT !.outcome = out, !.restore = rest]
<1>5. runs' = [runs EXCEPT ![r] = nr] BY <1>4
<1> HIDE DEF b, r
<1>6. /\ nr \in RunRec /\ nr.res = b.res /\ nr.outcome = out
  BY <1>2, <1>4 DEF RunRec
<1> HIDE DEF nr
<1>7. runs' \in [Run -> RunRec] /\ RunStep
  BY <1>2, <1>3, <1>4, <1>5, <1>6, RunUpdate DEF Terminal
<1>8. RowsOK' BY <1>1, <1>7 DEF RowsOK, TypeOK
<1> HIDE DEF w
<1>9. /\ nw \in ProcRec /\ nw.pc = "releasing" /\ nw.own = w.own
      /\ nw.kind = w.kind /\ nw.run = w.run /\ nw.res = w.res
  BY <1>1 DEF ProcRec, PCs, Locking, Guarded
<1> HIDE DEF nw
<1>10. LocalsFit(nw) /\ nw.pc \in Guarded /\ w.pc \in Guarded
  BY <1>1, <1>2, <1>9 DEF LocalsFit, Guarded
<1> QED BY <1>1, <1>7, <1>8, <1>9, <1>10, GuardedStepIInv DEF w

\* A step that leaves every process where it is, seen as a step of p.
LEMMA StayPut ==
  ASSUME TypeOK, NEW p \in Proc, UNCHANGED proc
  PROVE  Go(p, proc[p]) /\ proc[p] \in ProcRec
  BY DEF TypeOK, Go

\* An in-run write-back error overwrites the outcome.
LEMMA WriteBackErrorsIInv ==
  ASSUME IInv, NEW p \in Proc, WriteBackErrors(p)
  PROVE  IInv'
<1> USE DEF IInv
<1> DEFINE r == proc[p].run
           b == runs[r]
           nr == [b EXCEPT !.outcome = "failed"]
<1>1. /\ proc[p].pc = "releasing" /\ LocalsFit(proc[p]) /\ b.outcome = "completed"
      /\ runs' = [runs EXCEPT ![r] = nr]
      /\ UNCHANGED <<proc, lock, owners, claims, loop, exported>>
  BY DEF WriteBackErrors, LocalsOK
<1>2. r \in Run /\ b \in RunRec BY <1>1 DEF LocalsFit, TypeOK
<1>3. b.res \in Resource BY <1>1, <1>2 DEF RunsHaveResource
<1> HIDE DEF b, r
<1>4. nr \in RunRec /\ nr.res = b.res /\ nr.outcome = "failed" BY <1>2 DEF RunRec, Terminal
<1> HIDE DEF nr
<1>5. runs' \in [Run -> RunRec] /\ RunStep BY <1>1, <1>2, <1>3, <1>4, RunUpdate
<1>6. RowsOK' BY <1>1, <1>5 DEF RowsOK, TypeOK
<1>7. Go(p, proc[p]) /\ proc[p] \in ProcRec BY <1>1, StayPut
<1>8. proc[p].pc \in Guarded BY <1>1 DEF Guarded
<1> QED BY <1>1, <1>5, <1>6, <1>7, <1>8, GuardedStepIInv

\* Storing the results of a completed relay test.
LEMMA PersistResultsIInv ==
  ASSUME IInv, NEW p \in Proc, PersistResults(p)
  PROVE  IInv'
<1> USE DEF IInv
<1> DEFINE r == proc[p].run
           b == runs[r]
           nr == [b EXCEPT !.results = TRUE]
<1>1. /\ proc[p].pc = "active" /\ proc[p].kind = "tune" /\ LocalsFit(proc[p])
      /\ b.outcome # "deleted"
      /\ runs' = [runs EXCEPT ![r] = nr]
      /\ UNCHANGED <<proc, lock, owners, claims, loop, exported>>
  BY DEF PersistResults, LocalsOK
<1>2. r \in Run /\ b \in RunRec BY <1>1 DEF LocalsFit, TypeOK
<1>3. b.outcome # "absent" /\ b.res \in Resource BY <1>1, <1>2 DEF RunsHaveResource, RunsStarted
<1> HIDE DEF b, r
<1>4. nr \in RunRec /\ nr.res = b.res /\ nr.outcome = b.outcome BY <1>2 DEF RunRec
<1> HIDE DEF nr
<1>5. runs' \in [Run -> RunRec] /\ RunStep BY <1>1, <1>2, <1>3, <1>4, RunUpdate
<1>6. RowsOK' BY <1>1, <1>5 DEF RowsOK, TypeOK
<1>7. Go(p, proc[p]) /\ proc[p] \in ProcRec BY <1>1, StayPut
<1>8. proc[p].pc \in Guarded BY <1>1 DEF Guarded
<1> QED BY <1>1, <1>5, <1>6, <1>7, <1>8, GuardedStepIInv

\* LiveOperationGuard::release.
LEMMA ReleaseIInv ==
  ASSUME IInv, NEW p \in Proc, Release(p)
  PROVE  IInv'
<1> USE DEF IInv
<1> DEFINE o == proc[p].own
           v == owners[o]
           nv == [v EXCEPT !.state = "released"]
<1>1. /\ proc[p].pc \in {"releasing", "active"} /\ LocalsFit(proc[p])
      /\ HoldsClaim(o) /\ Go(p, NoOperation) /\ lock' = None
      /\ owners' = [owners EXCEPT ![o] = nv] /\ claims' = [claims EXCEPT ![v.res] = None]
      /\ UNCHANGED <<runs, loop, exported>>
  BY DEF Release, CanRelease, LocalsOK
<1>2. o \in Owner /\ v \in OwnerRec BY <1>1 DEF LocalsFit, Guarded, TypeOK
<1>3. proc[p].pc \in Locking /\ lock = p BY <1>1, Alone DEF Locking, Guarded
<1> HIDE DEF v
<1>4. nv \in OwnerRec BY <1>2 DEF OwnerRec
<1> HIDE DEF nv
<1>5. RowsOK' /\ RunStep BY <1>1, <1>2, <1>4, RunsUnchanged DEF RowsOK, TypeOK
<1> QED BY <1>1, <1>3, <1>5, LeaveIInv

\* The guard or the sweep is dropped and no row changes.
LEMMA DroppedIInv ==
  ASSUME IInv, NEW p \in Proc,
         \/ SweepStops(p) \/ SweepDone(p) \/ WriteRefused(p) \/ FinishTuneLost(p)
         \/ ReleaseLost(p) \/ RecoveryRefused(p) \/ RecoveryLost(p)
  PROVE  IInv'
<1> USE DEF IInv
<1>1. /\ proc[p].pc \in Locking
      /\ lock' = None /\ UNCHANGED <<runs, owners, claims, loop, exported>>
      /\ Go(p, NoOperation) \/ Go(p, ProcDown)
  BY DEF SweepStops, SweepDone, WriteRefused, FinishTuneLost, ReleaseLost, CanRelease,
         RecoveryRefused, RecoveryLost, Locking, Guarded
<1>2. lock = p BY <1>1, Alone
<1>3. RowsOK' /\ RunStep BY <1>1, RunsUnchanged DEF RowsOK, TypeOK
<1> QED BY <1>1, <1>2, <1>3, LeaveIInv

-----------------------------------------------------------------------------
(* Explicit recovery *)

\* restore-loop takes the OS lock.
LEMMA RecoveryLockIInv ==
  ASSUME IInv, NEW p \in Proc, NEW r \in Run, RecoveryLock(p, r)
  PROVE  IInv'
<1> USE DEF IInv
<1> DEFINE nw == [NoOperation EXCEPT !.pc = "rlocked", !.kind = "recovery", !.run = r,
                                     !.res = runs[r].res]
<1>1. /\ Go(p, nw) /\ lock = None /\ lock' = p /\ runs[r].outcome = "failed"
      /\ UNCHANGED <<runs, owners, claims, loop, exported>>
  BY DEF RecoveryLock, Recoverable
<1>2. RowsOK' /\ RunStep BY <1>1, RunsUnchanged DEF RowsOK, TypeOK
<1>3. runs[r].res \in Resource BY <1>1 DEF RunsHaveResource
<1>4. /\ nw \in ProcRec /\ nw.pc = "rlocked" /\ nw.kind = "recovery" /\ nw.run = r
      /\ nw.res \in Resource
  BY <1>3, RestTypes DEF ProcRec, PCs, Locking
<1> HIDE DEF nw
<1>5. LocalsFit(nw) /\ nw.pc \in Locking /\ nw.pc \notin Guarded
  BY <1>4 DEF LocalsFit, Locking, Guarded
<1> QED BY <1>1, <1>2, <1>4, <1>5, StepIInv

\* start_with_claim: the claim passes to a recovery owner.
LEMMA RecoveryStartIInv ==
  ASSUME IInv, NEW p \in Proc, NEW src \in Owner, NEW o \in Owner, RecoveryStart(p, src, o)
  PROVE  IInv'
<1> USE DEF IInv
<1> DEFINE w == proc[p]
           r == w.run
           s == owners[src]
           b == runs[r]
           nw == [w EXCEPT !.pc = "active", !.own = o]
           nr == [b EXCEPT !.recovery = "running"]
           new == [NoOwnerRow EXCEPT
                     !.state = "active", !.kind = "recovery", !.run = r, !.res = w.res,
                     !.intent = s.intent, !.base = s.base, !.source = src,
                     !.attempt = "running"]
<1>1. /\ w \in ProcRec /\ w.pc = "rlocked" /\ LocalsFit(w) /\ Go(p, nw)
      /\ owners' = [owners EXCEPT ![o] = new] /\ claims' = [claims EXCEPT ![w.res] = o]
      /\ runs' = [runs EXCEPT ![r] = nr] /\ exported' = exported \cup {src}
      /\ b.outcome = "failed" /\ UNCHANGED <<lock, loop>>
  BY DEF RecoveryStart, StartWithClaim, Recoverable, TypeOK, LocalsOK
<1>2. r \in Run /\ b \in RunRec /\ s \in OwnerRec /\ w.res \in Resource
  BY <1>1 DEF LocalsFit, TypeOK
<1>3. b.res \in Resource BY <1>1, <1>2 DEF RunsHaveResource
<1> HIDE DEF b, s
<1>4. nr \in RunRec /\ nr.res = b.res /\ nr.outcome = b.outcome
  BY <1>2 DEF RunRec, Unresolved
<1> HIDE DEF nr
<1>5. runs' \in [Run -> RunRec] /\ RunStep BY <1>1, <1>2, <1>3, <1>4, RunUpdate
<1> HIDE DEF r
<1>6. new \in OwnerRec /\ new.state = "active" /\ new.res = w.res
  <2> DEFINE i == s.intent
             f == s.base
             x == w.res
  <2>1. i \in BOOLEAN /\ f \in Owner \cup {None} BY <1>2 DEF OwnerRec
  <2>2. r \in Run /\ x \in Resource BY <1>2
  <2> HIDE DEF i, f, x
  <2> DEFINE n1 == [NoOwnerRow EXCEPT !.state = "active", !.kind = "recovery", !.run = r,
                                      !.res = x]
             n2 == [n1 EXCEPT !.intent = i, !.base = f, !.source = src,
                              !.attempt = "running"]
  <2>3. n1 \in OwnerRec /\ n1.state = "active" /\ n1.res = x
    BY <2>2, RestTypes, ZenonT(60) DEF OwnerRec
  <2>4. new = n2 BY RestTypes DEF i, f, x
  <2> HIDE DEF n1
  <2>5. n2 \in OwnerRec /\ n2.state = "active" /\ n2.res = x
    BY <2>1, <2>3, ZenonT(60) DEF OwnerRec
  <2> QED BY <2>4, <2>5 DEF x
<1> HIDE DEF new
<1>7. RowsOK' BY <1>1, <1>5, <1>6 DEF RowsOK, TypeOK
<1> HIDE DEF w
<1>8. /\ nw \in ProcRec /\ nw.pc = "active" /\ nw.own = o
      /\ nw.kind = w.kind /\ nw.run = w.run /\ nw.res = w.res
  BY <1>1 DEF ProcRec, PCs, Locking, Guarded
<1> HIDE DEF nw
<1>9. LocalsFit(nw) /\ nw.pc \in Locking /\ w.pc \in Locking
  BY <1>1, <1>2, <1>8 DEF LocalsFit, Locking, Guarded
<1>10. GuardFits(nw, owners', claims') BY <1>1, <1>2, <1>6, <1>8 DEF GuardFits, TypeOK
<1> QED BY <1>1, <1>5, <1>7, <1>8, <1>9, <1>10, StepIInv DEF w

\* complete_with_ownership, whatever the attempt's result.
LEMMA CompleteAttemptIInv ==
  ASSUME IInv, NEW p \in Proc, NEW status \in {"failed", "incomplete", "confirmed"},
         proc[p].pc \in {"active", "completing"}, proc[p].kind = "recovery",
         CompleteAttempt(p, status)
  PROVE  IInv'
<1> USE DEF IInv
<1> DEFINE o == proc[p].own
           v == owners[o]
           src == v.source
           s == owners[src]
           r == proc[p].run
           b == runs[r]
           nv == [v EXCEPT !.state = "released", !.attempt = status]
           ns == [s EXCEPT !.state = IF status = "confirmed" THEN "recovered" ELSE s.state,
                           !.eligible = status # "confirmed"]
           nr == [b EXCEPT !.recovery = IF status = "failed" THEN "eligible" ELSE status,
                           !.restore = IF status = "failed" THEN b.restore ELSE status]
<1>1. owners' = [owners EXCEPT ![o] = nv, ![src] = ns] BY DEF CompleteAttempt
<1>2. runs' = [runs EXCEPT ![r] = nr] /\ b.outcome = "failed" BY DEF CompleteAttempt
<1>3. /\ LocalsFit(proc[p]) /\ HoldsClaim(o)
      /\ claims' = [claims EXCEPT ![v.res] = IF status = "confirmed" THEN None ELSE src]
      /\ Go(p, NoOperation) /\ lock' = None /\ UNCHANGED <<loop, exported>>
  BY DEF CompleteAttempt, LocalsOK
<1>4. /\ o \in Owner /\ v \in OwnerRec /\ r \in Run /\ b \in RunRec
      /\ proc[p].pc \in Locking /\ lock = p
  BY <1>3, Alone DEF LocalsFit, TypeOK, Locking, Guarded
<1>5. b.res \in Resource BY <1>2, <1>4 DEF RunsHaveResource
<1>6. src \in Owner \cup {None} BY <1>4 DEF OwnerRec
<1> HIDE DEF b
<1>7. nr \in RunRec /\ nr.res = b.res /\ nr.outcome = b.outcome
  BY <1>4 DEF RunRec, Unresolved
<1> HIDE DEF nr
<1>8. runs' \in [Run -> RunRec] /\ RunStep BY <1>2, <1>4, <1>5, <1>7, RunUpdate
<1> HIDE DEF src, v
<1>9. nv \in OwnerRec BY <1>4 DEF OwnerRec
<1> HIDE DEF nv
<1>10. owners' \in [Owner -> OwnerRec]
  <2>1. CASE src \in Owner
    <3>1. s \in OwnerRec BY <2>1 DEF TypeOK
    <3> HIDE DEF s
    <3>2. ns \in OwnerRec BY <3>1 DEF OwnerRec
    <3> HIDE DEF ns
    <3> QED BY <1>1, <1>9, <3>2 DEF TypeOK
  <2>2. CASE src = None
    <3>1. src \notin Owner BY <2>2, ConstantsAssumption
    <3> QED BY <1>1, <1>9, <3>1 DEF TypeOK
  <2> QED BY <1>6, <2>1, <2>2
<1>11. RowsOK' BY <1>3, <1>6, <1>8, <1>10 DEF RowsOK, TypeOK
<1> QED BY <1>3, <1>4, <1>8, <1>11, LeaveIInv

\* The two steps that complete an attempt.
LEMMA RecoveryEndsIInv ==
  ASSUME IInv, NEW p \in Proc, RecoverySetupFails(p) \/ RecoveryComplete(p)
  PROVE  IInv'
<1>1. CASE RecoverySetupFails(p) BY <1>1, CompleteAttemptIInv DEF RecoverySetupFails
<1>2. CASE RecoveryComplete(p)
  <2> DEFINE status == IF proc[p].restored /\ proc[p].healthy THEN "confirmed"
                       ELSE "incomplete"
  <2>1. proc[p].pc = "completing" /\ CompleteAttempt(p, status)
    BY <1>2 DEF RecoveryComplete
  <2>2. proc[p].kind = "recovery" BY <2>1 DEF IInv, LocalsOK, LocalsFit
  <2>3. status \in {"failed", "incomplete", "confirmed"} OBVIOUS
  <2> HIDE DEF status
  <2> QED BY <2>1, <2>2, <2>3, CompleteAttemptIInv
<1> QED BY <1>1, <1>2

-----------------------------------------------------------------------------
(* Heartbeats, time, crashes and deletion *)

\* A heartbeat refreshes the owner row.
LEMMA HeartbeatIInv ==
  ASSUME IInv, NEW p \in Proc, Heartbeat(p)
  PROVE  IInv'
<1> USE DEF IInv
<1> DEFINE o == proc[p].own
           v == owners[o]
           nv == [v EXCEPT !.age = 0]
<1>1. /\ proc[p].pc \in Guarded /\ LocalsFit(proc[p]) /\ owners' = [owners EXCEPT ![o] = nv]
      /\ UNCHANGED <<proc, lock, runs, claims, loop, exported>>
  BY DEF Heartbeat, LocalsOK
<1>2. o \in Owner /\ v \in OwnerRec BY <1>1 DEF LocalsFit, TypeOK
<1> HIDE DEF v
<1>3. nv \in OwnerRec /\ nv.state = v.state /\ nv.res = v.res
  BY <1>2, ConstantsAssumption DEF OwnerRec
<1> HIDE DEF nv
<1>4. RowsOK' /\ RunStep BY <1>1, <1>3, RunsUnchanged DEF RowsOK, TypeOK
<1>5. Go(p, proc[p]) /\ proc[p] \in ProcRec BY <1>1, StayPut
<1>6. owners'[o].state = owners[o].state /\ owners'[o].res = owners[o].res
  BY <1>1, <1>2, <1>3 DEF TypeOK, v
<1> QED BY <1>1, <1>4, <1>5, <1>6, GuardedStepIInv

\* A failed heartbeat only marks the guard unhealthy.
LEMMA HeartbeatFailsIInv ==
  ASSUME IInv, NEW p \in Proc, HeartbeatFails(p)
  PROVE  IInv'
<1> USE DEF IInv
<1> DEFINE w == proc[p]
           nw == [w EXCEPT !.healthy = FALSE]
<1>1. /\ w \in ProcRec /\ w.pc \in Guarded /\ LocalsFit(w) /\ Go(p, nw)
      /\ UNCHANGED <<lock, runs, owners, claims, loop, exported>>
  BY DEF HeartbeatFails, TypeOK, LocalsOK
<1>2. RowsOK' /\ RunStep BY <1>1, RunsUnchanged DEF RowsOK, TypeOK
<1> HIDE DEF w
<1>3. /\ nw \in ProcRec /\ nw.pc = w.pc /\ nw.own = w.own
      /\ nw.kind = w.kind /\ nw.run = w.run /\ nw.res = w.res
  BY <1>1 DEF ProcRec
<1> HIDE DEF nw
<1>4. LocalsFit(nw) BY <1>1, <1>3 DEF LocalsFit
<1> QED BY <1>1, <1>2, <1>3, <1>4, GuardedStepIInv DEF w

\* A crash or a normal exit.
LEMMA ProcessEndsIInv ==
  ASSUME IInv, NEW p \in Proc, Crash(p) \/ ExitProcess(p)
  PROVE  IInv'
<1> USE DEF IInv
<1>1. Go(p, ProcDown) /\ UNCHANGED <<runs, owners, claims, exported>>
  BY DEF Crash, ExitProcess
<1>2. loop' \in [Resource -> Owner \cup {None}]
  BY AppliedType DEF Crash, ExitProcess, TypeOK
<1>3. RowsOK' /\ RunStep BY <1>1, <1>2, RunsUnchanged DEF RowsOK, TypeOK
<1>4. lock' = IF lock = p THEN None ELSE lock
  <2>1. CASE Crash(p) BY <2>1 DEF Crash, Unlock
  <2>2. CASE ExitProcess(p) BY <2>2 DEF ExitProcess, LockDiscipline, Locking, Guarded
  <2> QED BY <2>1, <2>2
<1> QED BY <1>1, <1>3, <1>4, LeaveIInv

\* No process moves and no owner changes state or resource, or else the row is
\* deleted.
LEMMA RowsOnlyIInv ==
  ASSUME IInv, UNCHANGED <<proc, lock>>, RowsOK', RunStep,
         \A o \in Owner : \/ owners'[o].state = "deleted"
                          \/ /\ owners'[o].state = owners[o].state
                             /\ owners'[o].res = owners[o].res
                             /\ \A res \in Resource : claims[res] = o => claims'[res] = o
  PROVE  IInv'
<1> USE DEF IInv
<1>1. TypeOK' BY DEF TypeOK, RowsOK
<1>2. LockDiscipline' /\ LocalsOK' BY DEF LockDiscipline, LocalsOK, LocalsFit
<1>3. RunsHaveResource' /\ RunsStarted'
  BY DEF RunsHaveResource, RunsStarted, RunStep, LocalsOK, LocalsFit
<1>4. NoTakeover'
  <2> SUFFICES ASSUME NEW p \in Proc, proc[p].pc \in Guarded
               PROVE  \/ owners'[proc[p].own].state = "deleted"
                      \/ HoldsClaim(proc[p].own)' /\ owners'[proc[p].own].res = proc[p].res
    BY DEF NoTakeover
  <2>1. proc[p].own \in Owner /\ proc[p].res \in Resource BY DEF LocalsOK, LocalsFit
  <2>2. \/ owners[proc[p].own].state = "deleted"
        \/ HoldsClaim(proc[p].own) /\ owners[proc[p].own].res = proc[p].res
    BY DEF NoTakeover
  <2> QED BY <2>1, <2>2 DEF HoldsClaim
<1> QED BY <1>1, <1>2, <1>3, <1>4

\* Time passes.
LEMMA TickIInv ==
  ASSUME IInv, Tick
  PROVE  IInv'
<1> USE DEF IInv
<1> DEFINE older(o) == owners[o].state = "active" /\ owners[o].age < StaleAfter
<1>1. /\ owners' = [o \in Owner |-> IF older(o) THEN [owners[o] EXCEPT !.age = @ + 1]
                                    ELSE owners[o]]
      /\ UNCHANGED <<proc, lock, runs, claims, loop, exported>>
  BY DEF Tick
<1>2. ASSUME NEW o \in Owner
      PROVE  /\ owners'[o] \in OwnerRec
             /\ owners'[o].state = owners[o].state /\ owners'[o].res = owners[o].res
  <2> DEFINE v == owners[o]
  <2>1. v \in OwnerRec BY DEF TypeOK
  <2>2. owners'[o] = IF older(o) THEN [v EXCEPT !.age = v.age + 1] ELSE v BY <1>1
  <2>3. older(o) => v.age < StaleAfter OBVIOUS
  <2> HIDE DEF v, older
  <2>4. older(o) => v.age + 1 \in 0..StaleAfter
    BY <2>1, <2>3, ConstantsAssumption DEF OwnerRec
  <2>5. CASE older(o)
    <3> DEFINE n == v.age + 1
    <3>1. n \in 0..StaleAfter BY <2>4, <2>5
    <3>2. owners'[o] = [v EXCEPT !.age = n] BY <2>2, <2>5
    <3> HIDE DEF n
    <3>3. /\ [v EXCEPT !.age = n] \in OwnerRec
          /\ [v EXCEPT !.age = n].state = v.state /\ [v EXCEPT !.age = n].res = v.res
      BY <2>1, <3>1 DEF OwnerRec
    <3> QED BY <3>2, <3>3 DEF v
  <2>6. CASE ~ older(o) BY <2>1, <2>2, <2>6 DEF v
  <2> QED BY <2>5, <2>6
<1>3. owners' \in [Owner -> OwnerRec] BY <1>1, <1>2
<1>4. RowsOK' /\ RunStep BY <1>1, <1>3, RunsUnchanged DEF RowsOK, TypeOK
<1> QED BY <1>1, <1>2, <1>4, RowsOnlyIInv

\* Deleting runs with their cascades.
LEMMA DeleteRunsIInv ==
  ASSUME IInv, NEW S \in SUBSET Run, \A r \in S : Deletable(r), DeleteRuns(S)
  PROVE  IInv'
<1> USE DEF IInv
<1> DEFINE gone == {o \in Owner : owners[o].run \in S /\ owners[o].state # "absent"}
           noRun == [NoRunRow EXCEPT !.outcome = "deleted"]
           noOwner == [NoOwnerRow EXCEPT !.state = "deleted"]
<1>1. /\ runs' = [r \in Run |-> IF r \in S THEN noRun ELSE runs[r]]
      /\ owners' = [o \in Owner |-> IF o \in gone THEN noOwner ELSE owners[o]]
      /\ claims' = [res \in Resource |-> IF claims[res] \in gone THEN None ELSE claims[res]]
      /\ UNCHANGED <<proc, lock, loop, exported>>
  BY DEF DeleteRuns
<1>2. noRun \in RunRec /\ noRun.outcome = "deleted" BY RestTypes DEF RunRec
<1>3. noOwner \in OwnerRec /\ noOwner.state = "deleted" BY RestTypes DEF OwnerRec
<1> HIDE DEF gone, noRun, noOwner
<1>4. RowsOK' BY <1>1, <1>2, <1>3 DEF RowsOK, TypeOK
<1>5. RunStep BY <1>1, <1>2 DEF RunStep, RunsHaveResource
<1>6. \A o \in Owner : \/ owners'[o].state = "deleted"
                       \/ /\ owners'[o].state = owners[o].state
                          /\ owners'[o].res = owners[o].res
                          /\ \A res \in Resource : claims[res] = o => claims'[res] = o
  BY <1>1, <1>3
<1> QED BY <1>1, <1>4, <1>5, <1>6, RowsOnlyIInv

-----------------------------------------------------------------------------
(* The theorems *)

\* Every step preserves the invariant.
LEMMA NextIInv == IInv /\ [Next]_vars => IInv'
<1> SUFFICES ASSUME IInv, [Next]_vars PROVE IInv' OBVIOUS
<1>1. CASE UNCHANGED vars
  <2>1. UNCHANGED <<proc, lock, runs, owners, claims, loop, exported>> BY <1>1 DEF vars
  <2>2. RowsOK' /\ RunStep BY <2>1, RunsUnchanged DEF IInv, RowsOK, TypeOK
  <2> QED BY <2>1, <2>2, RowsOnlyIInv
<1>2. ASSUME NEW p \in Proc, Sweep(p) PROVE IInv'
  BY <1>2, StartupIInv, SweepExportIInv, SweepRowsIInv, DroppedIInv DEF Sweep
<1>3. ASSUME NEW p \in Proc, Tune(p) PROVE IInv'
  BY <1>3, StartRunIInv, PrepareFailsIInv, LockForTuneIInv, LockForWriteIInv,
     CreateAndClaimIInv, DroppedIInv, PersistIntentIInv, SetupFailsIInv,
     PersistResultsIInv DEF Tune
<1>4. ASSUME NEW p \in Proc, Write(p) PROVE IInv'
  BY <1>4, BeginWriteIInv, DriverReturnsIInv, FinishStepIInv, StopWithoutRestoreIInv
     DEF Write
<1>5. ASSUME NEW p \in Proc, Finish(p) PROVE IInv'
  BY <1>5, FinishTuneIInv, DroppedIInv, WriteBackErrorsIInv, ReleaseIInv DEF Finish
<1>6. ASSUME NEW p \in Proc, Recover(p) PROVE IInv'
  BY <1>6, RecoveryLockIInv, DroppedIInv, RecoveryStartIInv, RecoveryEndsIInv DEF Recover
<1>7. ASSUME NEW p \in Proc, Environment(p) PROVE IInv'
  BY <1>7, StartupIInv, DroppedIInv, HeartbeatIInv, HeartbeatFailsIInv, ProcessEndsIInv
     DEF Environment
<1>8. ASSUME Delete PROVE IInv'
  <2>1. ASSUME NEW r \in Run, HttpDelete(r) PROVE IInv'
    BY <2>1, DeleteRunsIInv DEF HttpDelete
  <2>2. ASSUME NEW S \in SUBSET Run, RetentionSweep(S) PROVE IInv'
    BY <2>2, DeleteRunsIInv DEF RetentionSweep
  <2> QED BY <1>8, <2>1, <2>2 DEF Delete
<1> QED BY <1>1, <1>2, <1>3, <1>4, <1>5, <1>6, <1>7, <1>8, TickIInv DEF Next

\* The rows, the locals and the lock of every reachable state have their types.
THEOREM TypeCorrect == Spec => []TypeOK
<1>1. Init => IInv BY InitIInv
<1>2. IInv /\ [Next]_vars => IInv' BY NextIInv
<1>3. IInv => TypeOK BY DEF IInv
<1> QED BY <1>1, <1>2, <1>3, PTL DEF Spec

\* The OS lock is held exactly by the process that sweeps or operates.
THEOREM LockIsHeld == Spec => []LockDiscipline
<1>1. Init => IInv BY InitIInv
<1>2. IInv /\ [Next]_vars => IInv' BY NextIInv
<1>3. IInv => LockDiscipline BY DEF IInv
<1> QED BY <1>1, <1>2, <1>3, PTL DEF Spec

\* No two processes sharing a database ever have a controller write in flight
\* together.
THEOREM OneWriter == Spec => []SingleWriter
<1>1. Init => IInv BY InitIInv
<1>2. IInv /\ [Next]_vars => IInv' BY NextIInv
<1>3. IInv => SingleWriter
  <2> SUFFICES ASSUME IInv, NEW p \in Proc, NEW q \in Proc,
                      proc[p].pc \in {"writing", "written"},
                      proc[q].pc \in {"writing", "written"}
               PROVE  p = q
    BY DEF SingleWriter
  <2>1. proc[p].pc \in Locking /\ proc[q].pc \in Locking BY DEF Locking, Guarded
  <2> QED BY <2>1, Alone DEF IInv
<1> QED BY <1>1, <1>2, <1>3, PTL DEF Spec

\* A process that holds a live-operation guard is never taken over, however old
\* its heartbeat, whatever crashes, restarts, recoveries and deletions happen.
THEOREM GuardsAreKept == Spec => []NoTakeover
<1>1. Init => IInv BY InitIInv
<1>2. IInv /\ [Next]_vars => IInv' BY NextIInv
<1>3. IInv => NoTakeover BY DEF IInv
<1> QED BY <1>1, <1>2, <1>3, PTL DEF Spec

-----------------------------------------------------------------------------
(* Custody: whose claim a loop is under, and that an unresolved recovery has *)
(* exactly one source.  CInv holds whatever is deleted.                      *)

\* A claim names an operation that is going on or an orphan kept for recovery.
ClaimsFit ==
    \A res \in Resource :
        claims[res] # None =>
            /\ owners[claims[res]].res = res
            /\ \/ owners[claims[res]].state = "active"
               \/ owners[claims[res]].state = "orphaned" /\ owners[claims[res]].eligible

ActiveHolds == \A o \in Owner : owners[o].state = "active" => HoldsClaim(o)

\* What an owner row holds by its kind, and that its run row is there.
OwnerRows ==
    \A o \in Owner :
        /\ owners[o].state \in {"absent", "deleted"} =>
              /\ owners[o].kind = "none" /\ owners[o].run = None /\ owners[o].step = "none"
              /\ ~ owners[o].eligible /\ ~ owners[o].intent
        /\ owners[o].kind \in {"tune", "recovery"} => owners[o].run \in Run
        /\ owners[o].run \in Run => runs[owners[o].run].outcome \notin {"absent", "deleted"}
        /\ owners[o].kind \in {"tune", "recovery"} => owners[o].res = runs[owners[o].run].res
        /\ owners[o].kind # "recovery" => owners[o].source = None

OneTune ==
    \A o, q \in Owner :
        owners[o].kind = "tune" /\ owners[q].kind = "tune" /\ owners[o].run = owners[q].run
        => o = q

\* A run row without history has no history.
EmptyRuns ==
    \A r \in Run :
        runs[r].outcome \in {"absent", "deleted"} =>
            runs[r].recovery = "none" /\ runs[r].restore = "none" /\ ~ runs[r].results

\* Until its process has claimed the loop a run has no owner of any kind.
Fresh ==
    \A p \in Proc :
        proc[p].kind = "tune" /\ proc[p].pc \in {"prepared", "locked"} =>
            /\ \A o \in Owner : owners[o].run # proc[p].run
            /\ \/ runs[proc[p].run].outcome = "deleted"
               \/ /\ runs[proc[p].run].outcome = "running"
                  /\ runs[proc[p].run].res = proc[p].res
                  /\ runs[proc[p].run].recovery = "none"
                  /\ runs[proc[p].run].restore = "none"
                  /\ ~ runs[proc[p].run].results

OneStarter ==
    \A p, q \in Proc :
        proc[p].kind = "tune" /\ proc[q].kind = "tune" /\ proc[p].run = proc[q].run => p = q

\* Who holds the OS lock for a claim, and what a PID write writes back.
StarterKinds ==
    \A p \in Proc :
        /\ proc[p].pc = "locked" => proc[p].kind \in {"tune", "pid"}
        /\ proc[p].kind = "pid" /\ proc[p].run \in Run =>
              runs[proc[p].run].results \/ runs[proc[p].run].outcome = "deleted"

\* A guard's owner row is its own, or went with its run.
GuardRows ==
    \A p \in Proc :
        proc[p].pc \in Guarded =>
            \/ /\ owners[proc[p].own].state = "deleted"
               /\ proc[p].kind # "recovery"
               /\ proc[p].run \in Run => runs[proc[p].run].outcome = "deleted"
            \/ owners[proc[p].own].kind = proc[p].kind /\ owners[proc[p].own].run = proc[p].run

ActiveTunes ==
    \A o \in Owner :
        owners[o].kind = "tune" /\ owners[o].state = "active" =>
            runs[owners[o].run].recovery = "none"

\* An orphan kept for recovery.
SourceRows ==
    \A o \in Owner :
        owners[o].state = "orphaned" /\ owners[o].eligible =>
            /\ owners[o].kind = "tune" /\ RecoveryEligible(o)
            /\ runs[owners[o].run].outcome = "failed"
            /\ runs[owners[o].run].recovery \in Unresolved
            /\ runs[owners[o].run].recovery # "running" => claims[owners[o].res] = o
            /\ runs[owners[o].run].recovery = "running" =>
                  /\ claims[owners[o].res] # None
                  /\ owners[claims[owners[o].res]].kind = "recovery"
                  /\ owners[claims[owners[o].res]].source = o

HasSource ==
    \A r \in Run :
        runs[r].recovery \in Unresolved => \E s \in Owner : EligibleSource(s, r)

\* A recovery under way has its source, whose evidence it copied.
RecoveryRows ==
    \A o \in Owner :
        owners[o].kind = "recovery" /\ owners[o].state = "active" =>
            /\ runs[owners[o].run].recovery = "running"
            /\ owners[o].attempt = "running"
            /\ owners[o].source \in Owner
            /\ EligibleSource(owners[o].source, owners[o].run)
            /\ owners[owners[o].source].res = owners[o].res
            /\ owners[owners[o].source].base = owners[o].base
            /\ owners[owners[o].source].intent = owners[o].intent

ExportedFirst == \A p \in Proc : proc[p].pc = "exported" => proc[p].own \in exported

\* A recovery that has put the loop back has put it back.
Wrote(w) ==
    /\ w.kind = "recovery"
    /\ \/ w.pc = "completing" /\ w.restored
       \/ w.pc = "written" /\ w.goal = "restore" /\ w.ok

RecoveryWrote ==
    \A p \in Proc : Wrote(proc[p]) => loop[proc[p].res] = owners[proc[p].own].base

\* The part of CInv that is about the database rows alone.
RowInv ==
    /\ ClaimsFit
    /\ ActiveHolds
    /\ OwnerRows
    /\ OneTune
    /\ EmptyRuns
    /\ ActiveTunes
    /\ SourceRows
    /\ HasSource
    /\ RecoveryRows

CInv ==
    /\ RowInv
    /\ Fresh
    /\ OneStarter
    /\ StarterKinds
    /\ GuardRows
    /\ ExportedFirst
    /\ RecoveryWrote

-----------------------------------------------------------------------------
(* Custody is kept by every step *)

\* The locals of a process may go on like this while the rows keep their
\* owners, kinds and runs.
MoveFits(w, nw) ==
    /\ nw.kind = "tune" => w.kind = "tune" /\ nw.run = w.run
    /\ nw.kind = "tune" /\ nw.pc \in {"prepared", "locked"} =>
          w.pc \in {"prepared", "locked"} /\ nw.res = w.res
    /\ nw.pc = "locked" =>
          nw.kind \in {"tune", "pid"} \/ (w.pc = "locked" /\ nw.kind = w.kind)
    /\ nw.kind = "pid" /\ nw.run \in Run =>
          runs[nw.run].results \/ (w.kind = "pid" /\ nw.run = w.run)
    /\ nw.pc \in Guarded =>
          w.pc \in Guarded /\ nw.own = w.own /\ nw.kind = w.kind /\ nw.run = w.run

\* What no step but a claim or a settlement changes of an owner row.
SameOwners ==
    \A o \in Owner :
        /\ owners'[o].state = owners[o].state /\ owners'[o].kind = owners[o].kind
        /\ owners'[o].run = owners[o].run /\ owners'[o].res = owners[o].res
        /\ owners'[o].eligible = owners[o].eligible
        /\ owners'[o].source = owners[o].source /\ owners'[o].attempt = owners[o].attempt
        /\ owners[o].state # "active" =>
              owners'[o].intent = owners[o].intent /\ owners'[o].step = owners[o].step
        /\ owners[o].state # "active" \/ owners[o].kind = "recovery" =>
              owners'[o].intent = owners[o].intent /\ owners'[o].base = owners[o].base

LEMMA SameRows ==
  ASSUME IInv, RowInv, SameOwners, UNCHANGED <<runs, claims>>
  PROVE  RowInv'
<1> USE DEF RowInv, SameOwners
<1>1. TypeOK
  BY DEF IInv
<1>2. ClaimsFit'
  BY <1>1 DEF ClaimsFit, TypeOK
<1>3. ActiveHolds'
  BY DEF ActiveHolds, HoldsClaim
<1>4. OwnerRows'
  BY DEF OwnerRows
<1>5. OneTune' /\ EmptyRuns' /\ ActiveTunes'
  BY DEF OneTune, EmptyRuns, ActiveTunes
<1>6. SourceRows'
  <2> SUFFICES ASSUME NEW o \in Owner, owners[o].state = "orphaned", owners[o].eligible
               PROVE  /\ owners'[o].kind = "tune" /\ RecoveryEligible(o)'
                      /\ runs[owners[o].run].outcome = "failed"
                      /\ runs[owners[o].run].recovery \in Unresolved
                      /\ runs[owners[o].run].recovery # "running" => claims[owners[o].res] = o
                      /\ runs[owners[o].run].recovery = "running" =>
                            /\ claims[owners[o].res] # None
                            /\ owners'[claims[owners[o].res]].kind = "recovery"
                            /\ owners'[claims[owners[o].res]].source = o
    BY DEF SourceRows
  <2>1. RecoveryEligible(o)'
    BY DEF SourceRows, RecoveryEligible
  <2>2. runs[owners[o].run].recovery = "running" => claims[owners[o].res] \in Owner
    <3>1. owners[o].kind = "tune" /\ owners[o].run \in Run
      BY DEF SourceRows, OwnerRows
    <3>2. owners[o].res \in Resource
      BY <1>1, <3>1 DEF IInv, RunsHaveResource, OwnerRows
    <3>3. QED
      BY <1>1, <3>2 DEF SourceRows, TypeOK
  <2>3. QED
    BY <2>1, <2>2 DEF SourceRows
<1>7. HasSource'
  BY DEF HasSource, EligibleSource
<1>8. RecoveryRows'
  BY DEF RecoveryRows, EligibleSource
<1>9. QED
  BY <1>2, <1>3, <1>4, <1>5, <1>6, <1>7, <1>8

\* A step that keeps the owner rows in place.
LEMMA SameCInv ==
  ASSUME IInv, CInv, SameOwners, UNCHANGED <<runs, claims>>,
         \A q \in Proc : MoveFits(proc[q], proc'[q]),
         ExportedFirst', RecoveryWrote'
  PROVE  CInv'
<1>1. RowInv'
  BY SameRows DEF CInv
<1>2. Fresh'
  BY DEF CInv, Fresh, MoveFits, SameOwners
<1>3. OneStarter'
  BY DEF CInv, OneStarter, MoveFits
<1>4. GuardRows'
  BY DEF CInv, GuardRows, MoveFits, SameOwners, IInv, LocalsOK, LocalsFit
<1>5. StarterKinds'
  BY DEF CInv, StarterKinds, MoveFits
<1>6. QED
  BY <1>1, <1>2, <1>3, <1>4, <1>5 DEF CInv

\* A process moves on and the database stays as it is.
LEMMA QuietCInv ==
  ASSUME IInv, CInv, NEW p \in Proc, NEW nw \in ProcRec, Go(p, nw), MoveFits(proc[p], nw),
         UNCHANGED <<runs, owners, claims>>,
         \/ UNCHANGED loop
         \/ proc[p].pc \in Guarded,
         \A o \in exported : o \in exported',
         nw.pc = "exported" => nw.own \in exported',
         Wrote(nw) => \/ loop'[nw.res] = owners[nw.own].base
                      \/ /\ Wrote(proc[p]) /\ UNCHANGED loop
                         /\ nw.res = proc[p].res /\ nw.own = proc[p].own
  PROVE  CInv'
<1>1. /\ proc'[p] = nw
      /\ \A q \in Proc : q # p => proc'[q] = proc[q]
  BY GoEffect DEF IInv
<1>2. \A q \in Proc : MoveFits(proc[q], proc'[q])
  BY <1>1 DEF MoveFits
<1>3. SameOwners
  BY DEF SameOwners
<1>4. ExportedFirst'
  BY <1>1 DEF CInv, ExportedFirst
<1>5. RecoveryWrote'
  <2> SUFFICES ASSUME NEW q \in Proc, Wrote(proc'[q])
               PROVE  loop'[proc'[q].res] = owners[proc'[q].own].base
    BY DEF RecoveryWrote, Wrote
  <2>1. CASE q = p
    BY <1>1, <2>1 DEF CInv, RecoveryWrote
  <2>2. CASE q # p
    <3>1. Wrote(proc[q]) /\ proc'[q] = proc[q]
      BY <1>1, <2>2
    <3>2. proc[q].pc \in Locking
      BY <3>1 DEF Wrote, Locking, Guarded
    <3>3. UNCHANGED loop
      BY <2>2, <3>2, Alone, GuardedLocks DEF IInv
    <3>4. QED
      BY <3>1, <3>3 DEF CInv, RecoveryWrote
  <2>3. QED
    BY <2>1, <2>2
<1>6. QED
  BY <1>2, <1>3, <1>4, <1>5, SameCInv


\* A process ends what it was doing without a last word to the database.
LEMMA LeaveCInv ==
  ASSUME IInv, CInv, NEW p \in Proc, NEW nw \in {NoOperation, ProcDown}, Go(p, nw),
         UNCHANGED <<runs, owners, claims, exported>>,
         UNCHANGED loop \/ proc[p].pc \in Guarded
  PROVE  CInv'
<1>1. nw \in ProcRec /\ nw.pc \in {"idle", "down"} /\ nw.kind = "none"
  BY RestTypes
<1>2. MoveFits(proc[p], nw) /\ ~ Wrote(nw)
  BY <1>1 DEF MoveFits, Wrote, Guarded
<1>3. QED
  BY <1>1, <1>2, QuietCInv

LEMMA DroppedCInv ==
  ASSUME IInv, CInv, NEW p \in Proc,
         \/ StartupSkips(p) \/ SweepStops(p) \/ SweepDone(p) \/ WriteRefused(p)
         \/ FinishTuneLost(p) \/ ReleaseLost(p) \/ RecoveryRefused(p) \/ RecoveryLost(p)
         \/ ExitProcess(p) \/ Crash(p)
  PROVE  CInv'
<1>1. UNCHANGED <<runs, owners, claims, exported>>
  BY DEF StartupSkips, SweepStops, SweepDone, WriteRefused, FinishTuneLost, ReleaseLost,
         RecoveryRefused, RecoveryLost, ExitProcess, Crash
<1>2. Go(p, NoOperation) \/ Go(p, ProcDown)
  BY DEF StartupSkips, SweepStops, SweepDone, WriteRefused, FinishTuneLost, ReleaseLost,
         RecoveryRefused, RecoveryLost, ExitProcess, Crash
<1>3. UNCHANGED loop \/ proc[p].pc \in Guarded
  BY DEF StartupSkips, SweepStops, SweepDone, WriteRefused, FinishTuneLost, ReleaseLost,
         RecoveryRefused, RecoveryLost, ExitProcess, Crash, Guarded
<1>4. QED
  BY <1>1, <1>2, <1>3, LeaveCInv


\* The startup takes the lock and lists the stale owners.
LEMMA StartupSweepsCInv ==
  ASSUME IInv, CInv, NEW p \in Proc, StartupSweeps(p)
  PROVE  CInv'
<1> DEFINE todo == {o \in Owner : Stale(o)}
<1>1. todo \subseteq Owner
  OBVIOUS
<1>2. Go(p, [NoOperation EXCEPT !.pc = "sweeping", !.todo = todo])
      /\ UNCHANGED <<runs, owners, claims, loop, exported>>
  BY DEF StartupSweeps
<1> HIDE DEF todo
<1> DEFINE nw == [NoOperation EXCEPT !.pc = "sweeping", !.todo = todo]
<1>3. nw \in ProcRec /\ nw.pc = "sweeping" /\ nw.kind = "none"
  BY <1>1, RestTypes DEF ProcRec, PCs, Locking
<1>4. Go(p, nw)
  BY <1>2
<1> HIDE DEF nw
<1>5. MoveFits(proc[p], nw) /\ ~ Wrote(nw)
  BY <1>3 DEF MoveFits, Wrote, Guarded
<1>6. QED
  BY <1>2, <1>3, <1>4, <1>5, QuietCInv


\* The evidence of a candidate is on disk before anything else.
LEMMA SweepExportCInv ==
  ASSUME IInv, CInv, NEW p \in Proc, NEW o \in Owner, SweepExport(p, o)
  PROVE  CInv'
<1> DEFINE w == proc[p]
           nw == [w EXCEPT !.pc = "exported", !.own = o, !.todo = @ \ {o}]
<1>1. w \in ProcRec /\ w.pc = "sweeping" /\ Go(p, nw)
  BY DEF SweepExport, IInv, TypeOK
<1>2. UNCHANGED <<runs, owners, claims, loop>> /\ exported' = exported \cup {o}
  BY DEF SweepExport
<1> HIDE DEF w
<1>3. /\ nw \in ProcRec /\ nw.pc = "exported" /\ nw.own = o
      /\ nw.kind = w.kind /\ nw.run = w.run
  BY <1>1 DEF ProcRec, PCs, Locking
<1> HIDE DEF nw
<1>4. MoveFits(proc[p], nw) /\ ~ Wrote(nw)
  BY <1>1, <1>3 DEF MoveFits, Wrote, Guarded, w
<1>5. QED
  BY <1>1, <1>2, <1>3, <1>4, QuietCInv


\* A prepared tune takes the OS lock.
LEMMA LockForTuneCInv ==
  ASSUME IInv, CInv, NEW p \in Proc, LockForTune(p)
  PROVE  CInv'
<1> DEFINE w == proc[p]
           nw == [w EXCEPT !.pc = "locked"]
<1>1. w \in ProcRec /\ w.pc = "prepared" /\ w.kind = "tune" /\ Go(p, nw)
  BY DEF LockForTune, IInv, TypeOK, LocalsOK, LocalsFit
<1>2. UNCHANGED <<runs, owners, claims, loop, exported>>
  BY DEF LockForTune
<1> HIDE DEF w
<1>3. nw \in ProcRec /\ nw.pc = "locked" /\ nw.kind = w.kind /\ nw.run = w.run /\ nw.res = w.res /\ nw.own = w.own
  BY <1>1, ConstantsAssumption DEF ProcRec, PCs, Locking, Guarded
<1> HIDE DEF nw
<1>4. MoveFits(proc[p], nw) /\ ~ Wrote(nw)
  BY <1>1, <1>3 DEF MoveFits, Wrote, Guarded, w
<1>5. QED
  BY <1>1, <1>2, <1>3, <1>4, QuietCInv

\* A PID or raw write takes it.
LEMMA LockForWriteCInv ==
  ASSUME IInv, CInv, NEW p \in Proc, NEW r \in Run \cup {None}, NEW res \in Resource, LockForWrite(p, r, res)
  PROVE  CInv'
<1> DEFINE nw == [NoOperation EXCEPT !.pc = "locked", !.kind = "pid",
                                     !.run = r, !.res = res]
<1>1. proc[p].pc = "idle" /\ Go(p, nw) /\ (r # None => runs[r].results)
  BY DEF LockForWrite
<1>2. UNCHANGED <<runs, owners, claims, loop, exported>>
  BY DEF LockForWrite
<1>3. nw \in ProcRec /\ nw.pc = "locked" /\ nw.kind = "pid" /\ nw.run = r
  BY <1>1, RestTypes, ConstantsAssumption DEF ProcRec, PCs, Locking, Guarded
<1> HIDE DEF nw
<1>4. MoveFits(proc[p], nw) /\ ~ Wrote(nw)
  <2>1. nw.run \in Run => runs[nw.run].results
    BY <1>1, <1>3, ConstantsAssumption
  <2>2. nw.pc \notin Guarded \cup {"prepared"}
    BY <1>3 DEF Guarded
  <2>3. ~ Wrote(nw)
    BY <1>3 DEF Wrote
  <2>4. MoveFits(proc[p], nw)
    BY <1>3, <2>1, <2>2 DEF MoveFits
  <2>5. QED
    BY <2>3, <2>4
<1>5. QED
  BY <1>1, <1>2, <1>3, <1>4, QuietCInv

\* A setup that failed before any write.
LEMMA SetupFailsCInv ==
  ASSUME IInv, CInv, NEW p \in Proc, SetupFails(p)
  PROVE  CInv'
<1> DEFINE w == proc[p]
           nw == [w EXCEPT !.pc = "finishing", !.restored = TRUE]
<1>1. w \in ProcRec /\ w.pc = "owned" /\ w.kind = "tune" /\ Go(p, nw)
  BY DEF SetupFails, IInv, TypeOK, LocalsOK, LocalsFit
<1>2. UNCHANGED <<runs, owners, claims, loop, exported>>
  BY DEF SetupFails
<1> HIDE DEF w
<1>3. nw \in ProcRec /\ nw.pc = "finishing" /\ nw.kind = w.kind /\ nw.run = w.run /\ nw.res = w.res /\ nw.own = w.own
  BY <1>1, ConstantsAssumption DEF ProcRec, PCs, Locking, Guarded
<1> HIDE DEF nw
<1>4. MoveFits(proc[p], nw) /\ ~ Wrote(nw)
  BY <1>1, <1>3 DEF MoveFits, Wrote, Guarded, w
<1>5. QED
  BY <1>1, <1>2, <1>3, <1>4, QuietCInv

\* A failed heartbeat is remembered.
LEMMA HeartbeatFailsCInv ==
  ASSUME IInv, CInv, NEW p \in Proc, HeartbeatFails(p)
  PROVE  CInv'
<1> DEFINE w == proc[p]
           nw == [w EXCEPT !.healthy = FALSE]
<1>1. w \in ProcRec /\ Go(p, nw) /\ UNCHANGED <<runs, owners, claims, loop, exported>>
  BY DEF HeartbeatFails, IInv, TypeOK
<1>2. w.pc = "exported" => w.own \in exported
  BY DEF CInv, ExportedFirst
<1> HIDE DEF w
<1>3. /\ nw \in ProcRec /\ nw.pc = w.pc /\ nw.kind = w.kind /\ nw.run = w.run
      /\ nw.res = w.res /\ nw.own = w.own /\ nw.goal = w.goal /\ (nw.ok <=> w.ok)
      /\ (nw.restored <=> w.restored)
  BY <1>1 DEF ProcRec
<1> HIDE DEF nw
<1>4. MoveFits(w, nw) /\ (Wrote(nw) => Wrote(w))
  BY <1>3 DEF MoveFits, Wrote
<1>5. QED
  BY <1>1, <1>2, <1>3, <1>4, QuietCInv DEF w

\* A stop without a restore write restores nothing.
LEMMA StopWithoutRestoreCInv ==
  ASSUME IInv, CInv, NEW p \in Proc, StopWithoutRestore(p)
  PROVE  CInv'
<1> DEFINE w == proc[p]
           next == IF w.kind = "tune" THEN "finishing" ELSE "completing"
           nw == [w EXCEPT !.pc = next, !.restored = FALSE]
<1>1. /\ w \in ProcRec /\ w.pc = "active" /\ Go(p, nw)
      /\ UNCHANGED <<runs, owners, claims, loop, exported>>
  BY DEF StopWithoutRestore, IInv, TypeOK
<1>2. next \in {"finishing", "completing"}
  OBVIOUS
<1> HIDE DEF w, next
<1>3. /\ nw \in ProcRec /\ nw.pc = next /\ nw.kind = w.kind /\ nw.run = w.run
      /\ nw.res = w.res /\ nw.own = w.own /\ ~ nw.restored
  BY <1>1, <1>2 DEF ProcRec, PCs, Locking, Guarded
<1> HIDE DEF nw
<1>4. MoveFits(w, nw) /\ ~ Wrote(nw)
  BY <1>1, <1>2, <1>3 DEF MoveFits, Wrote, Guarded
<1>5. QED
  BY <1>1, <1>2, <1>3, <1>4, QuietCInv, GuardedLocks DEF w

\* restore-loop takes the OS lock.
LEMMA RecoveryLockCInv ==
  ASSUME IInv, CInv, NEW p \in Proc, NEW r \in Run, RecoveryLock(p, r)
  PROVE  CInv'
<1> DEFINE res == runs[r].res
           nw == [NoOperation EXCEPT !.pc = "rlocked", !.kind = "recovery",
                                     !.run = r, !.res = res]
<1>1. Go(p, nw) /\ UNCHANGED <<runs, owners, claims, loop, exported>>
  BY DEF RecoveryLock
<1>2. res \in Resource \cup {None}
  BY DEF IInv, TypeOK, RunRec
<1> HIDE DEF res
<1>3. nw \in ProcRec /\ nw.pc = "rlocked" /\ nw.kind = "recovery"
  BY <1>2, RestTypes DEF ProcRec, PCs, Locking
<1> HIDE DEF nw
<1>4. MoveFits(proc[p], nw) /\ ~ Wrote(nw)
  BY <1>3 DEF MoveFits, Wrote, Guarded
<1>5. QED
  BY <1>1, <1>3, <1>4, QuietCInv

\* What the driver call did to the loop is known if it succeeded.
LEMMA DriverReturnsCInv ==
  ASSUME IInv, CInv, NEW p \in Proc, DriverReturns(p)
  PROVE  CInv'
<1> DEFINE w == proc[p]
<1>1. /\ w \in ProcRec /\ w.pc = "writing"
      /\ UNCHANGED <<runs, owners, claims, exported>>
  BY DEF DriverReturns, IInv, TypeOK
<1>2. PICK ok \in BOOLEAN : /\ Go(p, [w EXCEPT !.pc = "written", !.ok = ok])
                            /\ loop' \in IF ok THEN {Applied(p)} ELSE {loop, Applied(p)}
  BY DEF DriverReturns
<1>3. w.res \in Resource
  BY <1>1 DEF IInv, LocalsOK, LocalsFit, Guarded
<1>4. ok /\ w.goal = "restore" => loop'[w.res] = owners[w.own].base
  BY <1>2, <1>3 DEF Applied, IInv, TypeOK
<1> DEFINE nw == [w EXCEPT !.pc = "written", !.ok = ok]
<1>5. Go(p, nw)
  BY <1>2
<1> HIDE DEF w
<1>6. /\ nw \in ProcRec /\ nw.pc = "written" /\ nw.kind = w.kind /\ nw.run = w.run
      /\ nw.res = w.res /\ nw.own = w.own /\ nw.goal = w.goal /\ (nw.ok <=> ok)
  BY <1>1 DEF ProcRec, PCs, Locking, Guarded
<1> HIDE DEF nw
<1>7. MoveFits(w, nw) /\ w.pc \in Guarded
  BY <1>1, <1>6 DEF MoveFits, Guarded
<1>8. Wrote(nw) => loop'[nw.res] = owners[nw.own].base
  BY <1>4, <1>6 DEF Wrote
<1>9. QED
  BY <1>1, <1>5, <1>6, <1>7, <1>8, QuietCInv DEF w

-----------------------------------------------------------------------------
(* Owner rows that only age, or record what their process does *)

LEMMA WroteKept ==
  ASSUME IInv, CInv, SameOwners, UNCHANGED loop,
         \A q \in Proc : Wrote(proc'[q]) =>
             Wrote(proc[q]) /\ proc'[q].own = proc[q].own /\ proc'[q].res = proc[q].res
  PROVE  RecoveryWrote'
<1> SUFFICES ASSUME NEW q \in Proc, Wrote(proc'[q])
             PROVE  loop'[proc'[q].res] = owners'[proc'[q].own].base
  BY DEF RecoveryWrote, Wrote
<1>1. /\ Wrote(proc[q]) /\ proc'[q].own = proc[q].own /\ proc'[q].res = proc[q].res
      /\ loop[proc[q].res] = owners[proc[q].own].base
  BY DEF CInv, RecoveryWrote
<1>2. proc[q].pc \in Guarded /\ proc[q].kind = "recovery"
  BY <1>1 DEF Wrote, Guarded
<1>3. proc[q].own \in Owner /\ owners[proc[q].own].kind = "recovery"
  BY <1>2 DEF CInv, GuardRows, IInv, LocalsOK, LocalsFit
<1>4. QED
  BY <1>1, <1>3 DEF SameOwners

\* One active owner row changes what its own process writes down.
LEMMA OneOwner ==
  ASSUME IInv, NEW o \in Owner, NEW nv, owners' = [owners EXCEPT ![o] = nv],
         /\ nv.state = owners[o].state /\ nv.kind = owners[o].kind
         /\ nv.run = owners[o].run /\ nv.res = owners[o].res
         /\ nv.eligible = owners[o].eligible
         /\ nv.source = owners[o].source /\ nv.attempt = owners[o].attempt,
         \/ nv.intent = owners[o].intent /\ nv.step = owners[o].step
         \/ owners[o].state = "active",
         \/ nv.intent = owners[o].intent /\ nv.base = owners[o].base
         \/ owners[o].state = "active" /\ owners[o].kind # "recovery"
  PROVE  SameOwners
<1>1. owners'[o] = nv /\ \A q \in Owner : q # o => owners'[q] = owners[q]
  BY DEF IInv, TypeOK
<1>2. QED
  BY <1>1 DEF SameOwners

LEMMA HeartbeatCInv ==
  ASSUME IInv, CInv, NEW p \in Proc, Heartbeat(p)
  PROVE  CInv'
<1> DEFINE o == proc[p].own
           v == owners[o]
           nv == [v EXCEPT !.age = 0]
<1>1. /\ owners' = [owners EXCEPT ![o] = nv]
      /\ UNCHANGED <<proc, runs, claims, loop, exported>>
  BY DEF Heartbeat
<1>2. o \in Owner /\ v \in OwnerRec
  BY DEF Heartbeat, IInv, LocalsOK, LocalsFit, TypeOK
<1>3. SameOwners
  <2> HIDE DEF v
  <2>1. /\ nv.state = v.state /\ nv.kind = v.kind /\ nv.run = v.run /\ nv.res = v.res
        /\ nv.eligible = v.eligible /\ nv.source = v.source /\ nv.attempt = v.attempt
        /\ nv.intent = v.intent /\ nv.step = v.step /\ nv.base = v.base
    BY <1>2 DEF OwnerRec
  <2> HIDE DEF nv
  <2>2. QED
    BY <1>1, <1>2, <2>1, OneOwner DEF v
<1>4. \A q \in Proc : MoveFits(proc[q], proc'[q])
  BY <1>1 DEF MoveFits
<1>5. ExportedFirst'
  BY <1>1 DEF CInv, ExportedFirst
<1>6. RecoveryWrote'
  BY <1>1, <1>3, WroteKept
<1>7. QED
  BY <1>1, <1>3, <1>4, <1>5, <1>6, SameCInv

LEMMA TickCInv ==
  ASSUME IInv, CInv, Tick
  PROVE  CInv'
<1> DEFINE older(o) == owners[o].state = "active" /\ owners[o].age < StaleAfter
<1>1. /\ owners' = [o \in Owner |-> IF older(o) THEN [owners[o] EXCEPT !.age = @ + 1]
                                    ELSE owners[o]]
      /\ UNCHANGED <<proc, lock, runs, claims, loop, exported>>
  BY DEF Tick
<1> HIDE DEF older
<1>2. SameOwners
  <2> SUFFICES ASSUME NEW o \in Owner
               PROVE  /\ owners'[o].state = owners[o].state /\ owners'[o].kind = owners[o].kind
                      /\ owners'[o].run = owners[o].run /\ owners'[o].res = owners[o].res
                      /\ owners'[o].eligible = owners[o].eligible
                      /\ owners'[o].source = owners[o].source
                      /\ owners'[o].attempt = owners[o].attempt
                      /\ owners'[o].intent = owners[o].intent
                      /\ owners'[o].step = owners[o].step /\ owners'[o].base = owners[o].base
    BY DEF SameOwners
  <2> DEFINE v == owners[o]
             a == v.age + 1
  <2>1. v \in OwnerRec
    BY DEF IInv, TypeOK
  <2>2. owners'[o] = IF older(o) THEN [v EXCEPT !.age = a] ELSE v
    BY <1>1
  <2> HIDE DEF a, v
  <2>3. QED
    BY <2>1, <2>2 DEF OwnerRec, v
<1>3. \A q \in Proc : MoveFits(proc[q], proc'[q])
  BY <1>1 DEF MoveFits
<1>4. ExportedFirst'
  BY <1>1 DEF CInv, ExportedFirst
<1>5. RecoveryWrote'
  BY <1>1, <1>2, WroteKept
<1>6. QED
  BY <1>1, <1>2, <1>3, <1>4, <1>5, SameCInv

\* A guarded process records something in its owner row and moves on.
LEMMA RecordCInv ==
  ASSUME IInv, CInv, NEW p \in Proc, NEW nw \in ProcRec, Go(p, nw),
         proc[p].pc \in Guarded, nw.pc \in Guarded,
         nw.own = proc[p].own, nw.kind = proc[p].kind, nw.run = proc[p].run,
         nw.res = proc[p].res, SameOwners, UNCHANGED <<runs, claims, loop, exported>>,
         Wrote(nw) => Wrote(proc[p])
  PROVE  CInv'
<1>1. /\ proc'[p] = nw
      /\ \A q \in Proc : q # p => proc'[q] = proc[q]
  BY GoEffect DEF IInv
<1>2. MoveFits(proc[p], nw)
  BY DEF MoveFits, Guarded
<1>3. \A q \in Proc : MoveFits(proc[q], proc'[q])
  BY <1>1, <1>2 DEF MoveFits
<1>4. ExportedFirst'
  <2>1. nw.pc # "exported"
    BY DEF Guarded
  <2>2. QED
    BY <1>1, <2>1 DEF CInv, ExportedFirst
<1>5. RecoveryWrote'
  <2>1. \A q \in Proc : Wrote(proc'[q]) =>
             Wrote(proc[q]) /\ proc'[q].own = proc[q].own /\ proc'[q].res = proc[q].res
    BY <1>1
  <2>2. QED
    BY <2>1, WroteKept
<1>6. QED
  BY <1>3, <1>4, <1>5, SameCInv

LEMMA PersistIntentCInv ==
  ASSUME IInv, CInv, NEW p \in Proc, PersistIntent(p)
  PROVE  CInv'
<1> DEFINE w == proc[p]
           v == owners[w.own]
           b == loop[w.res]
           nv == [v EXCEPT !.intent = TRUE, !.base = b]
           nw == [w EXCEPT !.pc = "active"]
<1>1. /\ w \in ProcRec /\ w.pc = "owned" /\ w.kind = "tune" /\ w.own \in Owner
      /\ Go(p, nw) /\ v \in OwnerRec
      /\ UNCHANGED <<runs, claims, loop, exported>>
  BY DEF PersistIntent, IInv, TypeOK, LocalsOK, LocalsFit, Guarded
<1>2. owners' = [owners EXCEPT ![w.own] = nv]
  BY <1>1 DEF PersistIntent, IInv, TypeOK
<1>3. v.state = "active"
  BY DEF PersistIntent, HoldsClaim
<1>4. v.kind = "tune"
  BY <1>1, <1>3 DEF CInv, GuardRows, Guarded
<1> HIDE DEF b, v
<1>5. /\ nv.state = v.state /\ nv.kind = v.kind /\ nv.run = v.run /\ nv.res = v.res
      /\ nv.eligible = v.eligible /\ nv.source = v.source /\ nv.attempt = v.attempt
  BY <1>1 DEF OwnerRec
<1> HIDE DEF nv
<1>6. SameOwners
  BY <1>1, <1>2, <1>3, <1>4, <1>5, OneOwner DEF v
<1> HIDE DEF w
<1>7. /\ nw \in ProcRec /\ nw.pc = "active" /\ nw.own = w.own
      /\ nw.kind = w.kind /\ nw.run = w.run /\ nw.res = w.res
  BY <1>1 DEF ProcRec, PCs, Locking, Guarded
<1> HIDE DEF nw
<1>8. nw.pc \in Guarded /\ w.pc \in Guarded /\ ~ Wrote(nw)
  BY <1>1, <1>7 DEF Guarded, Wrote
<1>9. QED
  BY <1>1, <1>6, <1>7, <1>8, RecordCInv DEF w

LEMMA BeginWriteCInv ==
  ASSUME IInv, CInv, NEW p \in Proc, NEW goal \in {"perturb", "restore", "pid"},
         BeginWrite(p, goal)
  PROVE  CInv'
<1> DEFINE w == proc[p]
           v == owners[w.own]
           nv == [v EXCEPT !.step = "intent"]
           nw == [w EXCEPT !.pc = "writing", !.goal = goal]
<1>1. /\ w \in ProcRec /\ w.pc \in {"active", "releasing"}
      /\ Go(p, nw) /\ UNCHANGED <<runs, claims, loop, exported>>
      /\ owners' = [owners EXCEPT ![w.own] = nv]
  BY DEF BeginWrite, Goals, IInv, TypeOK
<1>2. w.own \in Owner /\ w.pc \in Guarded
  BY <1>1 DEF IInv, LocalsOK, LocalsFit, Guarded
<1>3. v.state = "active" /\ v \in OwnerRec
  BY <1>2 DEF BeginWrite, HoldsClaim, IInv, TypeOK
<1> HIDE DEF v
<1>4. /\ nv.state = v.state /\ nv.kind = v.kind /\ nv.run = v.run /\ nv.res = v.res
      /\ nv.eligible = v.eligible /\ nv.source = v.source /\ nv.attempt = v.attempt
      /\ nv.intent = v.intent /\ nv.base = v.base
  BY <1>3 DEF OwnerRec
<1> HIDE DEF nv
<1>5. SameOwners
  BY <1>1, <1>2, <1>3, <1>4, OneOwner DEF v
<1> HIDE DEF w
<1>6. /\ nw \in ProcRec /\ nw.pc = "writing" /\ nw.own = w.own
      /\ nw.kind = w.kind /\ nw.run = w.run /\ nw.res = w.res
  BY <1>1 DEF ProcRec, PCs, Locking, Guarded
<1> HIDE DEF nw
<1>7. nw.pc \in Guarded /\ ~ Wrote(nw)
  BY <1>6 DEF Guarded, Wrote
<1>8. QED
  BY <1>1, <1>2, <1>5, <1>6, <1>7, RecordCInv DEF w

LEMMA FinishStepCInv ==
  ASSUME IInv, CInv, NEW p \in Proc, FinishStep(p)
  PROVE  CInv'
<1> DEFINE w == proc[p]
           v == owners[w.own]
           next == AfterWrite(p)
           nv == [v EXCEPT !.step = "finished"]
<1>1. /\ w \in ProcRec /\ w.pc = "written" /\ UNCHANGED <<runs, claims, loop, exported>>
  BY DEF FinishStep, IInv, TypeOK
<1>2. PICK audited \in BOOLEAN :
        /\ audited => v.step = "intent"
        /\ owners' = IF audited THEN [owners EXCEPT ![w.own] = nv] ELSE owners
        /\ Go(p, [w EXCEPT !.pc = next, !.goal = "none", !.ok = FALSE,
                    !.restored = IF w.goal = "restore" THEN audited /\ w.ok ELSE w.restored])
  BY DEF FinishStep
<1> DEFINE back == IF w.goal = "restore" THEN audited /\ w.ok ELSE w.restored
           nw == [w EXCEPT !.pc = next, !.goal = "none", !.ok = FALSE, !.restored = back]
<1>3. /\ next \in {"finishing", "completing", "releasing", "active"}
      /\ next = "completing" => w.kind = "recovery" /\ w.goal = "restore"
  BY DEF AfterWrite
<1>4. w.own \in Owner /\ w.pc \in Guarded
  BY <1>1 DEF IInv, LocalsOK, LocalsFit, Guarded
<1>5. v \in OwnerRec
  BY <1>4 DEF IInv, TypeOK
<1>6. audited => v.state = "active"
  <2>1. audited => v.state # "deleted"
    BY <1>2, <1>4 DEF CInv, RowInv, OwnerRows
  <2>2. QED
    BY <1>4, <2>1 DEF IInv, NoTakeover, HoldsClaim
<1>7. Go(p, nw)
  BY <1>2
<1> HIDE DEF v
<1>8. /\ nv.state = v.state /\ nv.kind = v.kind /\ nv.run = v.run /\ nv.res = v.res
      /\ nv.eligible = v.eligible /\ nv.source = v.source /\ nv.attempt = v.attempt
      /\ nv.intent = v.intent /\ nv.base = v.base
  BY <1>5 DEF OwnerRec
<1> HIDE DEF nv
<1>9. SameOwners
  <2>1. CASE audited
    BY <1>2, <1>4, <1>6, <1>8, <2>1, OneOwner DEF v
  <2>2. CASE ~ audited
    BY <1>2, <2>2 DEF SameOwners
  <2>3. QED
    BY <2>1, <2>2
<1>10. back \in BOOLEAN /\ (w.goal = "restore" => (back => w.ok))
  BY <1>1 DEF ProcRec
<1> HIDE DEF w, next, back
<1>11. /\ nw \in ProcRec /\ nw.pc = next /\ nw.own = w.own /\ (nw.restored <=> back)
       /\ nw.kind = w.kind /\ nw.run = w.run /\ nw.res = w.res
  BY <1>1, <1>3, <1>10 DEF ProcRec, PCs, Locking, Guarded
<1> HIDE DEF nw
<1>12. nw.pc \in Guarded
  BY <1>3, <1>11 DEF Guarded
<1>13. Wrote(nw) => Wrote(w)
  BY <1>1, <1>3, <1>10, <1>11 DEF Wrote
<1>14. QED
  BY <1>1, <1>4, <1>7, <1>9, <1>11, <1>12, <1>13, RecordCInv DEF w

-----------------------------------------------------------------------------
(* Steps that change a run row only *)

\* The row of a run that nobody owns, or that goes on for its owners.
LEMMA RunRowInv ==
  ASSUME IInv, RowInv, NEW r \in Run, NEW nr \in RunRec, runs' = [runs EXCEPT ![r] = nr],
         UNCHANGED <<owners, claims>>, nr.recovery = runs[r].recovery,
         nr.outcome \in {"absent", "deleted"} =>
            nr.recovery = "none" /\ nr.restore = "none" /\ ~ nr.results,
         \/ \A o \in Owner : owners[o].run # r
         \/ /\ nr.outcome \notin {"absent", "deleted"} /\ nr.res = runs[r].res
            /\ runs[r].recovery \in Unresolved => nr.outcome = "failed"
  PROVE  RowInv'
<1> USE DEF RowInv
<1>1. runs'[r] = nr /\ \A x \in Run : x # r => runs'[x] = runs[x]
  BY DEF IInv, TypeOK
<1>2. \A x \in Run : runs'[x].recovery = runs[x].recovery
  BY <1>1
<1>3. \A o \in Owner : owners[o].run \in Run =>
         /\ runs'[owners[o].run].outcome \notin {"absent", "deleted"}
         /\ runs'[owners[o].run].res = runs[owners[o].run].res
         /\ runs[owners[o].run].recovery \in Unresolved =>
               \/ runs'[owners[o].run].outcome = "failed"
               \/ runs'[owners[o].run].outcome = runs[owners[o].run].outcome
  BY <1>1 DEF OwnerRows
<1>4. ClaimsFit' /\ ActiveHolds'
  BY DEF ClaimsFit, ActiveHolds, HoldsClaim
<1>5. OwnerRows'
  BY <1>3 DEF OwnerRows
<1>6. OneTune'
  BY DEF OneTune
<1>7. EmptyRuns'
  BY <1>1 DEF EmptyRuns
<1>8. ActiveTunes'
  BY <1>2 DEF ActiveTunes, OwnerRows
<1>9. SourceRows'
  <2> SUFFICES ASSUME NEW o \in Owner, owners[o].state = "orphaned", owners[o].eligible
               PROVE  /\ owners[o].kind = "tune" /\ RecoveryEligible(o)
                      /\ runs'[owners[o].run].outcome = "failed"
                      /\ runs'[owners[o].run].recovery \in Unresolved
                      /\ runs'[owners[o].run].recovery # "running" => claims[owners[o].res] = o
                      /\ runs'[owners[o].run].recovery = "running" =>
                            /\ claims[owners[o].res] # None
                            /\ owners[claims[owners[o].res]].kind = "recovery"
                            /\ owners[claims[owners[o].res]].source = o
    BY DEF SourceRows, RecoveryEligible
  <2>1. owners[o].run \in Run
    BY DEF SourceRows, OwnerRows
  <2>2. QED
    BY <1>2, <1>3, <2>1 DEF SourceRows
<1>10. HasSource'
  BY <1>2 DEF HasSource, EligibleSource
<1>11. RecoveryRows'
  BY <1>2 DEF RecoveryRows, EligibleSource, OwnerRows
<1>12. QED
  BY <1>4, <1>5, <1>6, <1>7, <1>8, <1>9, <1>10, <1>11

\* A tune under its guard writes in its own run row.
LEMMA GuardedRunCInv ==
  ASSUME IInv, CInv, NEW p \in Proc, proc[p].pc \in Guarded, proc[p].kind = "tune",
         NEW nw \in ProcRec, Go(p, nw), nw.pc \in Guarded, nw.own = proc[p].own,
         nw.kind = proc[p].kind, nw.run = proc[p].run,
         NEW nr \in RunRec, runs' = [runs EXCEPT ![proc[p].run] = nr],
         runs[proc[p].run].outcome # "deleted", nr.outcome \notin {"absent", "deleted"},
         nr.res = runs[proc[p].run].res, nr.recovery = runs[proc[p].run].recovery,
         runs[proc[p].run].results => nr.results,
         UNCHANGED <<owners, claims, loop, exported>>
  PROVE  CInv'
<1> DEFINE r == proc[p].run
           o == proc[p].own
<1>1. /\ proc'[p] = nw
      /\ \A q \in Proc : q # p => proc'[q] = proc[q]
  BY GoEffect DEF IInv
<1>2. r \in Run /\ o \in Owner
  BY DEF IInv, LocalsOK, LocalsFit
<1>3. runs'[r] = nr /\ \A x \in Run : x # r => runs'[x] = runs[x]
  BY <1>2 DEF IInv, TypeOK
<1>4. owners[o].state = "active" /\ owners[o].kind = "tune" /\ owners[o].run = r
  <2>1. owners[o].state # "deleted"
    BY <1>2 DEF CInv, GuardRows, RowInv, OwnerRows
  <2>2. QED
    BY <1>2, <2>1 DEF CInv, GuardRows, IInv, NoTakeover, HoldsClaim
<1>5. runs[r].recovery \notin Unresolved
  BY <1>2, <1>4 DEF CInv, RowInv, ActiveTunes, Unresolved
<1>6. RowInv'
  BY <1>2, <1>5, RunRowInv DEF CInv
<1>7. \A q \in Proc : MoveFits(proc[q], proc'[q])
  BY <1>1 DEF MoveFits, Guarded
<1>8. Fresh'
  <2> SUFFICES ASSUME NEW q \in Proc, proc'[q].kind = "tune",
                      proc'[q].pc \in {"prepared", "locked"}
               PROVE  /\ \A x \in Owner : owners[x].run # proc'[q].run
                      /\ \/ runs'[proc'[q].run].outcome = "deleted"
                         \/ /\ runs'[proc'[q].run].outcome = "running"
                            /\ runs'[proc'[q].run].res = proc'[q].res
                            /\ runs'[proc'[q].run].recovery = "none"
                            /\ runs'[proc'[q].run].restore = "none"
                            /\ ~ runs'[proc'[q].run].results
    BY DEF Fresh
  <2>1. q # p
    BY <1>1 DEF Guarded
  <2>2. proc'[q] = proc[q] /\ proc[q].run \in Run
    BY <1>1, <2>1 DEF IInv, LocalsOK, LocalsFit
  <2>3. proc[q].run # r
    BY <1>2, <1>4, <2>2 DEF CInv, Fresh
  <2>4. runs'[proc[q].run] = runs[proc[q].run]
    BY <1>3, <2>2, <2>3
  <2>5. QED
    BY <2>2, <2>4 DEF CInv, Fresh
<1>9. OneStarter'
  BY <1>7 DEF CInv, OneStarter, MoveFits
<1>10. GuardRows'
  <2> SUFFICES ASSUME NEW q \in Proc, proc'[q].pc \in Guarded
               PROVE  \/ /\ owners[proc'[q].own].state = "deleted"
                         /\ proc'[q].kind # "recovery"
                         /\ proc'[q].run \in Run => runs'[proc'[q].run].outcome = "deleted"
                      \/ /\ owners[proc'[q].own].kind = proc'[q].kind
                         /\ owners[proc'[q].own].run = proc'[q].run
    BY DEF GuardRows
  <2>1. CASE q = p
    BY <1>1, <1>4, <2>1
  <2>2. CASE q # p
    BY <1>1, <1>3, <2>2 DEF CInv, GuardRows
  <2>3. QED
    BY <2>1, <2>2
<1>11. ExportedFirst'
  BY <1>1 DEF CInv, ExportedFirst, Guarded
<1>12. RecoveryWrote'
  <2>1. ~ Wrote(nw)
    BY DEF Wrote
  <2>2. QED
    BY <1>1, <2>1 DEF CInv, RecoveryWrote, Wrote
<1>13. StarterKinds'
  BY <1>1, <1>3 DEF CInv, StarterKinds, Guarded
<1>14. QED
  BY <1>6, <1>8, <1>9, <1>10, <1>11, <1>12, <1>13 DEF CInv

\* A process that goes on with a tune has just started the run of row b.
Starts(w, r, b) ==
    w.kind = "tune" =>
        /\ w.run = r /\ b.outcome = "running" /\ b.res = w.res
        /\ b.recovery = "none" /\ b.restore = "none" /\ ~ b.results

\* No history, or a row that is still there.
NoHistory(b) ==
    b.outcome \in {"absent", "deleted"} =>
        b.recovery = "none" /\ b.restore = "none" /\ ~ b.results

\* The row of a run that nobody owns begins or ends with its process.
LEMMA FreeRunCInv ==
  ASSUME IInv, CInv, NEW p \in Proc, NEW nw \in ProcRec, Go(p, nw), NEW r \in Run,
         NEW nr \in RunRec, runs' = [runs EXCEPT ![r] = nr],
         UNCHANGED <<owners, claims, loop, exported>>,
         \A o \in Owner : owners[o].run # r,
         \A q \in Proc : q # p /\ proc[q].kind = "tune" => proc[q].run # r,
         runs[r].outcome = "deleted" => nr.outcome = "deleted",
         nr.recovery = runs[r].recovery,
         NoHistory(nr),
         nw.pc \notin Guarded \cup {"locked", "exported"}, nw.kind # "pid",
         runs[r].results => nr.results,
         Starts(nw, r, nr)
  PROVE  CInv'
<1>1. /\ proc'[p] = nw
      /\ \A q \in Proc : q # p => proc'[q] = proc[q]
  BY GoEffect DEF IInv
<1>2. runs'[r] = nr /\ \A x \in Run : x # r => runs'[x] = runs[x]
  BY DEF IInv, TypeOK
<1>3. RowInv'
  BY RunRowInv DEF CInv, NoHistory
<1>4. Fresh'
  <2> SUFFICES ASSUME NEW q \in Proc, proc'[q].kind = "tune",
                      proc'[q].pc \in {"prepared", "locked"}
               PROVE  /\ \A x \in Owner : owners[x].run # proc'[q].run
                      /\ \/ runs'[proc'[q].run].outcome = "deleted"
                         \/ /\ runs'[proc'[q].run].outcome = "running"
                            /\ runs'[proc'[q].run].res = proc'[q].res
                            /\ runs'[proc'[q].run].recovery = "none"
                            /\ runs'[proc'[q].run].restore = "none"
                            /\ ~ runs'[proc'[q].run].results
    BY DEF Fresh
  <2>1. CASE q = p
    BY <1>1, <1>2, <2>1 DEF Starts
  <2>2. CASE q # p
    <3>1. proc'[q] = proc[q] /\ proc[q].run \in Run /\ proc[q].run # r
      BY <1>1, <2>2 DEF IInv, LocalsOK, LocalsFit
    <3>2. runs'[proc[q].run] = runs[proc[q].run]
      BY <1>2, <3>1
    <3>3. QED
      BY <3>1, <3>2 DEF CInv, Fresh
  <2>3. QED
    BY <2>1, <2>2
<1>5. OneStarter'
  BY <1>1 DEF CInv, OneStarter, Starts
<1>6. GuardRows'
  BY <1>1, <1>2 DEF CInv, GuardRows
<1>7. ExportedFirst'
  BY <1>1 DEF CInv, ExportedFirst
<1>8. RecoveryWrote'
  <2>1. ~ Wrote(nw)
    BY DEF Wrote, Guarded
  <2>2. QED
    BY <1>1, <2>1 DEF CInv, RecoveryWrote, Wrote
<1>9. StarterKinds'
  BY <1>1, <1>2 DEF CInv, StarterKinds
<1>10. QED
  BY <1>3, <1>4, <1>5, <1>6, <1>7, <1>8, <1>9 DEF CInv

LEMMA StartRunCInv ==
  ASSUME IInv, CInv, NEW p \in Proc, NEW r \in Run, NEW res \in Resource, StartRun(p, r, res)
  PROVE  CInv'
<1> DEFINE nw == [NoOperation EXCEPT !.pc = "prepared", !.kind = "tune", !.run = r, !.res = res]
           b  == runs[r]
           nr == [b EXCEPT !.outcome = "running", !.res = res]
<1>1. /\ proc[p].pc = "idle" /\ Go(p, nw) /\ runs' = [runs EXCEPT ![r] = nr]
      /\ UNCHANGED <<lock, owners, claims, loop, exported>> /\ b.outcome = "absent"
  BY DEF StartRun
<1>2. /\ nw \in ProcRec /\ nw.pc = "prepared" /\ nw.kind = "tune"
      /\ nw.run = r /\ nw.res = res
  BY RestTypes DEF ProcRec, PCs
<1>3. b \in RunRec
  BY DEF IInv, TypeOK
<1>4. b.recovery = "none" /\ b.restore = "none" /\ ~ b.results
  BY <1>1 DEF CInv, RowInv, EmptyRuns
<1>5. \A o \in Owner : owners[o].run # r
  BY <1>1 DEF CInv, RowInv, OwnerRows
<1>6. \A q \in Proc : proc[q].kind = "tune" => proc[q].run # r
  BY <1>1 DEF IInv, RunsStarted
<1> HIDE DEF nw
<1>7. b.outcome # "deleted"
  BY <1>1
<1>8. b.recovery = runs[r].recovery
  OBVIOUS
<1>9. runs[r].outcome # "deleted"
  BY <1>7
<1> HIDE DEF b
<1>10. /\ nr \in RunRec /\ nr.res = res /\ nr.outcome = "running"
       /\ nr.recovery = b.recovery /\ nr.restore = b.restore /\ (nr.results <=> b.results)
  BY <1>3 DEF RunRec, Terminal
<1> HIDE DEF nr
<1>11. nw.pc \notin Guarded \cup {"locked", "exported"} /\ nw.kind # "pid"
  BY <1>2 DEF Guarded
<1>12. nr.recovery = runs[r].recovery /\ nr.recovery = "none" /\ nr.restore = "none" /\ ~ nr.results
  BY <1>4, <1>8, <1>10
<1>13. /\ runs[r].outcome = "deleted" => nr.outcome = "deleted"
       /\ NoHistory(nr) /\ Starts(nw, r, nr)
       /\ \A q \in Proc : q # p /\ proc[q].kind = "tune" => proc[q].run # r
  BY <1>2, <1>6, <1>9, <1>10, <1>12 DEF NoHistory, Starts
<1>14. nw \in ProcRec /\ nr \in RunRec /\ Go(p, nw) /\ runs' = [runs EXCEPT ![r] = nr]
  BY <1>1, <1>2, <1>10
<1>15. UNCHANGED <<owners, claims, loop, exported>> /\ nr.recovery = runs[r].recovery
  BY <1>1, <1>12
<1>16. runs[r].results => nr.results
  BY <1>4 DEF b
<1>17. QED
  BY <1>1, <1>2, <1>5, <1>11, <1>12, <1>13, <1>14, <1>15, <1>16, FreeRunCInv

LEMMA PrepareFailsCInv ==
  ASSUME IInv, CInv, NEW p \in Proc, PrepareFails(p)
  PROVE  CInv'
<1> DEFINE r == proc[p].run
           b == runs[r]
<1>1. r \in Run /\ b \in RunRec
  BY DEF PrepareFails, IInv, LocalsOK, LocalsFit, TypeOK
<1>2. PICK out \in {"failed", "deleted", "running"} :
        runs' = [runs EXCEPT ![r].outcome = IF @ = "deleted" THEN @ ELSE out]
  BY DEF PrepareFails
<1> DEFINE out2 == IF b.outcome = "deleted" THEN b.outcome ELSE out
           nr == [b EXCEPT !.outcome = out2]
<1>3. runs' = [runs EXCEPT ![r] = nr]
  BY <1>2
<1>4. /\ proc[p].kind = "tune" /\ proc[p].pc \in {"prepared", "locked"}
      /\ Go(p, NoOperation) /\ UNCHANGED <<owners, claims, loop, exported>>
  BY DEF PrepareFails
<1>5. \A o \in Owner : owners[o].run # r
  BY <1>4 DEF CInv, Fresh
<1>6. \A q \in Proc : q # p /\ proc[q].kind = "tune" => proc[q].run # r
  BY <1>4 DEF CInv, OneStarter
<1>7. b.recovery = "none" /\ b.restore = "none" /\ ~ b.results
  <2>1. CASE b.outcome = "deleted"
    BY <1>1, <2>1 DEF CInv, RowInv, EmptyRuns
  <2>2. CASE b.outcome # "deleted"
    BY <1>4, <2>2 DEF CInv, Fresh
  <2>3. QED
    BY <2>1, <2>2
<1>8. out2 \in {"failed", "deleted", "running"} /\ (b.outcome = "deleted" => out2 = "deleted")
  BY <1>2
<1>9. b = runs[r]
  OBVIOUS
<1> HIDE DEF r, b, out2
<1>10. /\ nr \in RunRec /\ nr.outcome = out2
       /\ nr.recovery = b.recovery /\ nr.restore = b.restore /\ (nr.results <=> b.results)
  BY <1>1, <1>8 DEF RunRec, Terminal
<1> HIDE DEF nr
<1>11. /\ NoOperation \in ProcRec /\ NoOperation.kind = "none"
       /\ NoOperation.pc \notin Guarded \cup {"locked", "exported"}
  BY RestTypes DEF Guarded
<1>12. runs[r].outcome = "deleted" => nr.outcome = "deleted"
  BY <1>8, <1>9, <1>10
<1>13. /\ nr.recovery = runs[r].recovery /\ nr.recovery = "none" /\ nr.restore = "none"
       /\ ~ nr.results /\ ~ runs[r].results
  BY <1>7, <1>9, <1>10
<1>14. NoHistory(nr) /\ Starts(NoOperation, r, nr)
  BY <1>11, <1>13 DEF NoHistory, Starts
<1>15. QED
  BY <1>1, <1>3, <1>4, <1>5, <1>6, <1>10, <1>11, <1>12, <1>13, <1>14, FreeRunCInv

LEMMA FinishTuneCInv ==
  ASSUME IInv, CInv, NEW p \in Proc, FinishTune(p)
  PROVE  CInv'
<1> DEFINE w == proc[p]
           r == w.run
           b == runs[r]
           nw == [w EXCEPT !.pc = "releasing"]
<1>1. /\ w \in ProcRec /\ w.pc = "finishing" /\ LocalsFit(w) /\ Go(p, nw)
      /\ b.outcome # "deleted"
      /\ UNCHANGED <<lock, owners, claims, loop, exported>>
  BY DEF FinishTune, IInv, TypeOK, LocalsOK
<1>2. w.kind = "tune" /\ r \in Run /\ b \in RunRec
  BY <1>1, SMTT(30) DEF LocalsFit, IInv, TypeOK
<1>3. PICK out \in Terminal, rest \in {"confirmed", "incomplete", b.restore} :
        runs' = [runs EXCEPT ![r].outcome = out, ![r].restore = rest]
  <2> DEFINE touched == owners[w.own].intent
             outs == {"failed"} \cup (IF ~ touched THEN {} ELSE {IF b.results THEN "completed"
                                                  ELSE "aborted"})
             rests == IF touched THEN {IF w.restored THEN "confirmed" ELSE "incomplete",
                                       b.restore} ELSE {b.restore}
  <2>1. \E out \in outs, rest \in rests :
          runs' = [runs EXCEPT ![r].outcome = out, ![r].restore = rest]
    BY DEF FinishTune
  <2>2. outs \subseteq Terminal /\ rests \subseteq {"confirmed", "incomplete", b.restore}
    BY DEF Terminal
  <2>3. QED
    BY <2>1, <2>2
<1> DEFINE nr == [b EXCEPT !.outcome = out, !.restore = rest]
<1>4. runs' = [runs EXCEPT ![r] = nr]
  BY <1>3
<1>5. b = runs[proc[p].run] /\ r = proc[p].run
  OBVIOUS
<1> HIDE DEF b, r
<1>6. /\ nr \in RunRec /\ nr.res = b.res /\ nr.outcome = out /\ nr.recovery = b.recovery
      /\ b.results => nr.results
  BY <1>2, <1>3 DEF RunRec
<1> HIDE DEF nr
<1> HIDE DEF w
<1>7. /\ nw \in ProcRec /\ nw.pc = "releasing" /\ nw.own = w.own
      /\ nw.kind = w.kind /\ nw.run = w.run /\ nw.res = w.res
  BY <1>1 DEF ProcRec, PCs, Locking, Guarded
<1> HIDE DEF nw
<1>8. nw.pc \in Guarded /\ w.pc \in Guarded
  BY <1>1, <1>7 DEF Guarded
<1>9. nr.outcome \notin {"absent", "deleted"}
  BY <1>3, <1>6 DEF Terminal
<1>10. QED
  BY <1>1, <1>2, <1>4, <1>5, <1>6, <1>7, <1>8, <1>9, GuardedRunCInv DEF w

LEMMA WriteBackErrorsCInv ==
  ASSUME IInv, CInv, NEW p \in Proc, WriteBackErrors(p)
  PROVE  CInv'
<1> DEFINE r == proc[p].run
           b == runs[r]
           nr == [b EXCEPT !.outcome = "failed"]
<1>1. /\ proc[p].pc = "releasing" /\ LocalsFit(proc[p]) /\ b.outcome = "completed"
      /\ runs' = [runs EXCEPT ![r] = nr]
      /\ UNCHANGED <<proc, lock, owners, claims, loop, exported>>
  BY DEF WriteBackErrors, IInv, LocalsOK
<1>2. r \in Run /\ b \in RunRec /\ proc[p].kind = "tune"
  BY <1>1 DEF LocalsFit, IInv, TypeOK
<1>3. b = runs[proc[p].run] /\ r = proc[p].run
  OBVIOUS
<1> HIDE DEF b, r
<1>4. /\ nr \in RunRec /\ nr.res = b.res /\ nr.outcome = "failed" /\ nr.recovery = b.recovery
      /\ b.results => nr.results
  BY <1>2 DEF RunRec, Terminal
<1> HIDE DEF nr
<1>5. Go(p, proc[p]) /\ proc[p] \in ProcRec
  BY <1>1, StayPut DEF IInv
<1>6. proc[p].pc \in Guarded
  BY <1>1 DEF Guarded
<1>7. QED
  BY <1>1, <1>2, <1>3, <1>4, <1>5, <1>6, GuardedRunCInv

LEMMA PersistResultsCInv ==
  ASSUME IInv, CInv, NEW p \in Proc, PersistResults(p)
  PROVE  CInv'
<1> DEFINE r == proc[p].run
           b == runs[r]
           nr == [b EXCEPT !.results = TRUE]
<1>1. /\ proc[p].pc = "active" /\ proc[p].kind = "tune" /\ LocalsFit(proc[p])
      /\ b.outcome # "deleted"
      /\ runs' = [runs EXCEPT ![r] = nr]
      /\ UNCHANGED <<proc, lock, owners, claims, loop, exported>>
  BY DEF PersistResults, IInv, LocalsOK
<1>2. r \in Run /\ b \in RunRec /\ b.outcome # "absent"
  BY <1>1 DEF LocalsFit, IInv, TypeOK, RunsStarted
<1>3. b = runs[proc[p].run] /\ r = proc[p].run
  OBVIOUS
<1> HIDE DEF b, r
<1>4. /\ nr \in RunRec /\ nr.res = b.res /\ nr.outcome = b.outcome /\ nr.recovery = b.recovery
      /\ nr.results
  BY <1>2 DEF RunRec
<1> HIDE DEF nr
<1>5. Go(p, proc[p]) /\ proc[p] \in ProcRec
  BY <1>1, StayPut DEF IInv
<1>6. proc[p].pc \in Guarded
  BY <1>1 DEF Guarded
<1>7. QED
  BY <1>1, <1>2, <1>3, <1>4, <1>5, <1>6, GuardedRunCInv

-----------------------------------------------------------------------------
(* Steps of the lock holder that change owner and claim rows *)

\* The run is not one whose process is still preparing it.
Prepared(p, r) ==
    \E q \in Proc : q # p /\ proc[q].kind = "tune" /\ proc[q].pc = "prepared" /\ proc[q].run = r

\* The locals of the lock holder p may go on like this with the rows ow.
HolderFits(p, nw, ow) ==
    /\ nw.pc \notin {"prepared", "locked", "exported"}
    /\ nw.kind # "none" => nw.kind = proc[p].kind /\ nw.run = proc[p].run
    /\ nw.pc \in Guarded => ow[nw.own].kind = nw.kind /\ ow[nw.own].run = nw.run
    /\ ~ Wrote(nw)

\* The other processes do not mind what the lock holder does to rows that are
\* not theirs.
LEMMA HolderCInv ==
  ASSUME IInv, CInv, NEW p \in Proc, proc[p].pc \in Locking, NEW nw \in ProcRec, Go(p, nw),
         RowInv', HolderFits(p, nw, owners'),
         \A x \in Owner, r \in Run : owners'[x].run = r => ~ Prepared(p, r),
         \A r \in Run : \/ runs'[r] = runs[r]
                        \/ /\ runs'[r].results = runs[r].results
                           /\ runs[r].outcome # "deleted" /\ ~ Prepared(p, r)
  PROVE  CInv'
<1>1. /\ proc'[p] = nw
      /\ \A q \in Proc : q # p => proc'[q] = proc[q]
  BY GoEffect DEF IInv
<1>2. \A q \in Proc : q # p => proc[q].pc \notin Locking
  BY Alone DEF IInv
<1>3. nw.pc \in {"prepared", "locked"} \/ nw.pc = "exported" \/ Wrote(nw) => FALSE
  BY DEF HolderFits
<1>4. Fresh'
  <2> SUFFICES ASSUME NEW q \in Proc, proc'[q].kind = "tune",
                      proc'[q].pc \in {"prepared", "locked"}
               PROVE  /\ \A x \in Owner : owners'[x].run # proc'[q].run
                      /\ \/ runs'[proc'[q].run].outcome = "deleted"
                         \/ /\ runs'[proc'[q].run].outcome = "running"
                            /\ runs'[proc'[q].run].res = proc'[q].res
                            /\ runs'[proc'[q].run].recovery = "none"
                            /\ runs'[proc'[q].run].restore = "none"
                            /\ ~ runs'[proc'[q].run].results
    BY DEF Fresh
  <2>1. q # p
    BY <1>1, <1>3
  <2>2. proc'[q] = proc[q] /\ proc[q].pc = "prepared" /\ proc[q].run \in Run
    BY <1>1, <1>2, <2>1 DEF IInv, LocalsOK, LocalsFit, Locking
  <2>3. Prepared(p, proc[q].run)
    BY <2>1, <2>2 DEF Prepared
  <2>4. runs'[proc[q].run] = runs[proc[q].run]
    BY <2>2, <2>3
  <2>5. QED
    BY <2>2, <2>3, <2>4 DEF CInv, Fresh
<1>5. OneStarter'
  BY <1>1 DEF CInv, OneStarter, HolderFits
<1>6. StarterKinds'
  <2> SUFFICES ASSUME NEW q \in Proc
               PROVE  /\ proc'[q].pc = "locked" => proc'[q].kind \in {"tune", "pid"}
                      /\ proc'[q].kind = "pid" /\ proc'[q].run \in Run =>
                            \/ runs'[proc'[q].run].results
                            \/ runs'[proc'[q].run].outcome = "deleted"
    BY DEF StarterKinds
  <2>1. proc'[q].pc = "locked" => proc'[q].kind \in {"tune", "pid"}
    BY <1>1, <1>3 DEF CInv, StarterKinds
  <2>2. proc'[q].kind = "pid" => proc[q].kind = "pid" /\ proc'[q].run = proc[q].run
    BY <1>1 DEF HolderFits
  <2>3. ASSUME NEW r \in Run, runs[r].results \/ runs[r].outcome = "deleted"
        PROVE  runs'[r].results \/ runs'[r].outcome = "deleted"
    <3>1. CASE runs'[r] = runs[r]
      BY <2>3, <3>1
    <3>2. CASE runs'[r].results = runs[r].results /\ runs[r].outcome # "deleted"
      BY <2>3, <3>2
    <3>3. QED
      BY <3>1, <3>2
  <2>4. QED
    BY <2>1, <2>2, <2>3 DEF CInv, StarterKinds
<1>7. GuardRows'
  BY <1>1, <1>2, GuardedLocks DEF CInv, GuardRows, HolderFits
<1>8. ExportedFirst'
  BY <1>1, <1>2, <1>3 DEF CInv, ExportedFirst, Locking
<1>9. RecoveryWrote'
  <2>1. \A q \in Proc : q # p => ~ Wrote(proc'[q])
    BY <1>1, <1>2 DEF Wrote, Locking, Guarded
  <2>2. ~ Wrote(proc'[p])
    BY <1>1, <1>3
  <2>3. QED
    BY <2>1, <2>2 DEF RecoveryWrote, Wrote
<1>10. QED
  BY <1>4, <1>5, <1>6, <1>7, <1>8, <1>9 DEF CInv

\* create_and_claim, as far as the rows go.
LEMMA ClaimRowInv ==
  ASSUME IInv, RowInv, NEW o \in Owner, owners[o].state = "absent", NEW new \in OwnerRec,
         new.state = "active", new.kind \in {"tune", "pid"}, new.res \in Resource,
         new.source = None, claims[new.res] = None,
         new.kind = "tune" =>
            /\ new.run \in Run /\ new.res = runs[new.run].res
            /\ runs[new.run].recovery = "none" /\ \A q \in Owner : owners[q].run # new.run,
         new.run \in Run => runs[new.run].outcome \notin {"absent", "deleted"},
         owners' = [owners EXCEPT ![o] = new], claims' = [claims EXCEPT ![new.res] = o],
         UNCHANGED runs
  PROVE  RowInv'
<1> USE DEF RowInv
<1>1. owners'[o] = new /\ \A q \in Owner : q # o => owners'[q] = owners[q]
  BY DEF IInv, TypeOK
<1>2. claims'[new.res] = o /\ \A x \in Resource : x # new.res => claims'[x] = claims[x]
  BY DEF IInv, TypeOK
<1>3. owners[o].kind = "none"
  BY DEF OwnerRows
<1>4. \A x \in Resource : claims[x] \in Owner \cup {None} /\ claims[x] # o
  <2>1. \A x \in Resource : claims[x] = o => claims[x] # None
    BY ConstantsAssumption
  <2>2. QED
    BY <2>1 DEF ClaimsFit, IInv, TypeOK
<1>5. ClaimsFit'
  BY <1>1, <1>2, <1>4 DEF ClaimsFit
<1>6. ActiveHolds'
  <2> SUFFICES ASSUME NEW q \in Owner, owners'[q].state = "active"
               PROVE  HoldsClaim(q)'
    BY DEF ActiveHolds
  <2>1. CASE q = o
    BY <1>1, <1>2, <2>1, ConstantsAssumption DEF HoldsClaim
  <2>2. CASE q # o
    <3>1. HoldsClaim(q) /\ owners'[q] = owners[q] /\ owners[q].res \in Resource
      BY <1>1, <2>2 DEF ActiveHolds, HoldsClaim, IInv, TypeOK, OwnerRec
    <3>2. owners[q].res # new.res
      BY <3>1, ConstantsAssumption DEF HoldsClaim
    <3>3. QED
      BY <1>2, <3>1, <3>2 DEF HoldsClaim
  <2>3. QED
    BY <2>1, <2>2
<1>7. OwnerRows'
  BY <1>1 DEF OwnerRows
<1>8. OneTune'
  BY <1>1 DEF OneTune
<1>9. EmptyRuns'
  BY DEF EmptyRuns
<1>10. ActiveTunes'
  BY <1>1 DEF ActiveTunes
<1>11. SourceRows'
  <2> SUFFICES ASSUME NEW q \in Owner, owners'[q].state = "orphaned", owners'[q].eligible
               PROVE  /\ owners'[q].kind = "tune" /\ RecoveryEligible(q)'
                      /\ runs[owners'[q].run].outcome = "failed"
                      /\ runs[owners'[q].run].recovery \in Unresolved
                      /\ runs[owners'[q].run].recovery # "running" => claims'[owners'[q].res] = q
                      /\ runs[owners'[q].run].recovery = "running" =>
                            /\ claims'[owners'[q].res] # None
                            /\ owners'[claims'[owners'[q].res]].kind = "recovery"
                            /\ owners'[claims'[owners'[q].res]].source = q
    BY DEF SourceRows
  <2>1. q # o /\ owners'[q] = owners[q]
    BY <1>1
  <2>2. owners[q].res \in Resource /\ claims[owners[q].res] # None
    <3>1. owners[q].kind = "tune" /\ owners[q].run \in Run
      BY <2>1 DEF SourceRows, OwnerRows
    <3>2. QED
      BY <2>1, <3>1, ConstantsAssumption DEF SourceRows, OwnerRows, IInv, RunsHaveResource
  <2>3. claims'[owners[q].res] = claims[owners[q].res] /\ claims[owners[q].res] # o
    BY <1>2, <1>4, <2>2
  <2>4. owners'[claims[owners[q].res]] = owners[claims[owners[q].res]]
    BY <1>1, <1>4, <2>2, <2>3
  <2>5. RecoveryEligible(q)'
    BY <2>1 DEF SourceRows, RecoveryEligible
  <2>6. QED
    BY <2>1, <2>3, <2>4, <2>5 DEF SourceRows
<1>12. \A s \in Owner, r \in Run : EligibleSource(s, r) => EligibleSource(s, r)'
                                  /\ owners'[s] = owners[s]
  BY <1>1 DEF EligibleSource
<1>13. HasSource'
  BY <1>12 DEF HasSource
<1>14. RecoveryRows'
  <2> SUFFICES ASSUME NEW q \in Owner, owners'[q].kind = "recovery", owners'[q].state = "active"
               PROVE  /\ runs[owners'[q].run].recovery = "running"
                      /\ owners'[q].attempt = "running"
                      /\ owners'[q].source \in Owner
                      /\ EligibleSource(owners[q].source, owners[q].run)'
                      /\ owners'[owners'[q].source].res = owners'[q].res
                      /\ owners'[owners'[q].source].base = owners'[q].base
                      /\ owners'[owners'[q].source].intent = owners'[q].intent
    BY DEF RecoveryRows
  <2>1. q # o /\ owners'[q] = owners[q]
    BY <1>1
  <2> DEFINE s == owners[q].source
             r == owners[q].run
  <2>2. /\ r \in Run /\ s \in Owner /\ EligibleSource(s, r)
        /\ runs[r].recovery = "running" /\ owners[q].attempt = "running"
        /\ owners[s].res = owners[q].res /\ owners[s].base = owners[q].base
        /\ owners[s].intent = owners[q].intent
    BY <2>1 DEF OwnerRows, RecoveryRows
  <2>3. owners'[s] = owners[s]
    BY <1>12, <2>2
  <2>4. EligibleSource(owners[q].source, owners[q].run)'
    BY <2>1, <2>2, <2>3 DEF EligibleSource
  <2>5. QED
    BY <2>1, <2>2, <2>3, <2>4
<1>15. QED
  BY <1>5, <1>6, <1>7, <1>8, <1>9, <1>10, <1>11, <1>13, <1>14

\* An orphan kept for recovery has its claim row.
LEMMA SourceHeld ==
  ASSUME IInv, RowInv, NEW q \in Owner, owners[q].state = "orphaned", owners[q].eligible
  PROVE  /\ owners[q].kind = "tune" /\ owners[q].run \in Run /\ owners[q].res \in Resource
         /\ claims[owners[q].res] \in Owner
         /\ owners[claims[owners[q].res]].res = owners[q].res
<1>1. owners[q].kind = "tune" /\ owners[q].run \in Run /\ owners[q].res \in Resource
  BY DEF RowInv, SourceRows, OwnerRows, IInv, RunsHaveResource
<1>2. claims[owners[q].res] # None
  BY ConstantsAssumption DEF RowInv, SourceRows
<1>3. claims[owners[q].res] \in Owner
  BY <1>1, <1>2 DEF IInv, TypeOK
<1>4. QED
  BY <1>1, <1>2, <1>3 DEF RowInv, ClaimsFit

\* An active owner that is not a recovery ends and gives its claim up.
LEMMA OwnerEndsRowInv ==
  ASSUME IInv, RowInv, NEW o \in Owner, HoldsClaim(o), owners[o].kind # "recovery",
         NEW nv \in OwnerRec, nv.state \in {"released", "orphaned"},
         nv.state = "orphaned" => ~ nv.eligible,
         nv.kind = owners[o].kind, nv.run = owners[o].run, nv.res = owners[o].res,
         nv.source = owners[o].source,
         owners' = [owners EXCEPT ![o] = nv],
         claims' = [claims EXCEPT ![owners[o].res] = None], UNCHANGED runs
  PROVE  RowInv'
<1> USE DEF RowInv
<1> DEFINE res == owners[o].res
<1>1. owners'[o] = nv /\ \A q \in Owner : q # o => owners'[q] = owners[q]
  BY DEF IInv, TypeOK
<1>2. /\ owners[o].state = "active" /\ res \in Resource /\ claims[res] = o
      /\ claims'[res] = None /\ \A x \in Resource : x # res => claims'[x] = claims[x]
  BY DEF HoldsClaim, IInv, TypeOK, OwnerRec
<1>3. \A x \in Resource : claims[x] \in Owner \cup {None} /\ (x # res => claims[x] # o)
  BY ConstantsAssumption DEF ClaimsFit, IInv, TypeOK
<1>4. ClaimsFit'
  BY <1>1, <1>2, <1>3 DEF ClaimsFit
<1>5. ActiveHolds'
  <2> SUFFICES ASSUME NEW q \in Owner, owners'[q].state = "active"
               PROVE  HoldsClaim(q)'
    BY DEF ActiveHolds
  <2>1. q # o /\ owners'[q] = owners[q]
    BY <1>1
  <2>2. HoldsClaim(q) /\ owners[q].res \in Resource
    BY <2>1 DEF ActiveHolds, HoldsClaim, IInv, TypeOK, OwnerRec
  <2>3. owners[q].res # res
    BY <1>2, <2>1, <2>2 DEF HoldsClaim
  <2>4. QED
    BY <1>2, <2>1, <2>2, <2>3 DEF HoldsClaim
<1>6. OwnerRows'
  BY <1>1 DEF OwnerRows
<1>7. OneTune'
  BY <1>1 DEF OneTune
<1>8. EmptyRuns'
  BY DEF EmptyRuns
<1>9. ActiveTunes'
  BY <1>1 DEF ActiveTunes
<1>10. SourceRows'
  <2> SUFFICES ASSUME NEW q \in Owner, owners'[q].state = "orphaned", owners'[q].eligible
               PROVE  /\ owners'[q].kind = "tune" /\ RecoveryEligible(q)'
                      /\ runs[owners'[q].run].outcome = "failed"
                      /\ runs[owners'[q].run].recovery \in Unresolved
                      /\ runs[owners'[q].run].recovery # "running" => claims'[owners'[q].res] = q
                      /\ runs[owners'[q].run].recovery = "running" =>
                            /\ claims'[owners'[q].res] # None
                            /\ owners'[claims'[owners'[q].res]].kind = "recovery"
                            /\ owners'[claims'[owners'[q].res]].source = q
    BY DEF SourceRows
  <2>1. q # o /\ owners'[q] = owners[q]
    BY <1>1
  <2>2. owners[q].res \in Resource /\ claims[owners[q].res] \in Owner
    BY <2>1, SourceHeld
  <2>3. owners[q].res # res
    BY <1>2, <2>1 DEF SourceRows
  <2>4. claims'[owners[q].res] = claims[owners[q].res] /\ claims[owners[q].res] # o
    BY <1>2, <1>3, <2>2, <2>3
  <2>5. owners'[claims[owners[q].res]] = owners[claims[owners[q].res]]
    BY <1>1, <2>2, <2>4
  <2>6. RecoveryEligible(q)'
    BY <2>1 DEF SourceRows, RecoveryEligible
  <2>7. QED
    BY <2>1, <2>4, <2>5, <2>6 DEF SourceRows
<1>11. \A s \in Owner, r \in Run : EligibleSource(s, r) => owners'[s] = owners[s]
  BY <1>1, <1>2 DEF EligibleSource
<1>12. HasSource'
  BY <1>11 DEF HasSource, EligibleSource
<1>13. RecoveryRows'
  <2> SUFFICES ASSUME NEW q \in Owner, owners'[q].kind = "recovery", owners'[q].state = "active"
               PROVE  /\ runs[owners'[q].run].recovery = "running"
                      /\ owners'[q].attempt = "running"
                      /\ owners'[q].source \in Owner
                      /\ EligibleSource(owners[q].source, owners[q].run)'
                      /\ owners'[owners'[q].source].res = owners'[q].res
                      /\ owners'[owners'[q].source].base = owners'[q].base
                      /\ owners'[owners'[q].source].intent = owners'[q].intent
    BY <1>1 DEF RecoveryRows
  <2>1. q # o /\ owners'[q] = owners[q]
    BY <1>1
  <2> DEFINE s == owners[q].source
             r == owners[q].run
  <2>2. /\ r \in Run /\ s \in Owner /\ EligibleSource(s, r)
        /\ runs[r].recovery = "running" /\ owners[q].attempt = "running"
        /\ owners[s].res = owners[q].res /\ owners[s].base = owners[q].base
        /\ owners[s].intent = owners[q].intent
    BY <2>1 DEF OwnerRows, RecoveryRows
  <2>3. owners'[s] = owners[s]
    BY <1>11, <2>2
  <2>4. EligibleSource(owners[q].source, owners[q].run)'
    BY <2>1, <2>2, <2>3 DEF EligibleSource
  <2>5. QED
    BY <2>1, <2>2, <2>3, <2>4
<1>14. QED
  BY <1>4, <1>5, <1>6, <1>7, <1>8, <1>9, <1>10, <1>12, <1>13

\* What SourceRows and RecoveryRows say of one owner.
SourceFits(o) ==
    /\ owners[o].kind = "tune" /\ RecoveryEligible(o)
    /\ runs[owners[o].run].outcome = "failed"
    /\ runs[owners[o].run].recovery \in Unresolved
    /\ runs[owners[o].run].recovery # "running" => claims[owners[o].res] = o
    /\ runs[owners[o].run].recovery = "running" =>
          /\ claims[owners[o].res] # None
          /\ owners[claims[owners[o].res]].kind = "recovery"
          /\ owners[claims[owners[o].res]].source = o

RecoveryFits(o) ==
    /\ runs[owners[o].run].recovery = "running"
    /\ owners[o].attempt = "running"
    /\ owners[o].source \in Owner
    /\ EligibleSource(owners[o].source, owners[o].run)
    /\ owners[owners[o].source].res = owners[o].res
    /\ owners[owners[o].source].base = owners[o].base
    /\ owners[owners[o].source].intent = owners[o].intent

\* An orphan that nothing happens to.
LEMMA SourceStays ==
  ASSUME IInv, RowInv, NEW q \in Owner, owners[q].state = "orphaned", owners[q].eligible,
         owners'[q] = owners[q], runs'[owners[q].run] = runs[owners[q].run],
         claims'[owners[q].res] = claims[owners[q].res],
         owners'[claims[owners[q].res]] = owners[claims[owners[q].res]]
  PROVE  SourceFits(q)'
<1>1. RecoveryEligible(q)'
  BY DEF RowInv, SourceRows, RecoveryEligible
<1>2. QED
  BY <1>1 DEF RowInv, SourceRows, SourceFits

\* A recovery that nothing happens to.
LEMMA RecoveryStays ==
  ASSUME IInv, RowInv, NEW q \in Owner, owners[q].kind = "recovery", owners[q].state = "active",
         owners'[q] = owners[q], runs'[owners[q].run] = runs[owners[q].run],
         owners'[owners[q].source] = owners[owners[q].source]
  PROVE  RecoveryFits(q)'
<1>1. RecoveryFits(q)
  BY DEF RowInv, RecoveryRows, RecoveryFits
<1>2. QED
  BY <1>1 DEF RecoveryFits, EligibleSource

\* A tune whose process died is orphaned together with its run.
Fate(e, o, b) ==
    /\ b.recovery = IF e THEN "eligible" ELSE "not_recoverable"
    /\ claims' = IF e THEN claims ELSE [claims EXCEPT ![owners[o].res] = None]

LEMMA OrphanRowInv ==
  ASSUME IInv, RowInv, NEW o \in Owner, HoldsClaim(o), owners[o].kind = "tune",
         NEW e \in BOOLEAN, e <=> RecoveryEligible(o),
         NEW nv \in OwnerRec, nv.state = "orphaned", nv.eligible <=> e,
         nv.kind = "tune", nv.run = owners[o].run, nv.res = owners[o].res,
         nv.source = owners[o].source, nv.intent = owners[o].intent, nv.step = owners[o].step,
         NEW nr \in RunRec, nr.outcome = "failed", nr.res = runs[owners[o].run].res,
         Fate(e, o, nr),
         owners' = [owners EXCEPT ![o] = nv], runs' = [runs EXCEPT ![owners[o].run] = nr]
  PROVE  RowInv'
<1> USE DEF RowInv, Fate
<1> DEFINE res == owners[o].res
           r == owners[o].run
<1>1. owners'[o] = nv /\ \A q \in Owner : q # o => owners'[q] = owners[q]
  BY DEF IInv, TypeOK
<1>2. r \in Run /\ runs'[r] = nr /\ \A x \in Run : x # r => runs'[x] = runs[x]
  BY DEF OwnerRows, IInv, TypeOK
<1>3. /\ owners[o].state = "active" /\ res \in Resource /\ claims[res] = o
      /\ claims'[res] = IF e THEN o ELSE None
      /\ \A x \in Resource : x # res => claims'[x] = claims[x]
  BY DEF HoldsClaim, IInv, TypeOK, OwnerRec
<1>4. \A x \in Resource : claims[x] \in Owner \cup {None} /\ (x # res => claims[x] # o)
  BY ConstantsAssumption DEF ClaimsFit, IInv, TypeOK
<1>5. runs[r].recovery = "none"
  BY <1>3 DEF ActiveTunes
<1>6. \A q \in Owner : q # o /\ owners[q].kind = "tune" => owners[q].run # r
  BY DEF OneTune
<1>7. ClaimsFit'
  BY <1>1, <1>3, <1>4 DEF ClaimsFit
<1>8. ActiveHolds'
  <2> SUFFICES ASSUME NEW q \in Owner, owners'[q].state = "active"
               PROVE  HoldsClaim(q)'
    BY DEF ActiveHolds
  <2>1. q # o /\ owners'[q] = owners[q]
    BY <1>1
  <2>2. HoldsClaim(q) /\ owners[q].res \in Resource
    BY <2>1 DEF ActiveHolds, HoldsClaim, IInv, TypeOK, OwnerRec
  <2>3. owners[q].res # res
    BY <1>3, <2>1, <2>2 DEF HoldsClaim
  <2>4. QED
    BY <1>3, <2>1, <2>2, <2>3 DEF HoldsClaim
<1>9. OwnerRows'
  BY <1>1, <1>2 DEF OwnerRows
<1>10. OneTune'
  BY <1>1 DEF OneTune
<1>11. EmptyRuns'
  BY <1>2 DEF EmptyRuns
<1>12. ActiveTunes'
  BY <1>1, <1>2, <1>6 DEF ActiveTunes, OwnerRows
<1>13. SourceRows'
  <2> SUFFICES ASSUME NEW q \in Owner, owners'[q].state = "orphaned", owners'[q].eligible
               PROVE  SourceFits(q)'
    BY DEF SourceRows, SourceFits
  <2>1. CASE q = o
    <3>1. e /\ RecoveryEligible(o)'
      BY <1>1, <2>1 DEF RecoveryEligible
    <3>2. QED
      BY <1>1, <1>2, <1>3, <2>1, <3>1 DEF SourceFits, Unresolved
  <2>2. CASE q # o
    <3>1. owners'[q] = owners[q]
      BY <1>1, <2>2
    <3>2. /\ owners[q].kind = "tune" /\ owners[q].run \in Run /\ owners[q].res \in Resource
          /\ claims[owners[q].res] \in Owner
      BY <3>1, SourceHeld
    <3>3. owners[q].res # res
      BY <1>3, <2>2, <3>1 DEF SourceRows
    <3>4. runs'[owners[q].run] = runs[owners[q].run]
      BY <1>2, <1>6, <2>2, <3>2
    <3>5. claims'[owners[q].res] = claims[owners[q].res] /\ claims[owners[q].res] # o
      BY <1>3, <1>4, <3>2, <3>3
    <3>6. owners'[claims[owners[q].res]] = owners[claims[owners[q].res]]
      BY <1>1, <3>2, <3>5
    <3>7. QED
      BY <3>1, <3>4, <3>5, <3>6, SourceStays
  <2>3. QED
    BY <2>1, <2>2, SMTT(30)
<1>14. HasSource'
  <2> SUFFICES ASSUME NEW x \in Run, runs'[x].recovery \in Unresolved
               PROVE  \E s \in Owner : EligibleSource(s, x)'
    BY DEF HasSource
  <2>1. CASE x = r
    <3>1. EligibleSource(o, r)'
      BY <1>1, <1>2, <2>1 DEF EligibleSource, Unresolved
    <3>2. QED
      BY <2>1, <3>1
  <2>2. CASE x # r
    BY <1>1, <1>2, <1>3, <2>2 DEF HasSource, EligibleSource
  <2>3. QED
    BY <2>1, <2>2
<1>15. RecoveryRows'
  <2> SUFFICES ASSUME NEW q \in Owner, owners'[q].kind = "recovery", owners'[q].state = "active"
               PROVE  RecoveryFits(q)'
    BY DEF RecoveryRows, RecoveryFits
  <2>1. q # o /\ owners'[q] = owners[q]
    BY <1>1
  <2>2. RecoveryFits(q) /\ owners[q].run \in Run
    BY <2>1 DEF RecoveryRows, RecoveryFits, OwnerRows
  <2>3. owners[q].run # r
    BY <1>5, <2>2 DEF RecoveryFits
  <2>4. owners'[owners[q].source] = owners[owners[q].source]
    BY <1>1, <1>3, <2>2 DEF RecoveryFits, EligibleSource
  <2>5. QED
    BY <1>2, <2>1, <2>2, <2>3, <2>4, RecoveryStays
<1>16. QED
  BY <1>7, <1>8, <1>9, <1>10, <1>11, <1>12, <1>13, <1>14, <1>15

\* A recovery attempt ends: the claim goes back to the source owner, or is given
\* up with a confirmed restore.
Returned(src, r, res) ==
    /\ owners'[src] = owners[src]
    /\ claims'[res] = src
    /\ runs'[r].recovery \in {"eligible", "incomplete"}

Recovered(src, r, res) ==
    /\ owners'[src].state = "recovered"
    /\ owners'[src].kind = "tune" /\ owners'[src].source = None
    /\ owners'[src].run = r /\ owners'[src].res = res
    /\ claims'[res] = None
    /\ runs'[r].recovery = "confirmed"

LEMMA AttemptEndsRowInv ==
  ASSUME IInv, RowInv, NEW o \in Owner, HoldsClaim(o), owners[o].kind = "recovery",
         NEW src \in Owner, NEW r \in Run, NEW res \in Resource,
         owners[o].source = src, owners[o].run = r, owners[o].res = res,
         owners'[o].state = "released", owners'[o].kind = "recovery",
         owners'[o].run = r, owners'[o].res = res,
         \A q \in Owner : q # o /\ q # src => owners'[q] = owners[q],
         runs'[r].outcome = "failed", runs'[r].res = runs[r].res,
         \A x \in Run : x # r => runs'[x] = runs[x],
         \A x \in Resource : x # res => claims'[x] = claims[x],
         Returned(src, r, res) \/ Recovered(src, r, res)
  PROVE  RowInv'
<1> USE DEF RowInv
<1>1. /\ EligibleSource(src, r) /\ owners[src].res = res /\ owners[src].source = None
      /\ runs[r].recovery = "running" /\ owners[o].state = "active" /\ claims[res] = o
  BY DEF HoldsClaim, RecoveryRows, OwnerRows, EligibleSource
<1>2. src # o
  BY <1>1 DEF EligibleSource
<1>3. \A x \in Resource : /\ claims[x] \in Owner \cup {None}
                          /\ x # res => claims[x] # o /\ claims[x] # src
  BY <1>1, ConstantsAssumption DEF ClaimsFit, IInv, TypeOK
<1>4. \A q \in Owner : q # src /\ owners[q].kind = "tune" => owners[q].run # r
  BY <1>1 DEF OneTune, EligibleSource
<1>5. owners[src].kind = "tune" /\ owners[src].state = "orphaned" /\ owners[src].eligible
      /\ owners[src].run = r
  BY <1>1 DEF EligibleSource
<1>6. /\ owners'[src].kind = "tune" /\ owners'[src].run = r /\ owners'[src].res = res
      /\ owners'[src].source = None /\ owners'[src].state \in {"orphaned", "recovered"}
  BY <1>1, <1>5 DEF Returned, Recovered
<1>7. ClaimsFit'
  <2> SUFFICES ASSUME NEW x \in Resource, claims'[x] # None
               PROVE  /\ owners'[claims'[x]].res = x
                      /\ \/ owners'[claims'[x]].state = "active"
                         \/ /\ owners'[claims'[x]].state = "orphaned"
                            /\ owners'[claims'[x]].eligible
    BY DEF ClaimsFit
  <2>1. CASE x = res
    BY <1>1, <1>5, <2>1 DEF Returned, Recovered
  <2>2. CASE x # res
    <3>1. claims'[x] = claims[x] /\ owners'[claims[x]] = owners[claims[x]]
      BY <1>3, <2>2, ConstantsAssumption
    <3>2. QED
      BY <3>1 DEF ClaimsFit
  <2>3. QED
    BY <2>1, <2>2
<1>8. ActiveHolds'
  <2> SUFFICES ASSUME NEW q \in Owner, owners'[q].state = "active"
               PROVE  HoldsClaim(q)'
    BY DEF ActiveHolds
  <2>1. q # o /\ q # src /\ owners'[q] = owners[q]
    BY <1>6
  <2>2. HoldsClaim(q) /\ owners[q].res \in Resource
    BY <2>1 DEF ActiveHolds, HoldsClaim, IInv, TypeOK, OwnerRec
  <2>3. owners[q].res # res
    BY <1>1, <2>1, <2>2 DEF HoldsClaim
  <2>4. QED
    BY <2>1, <2>2, <2>3 DEF HoldsClaim
<1>9. OwnerRows'
  <2>1. runs'[r].res = res
    BY DEF OwnerRows
  <2>2. QED
    BY <1>6, <2>1 DEF OwnerRows
<1>10. OneTune'
  <2>1. \A q \in Owner : owners'[q].kind = owners[q].kind /\ owners'[q].run = owners[q].run
    BY <1>6, <1>5
  <2>2. QED
    BY <2>1 DEF OneTune
<1>11. EmptyRuns'
  BY DEF EmptyRuns
<1>12. ActiveTunes'
  <2> SUFFICES ASSUME NEW q \in Owner, owners'[q].kind = "tune", owners'[q].state = "active"
               PROVE  runs'[owners'[q].run].recovery = "none"
    BY DEF ActiveTunes
  <2>1. q # o /\ q # src /\ owners'[q] = owners[q]
    BY <1>6
  <2>2. owners[q].run # r /\ owners[q].run \in Run
    BY <1>4, <2>1 DEF OwnerRows
  <2>3. QED
    BY <2>1, <2>2 DEF ActiveTunes
<1>13. SourceRows'
  <2> SUFFICES ASSUME NEW q \in Owner, owners'[q].state = "orphaned", owners'[q].eligible
               PROVE  SourceFits(q)'
    BY DEF SourceRows, SourceFits
  <2>0. q # o
    OBVIOUS
  <2>1. CASE q = src
    <3>1. Returned(src, r, res)
      BY <2>1 DEF Recovered
    <3>2. owners'[src] = owners[src] /\ RecoveryEligible(src)
      BY <1>5, <3>1 DEF Returned, SourceRows
    <3>3. RecoveryEligible(src)'
      BY <3>2 DEF RecoveryEligible
    <3>4. QED
      BY <1>1, <1>5, <2>1, <3>1, <3>3 DEF SourceFits, Unresolved, Returned
  <2>2. CASE q # src
    <3>1. owners'[q] = owners[q]
      BY <2>0, <2>2
    <3>2. /\ owners[q].kind = "tune" /\ owners[q].run \in Run /\ owners[q].res \in Resource
          /\ claims[owners[q].res] \in Owner
      BY <3>1, SourceHeld
    <3>3. owners[q].res # res
      <4>1. owners[q].res = res =>
              claims[owners[q].res] = o /\ owners[o].source = src /\ o # q
        BY <1>1, <2>0
      <4>2. \/ claims[owners[q].res] = q
            \/ owners[claims[owners[q].res]].source = q
        BY <3>1 DEF SourceRows
      <4>3. QED
        BY <2>2, <4>1, <4>2
    <3>4. runs'[owners[q].run] = runs[owners[q].run]
      BY <1>4, <2>2, <3>2
    <3>5. claims'[owners[q].res] = claims[owners[q].res]
      BY <3>2, <3>3
    <3>6. owners'[claims[owners[q].res]] = owners[claims[owners[q].res]]
      BY <1>3, <3>2, <3>3
    <3>7. QED
      BY <3>1, <3>4, <3>5, <3>6, SourceStays
  <2>3. QED
    BY <2>1, <2>2
<1>14. HasSource'
  <2> SUFFICES ASSUME NEW x \in Run, runs'[x].recovery \in Unresolved
               PROVE  \E s \in Owner : EligibleSource(s, x)'
    BY DEF HasSource
  <2>1. CASE x = r
    <3>1. owners'[src] = owners[src]
      BY <2>1 DEF Unresolved, Returned, Recovered
    <3>2. EligibleSource(src, r)'
      BY <1>5, <3>1 DEF EligibleSource
    <3>3. QED
      BY <2>1, <3>2
  <2>2. CASE x # r
    <3>1. PICK s \in Owner : EligibleSource(s, x)
      BY <2>2 DEF HasSource
    <3>2. s # o /\ s # src
      BY <1>1, <1>5, <2>2, <3>1 DEF EligibleSource
    <3>3. QED
      BY <3>1, <3>2 DEF EligibleSource
  <2>3. QED
    BY <2>1, <2>2
<1>15. RecoveryRows'
  <2> SUFFICES ASSUME NEW q \in Owner, owners'[q].kind = "recovery", owners'[q].state = "active"
               PROVE  RecoveryFits(q)'
    BY DEF RecoveryRows, RecoveryFits
  <2>1. q # o /\ q # src /\ owners'[q] = owners[q]
    BY <1>6
  <2>2. RecoveryFits(q) /\ owners[q].run \in Run
    BY <2>1 DEF RecoveryRows, RecoveryFits, OwnerRows
  <2>3. owners[q].source # src
    <3>1. HoldsClaim(q)
      BY <2>1 DEF ActiveHolds
    <3>2. owners[q].source = src => owners[q].res = res
      BY <1>1, <2>2 DEF RecoveryFits
    <3>3. QED
      BY <1>1, <2>1, <3>1, <3>2 DEF HoldsClaim
  <2>4. owners[q].source # o /\ owners[q].source \in Owner
    BY <1>1, <2>2 DEF RecoveryFits, EligibleSource
  <2>5. owners[q].run # r
    BY <1>4, <2>2, <2>3, <2>4 DEF RecoveryFits, EligibleSource
  <2>6. owners'[owners[q].source] = owners[owners[q].source]
    BY <2>3, <2>4
  <2>7. QED
    BY <2>1, <2>2, <2>5, <2>6, RecoveryStays
<1>16. QED
  BY <1>7, <1>8, <1>9, <1>10, <1>11, <1>12, <1>13, <1>14, <1>15

\* A recovery attempt begins: it takes the claim from its source.
LEMMA AttemptStartsRowInv ==
  ASSUME IInv, RowInv, NEW o \in Owner, NEW src \in Owner, NEW r \in Run, NEW res \in Resource,
         owners[o].state = "absent", EligibleSource(src, r), owners[src].res = res,
         claims[res] = src, runs[r].recovery # "running", runs[r].outcome = "failed",
         owners'[o].state = "active", owners'[o].kind = "recovery", owners'[o].run = r,
         owners'[o].res = res, owners'[o].source = src, owners'[o].attempt = "running",
         owners'[o].base = owners[src].base, owners'[o].intent = owners[src].intent,
         \A q \in Owner : q # o => owners'[q] = owners[q],
         runs'[r].outcome = "failed", runs'[r].res = runs[r].res, runs'[r].recovery = "running",
         \A x \in Run : x # r => runs'[x] = runs[x],
         claims'[res] = o, \A x \in Resource : x # res => claims'[x] = claims[x]
  PROVE  RowInv'
<1> USE DEF RowInv
<1>1. /\ owners[src].kind = "tune" /\ owners[src].state = "orphaned" /\ owners[src].eligible
      /\ owners[src].run = r /\ src # o
  BY DEF EligibleSource
<1>2. \A x \in Resource : claims[x] \in Owner \cup {None} /\ claims[x] # o
  <2>1. \A x \in Resource : claims[x] = o => claims[x] # None
    BY ConstantsAssumption
  <2>2. QED
    BY <2>1 DEF ClaimsFit, IInv, TypeOK
<1>3. \A q \in Owner : q # src /\ owners[q].kind = "tune" => owners[q].run # r
  BY <1>1 DEF OneTune
<1>4. owners[o].kind = "none"
  BY DEF OwnerRows
<1>5. ClaimsFit'
  <2> SUFFICES ASSUME NEW x \in Resource, claims'[x] # None
               PROVE  /\ owners'[claims'[x]].res = x
                      /\ \/ owners'[claims'[x]].state = "active"
                         \/ /\ owners'[claims'[x]].state = "orphaned"
                            /\ owners'[claims'[x]].eligible
    BY DEF ClaimsFit
  <2>1. CASE x = res
    BY <2>1
  <2>2. CASE x # res
    <3>1. claims'[x] = claims[x] /\ owners'[claims[x]] = owners[claims[x]]
      BY <1>2, <2>2, ConstantsAssumption
    <3>2. QED
      BY <3>1 DEF ClaimsFit
  <2>3. QED
    BY <2>1, <2>2
<1>6. ActiveHolds'
  <2> SUFFICES ASSUME NEW q \in Owner, owners'[q].state = "active"
               PROVE  HoldsClaim(q)'
    BY DEF ActiveHolds
  <2>1. CASE q = o
    BY <2>1, ConstantsAssumption DEF HoldsClaim
  <2>2. CASE q # o
    <3>1. owners'[q] = owners[q] /\ HoldsClaim(q) /\ owners[q].res \in Resource
      BY <2>2 DEF ActiveHolds, HoldsClaim, IInv, TypeOK, OwnerRec
    <3>2. owners[q].res # res
      BY <1>1, <3>1 DEF HoldsClaim
    <3>3. QED
      BY <3>1, <3>2 DEF HoldsClaim
  <2>3. QED
    BY <2>1, <2>2
<1>7. OwnerRows'
  <2>1. runs'[r].res = res
    BY <1>1 DEF OwnerRows
  <2>2. \A x \in Run : /\ runs'[x].res = runs[x].res
                       /\ runs'[x].outcome = runs[x].outcome \/ runs'[x].outcome = "failed"
    OBVIOUS
  <2> SUFFICES ASSUME NEW q \in Owner
               PROVE  /\ owners'[q].state \in {"absent", "deleted"} =>
                            /\ owners'[q].kind = "none" /\ owners'[q].run = None
                            /\ owners'[q].step = "none"
                            /\ ~ owners'[q].eligible /\ ~ owners'[q].intent
                      /\ owners'[q].kind \in {"tune", "recovery"} => owners'[q].run \in Run
                      /\ owners'[q].run \in Run =>
                            runs'[owners'[q].run].outcome \notin {"absent", "deleted"}
                      /\ owners'[q].kind \in {"tune", "recovery"} =>
                            owners'[q].res = runs'[owners'[q].run].res
                      /\ owners'[q].kind # "recovery" => owners'[q].source = None
    BY DEF OwnerRows
  <2>3. CASE q = o
    BY <2>1, <2>3
  <2>4. CASE q # o
    BY <2>2, <2>4 DEF OwnerRows
  <2>5. QED
    BY <2>3, <2>4
<1>8. OneTune'
  BY DEF OneTune
<1>9. EmptyRuns'
  BY DEF EmptyRuns
<1>10. ActiveTunes'
  <2> SUFFICES ASSUME NEW q \in Owner, owners'[q].kind = "tune", owners'[q].state = "active"
               PROVE  runs'[owners'[q].run].recovery = "none"
    BY DEF ActiveTunes
  <2>1. q # o /\ q # src /\ owners'[q] = owners[q]
    BY <1>1
  <2>2. owners[q].run # r /\ owners[q].run \in Run
    BY <1>3, <2>1 DEF OwnerRows
  <2>3. QED
    BY <2>1, <2>2 DEF ActiveTunes
<1>11. SourceRows'
  <2> SUFFICES ASSUME NEW q \in Owner, owners'[q].state = "orphaned", owners'[q].eligible
               PROVE  SourceFits(q)'
    BY DEF SourceRows, SourceFits
  <2>1. owners'[q] = owners[q] /\ q # o
    OBVIOUS
  <2>2. CASE q = src
    <3>1. RecoveryEligible(src)
      BY <1>1 DEF SourceRows
    <3>2. RecoveryEligible(src)'
      BY <2>1, <2>2, <3>1 DEF RecoveryEligible
    <3>3. QED
      BY <1>1, <2>1, <2>2, <3>2, ConstantsAssumption DEF SourceFits, Unresolved
  <2>3. CASE q # src
    <3>1. /\ owners[q].kind = "tune" /\ owners[q].run \in Run /\ owners[q].res \in Resource
          /\ claims[owners[q].res] \in Owner
      BY <2>1, SourceHeld
    <3>2. owners[q].res # res
      BY <1>1, <2>1, <2>3 DEF SourceRows
    <3>3. runs'[owners[q].run] = runs[owners[q].run]
      BY <1>3, <2>3, <3>1
    <3>4. claims'[owners[q].res] = claims[owners[q].res]
      BY <3>1, <3>2
    <3>5. owners'[claims[owners[q].res]] = owners[claims[owners[q].res]]
      BY <1>2, <3>1
    <3>6. QED
      BY <2>1, <3>3, <3>4, <3>5, SourceStays
  <2>4. QED
    BY <2>2, <2>3
<1>12. HasSource'
  <2> SUFFICES ASSUME NEW x \in Run, runs'[x].recovery \in Unresolved
               PROVE  \E s \in Owner : EligibleSource(s, x)'
    BY DEF HasSource
  <2>1. CASE x = r
    BY <1>1, <2>1 DEF EligibleSource
  <2>2. CASE x # r
    <3>1. PICK s \in Owner : EligibleSource(s, x)
      BY <2>2 DEF HasSource
    <3>2. QED
      BY <3>1 DEF EligibleSource
  <2>3. QED
    BY <2>1, <2>2
<1>13. RecoveryRows'
  <2> SUFFICES ASSUME NEW q \in Owner, owners'[q].kind = "recovery", owners'[q].state = "active"
               PROVE  RecoveryFits(q)'
    BY DEF RecoveryRows, RecoveryFits
  <2>1. CASE q = o
    BY <1>1, <2>1 DEF RecoveryFits, EligibleSource
  <2>2. CASE q # o
    <3>1. owners'[q] = owners[q]
      BY <2>2
    <3>2. RecoveryFits(q) /\ owners[q].run \in Run
      BY <3>1 DEF RecoveryRows, RecoveryFits, OwnerRows
    <3>3. owners[q].run # r
      BY <3>2 DEF RecoveryFits
    <3>4. owners'[owners[q].source] = owners[owners[q].source]
      BY <3>2 DEF RecoveryFits, EligibleSource
    <3>5. QED
      BY <3>1, <3>2, <3>3, <3>4, RecoveryStays
  <2>3. QED
    BY <2>1, <2>2
<1>14. QED
  BY <1>5, <1>6, <1>7, <1>8, <1>9, <1>10, <1>11, <1>12, <1>13

\* Deletion spares every run whose recovery is not over.
LEMMA DeletedRowInv ==
  ASSUME IInv, RowInv, NEW S \in SUBSET Run, NEW gone \in SUBSET Owner,
         \A r \in S : runs[r].recovery \notin Unresolved,
         \A o \in Owner : o \in gone <=> owners[o].run \in S,
         \A o \in gone :
            /\ owners'[o].state = "deleted" /\ owners'[o].kind = "none" /\ owners'[o].run = None
            /\ owners'[o].step = "none" /\ ~ owners'[o].eligible /\ ~ owners'[o].intent
            /\ owners'[o].source = None,
         \A o \in Owner : o \notin gone => owners'[o] = owners[o],
         \A r \in S : /\ runs'[r].outcome = "deleted" /\ runs'[r].recovery = "none"
                      /\ runs'[r].restore = "none" /\ ~ runs'[r].results,
         \A r \in Run : r \notin S => runs'[r] = runs[r],
         \A x \in Resource : claims'[x] = IF claims[x] \in gone THEN None ELSE claims[x]
  PROVE  RowInv'
<1> USE DEF RowInv
<1>1. \A x \in Resource : claims[x] \in Owner \cup {None}
  BY DEF IInv, TypeOK
<1>2. ClaimsFit'
  <2> SUFFICES ASSUME NEW x \in Resource, claims'[x] # None
               PROVE  /\ owners'[claims'[x]].res = x
                      /\ \/ owners'[claims'[x]].state = "active"
                         \/ /\ owners'[claims'[x]].state = "orphaned"
                            /\ owners'[claims'[x]].eligible
    BY DEF ClaimsFit
  <2>1. claims'[x] = claims[x] /\ claims[x] \in Owner \ gone
    BY <1>1
  <2>2. QED
    BY <2>1 DEF ClaimsFit
<1>3. ActiveHolds'
  <2> SUFFICES ASSUME NEW q \in Owner, owners'[q].state = "active"
               PROVE  HoldsClaim(q)'
    BY DEF ActiveHolds
  <2>1. q \notin gone /\ owners'[q] = owners[q]
    OBVIOUS
  <2>2. HoldsClaim(q) /\ owners[q].res \in Resource
    BY <2>1 DEF ActiveHolds, HoldsClaim, IInv, TypeOK, OwnerRec
  <2>3. QED
    BY <2>1, <2>2 DEF HoldsClaim
<1>4. OwnerRows'
  BY ConstantsAssumption DEF OwnerRows
<1>5. OneTune'
  BY DEF OneTune
<1>6. EmptyRuns'
  BY DEF EmptyRuns
<1>7. ActiveTunes'
  BY DEF ActiveTunes, OwnerRows
<1>8. SourceRows'
  <2> SUFFICES ASSUME NEW q \in Owner, owners'[q].state = "orphaned", owners'[q].eligible
               PROVE  SourceFits(q)'
    BY DEF SourceRows, SourceFits
  <2>1. q \notin gone /\ owners'[q] = owners[q]
    OBVIOUS
  <2>2. /\ owners[q].kind = "tune" /\ owners[q].run \in Run /\ owners[q].res \in Resource
        /\ claims[owners[q].res] \in Owner
    BY <2>1, SourceHeld
  <2> DEFINE c == claims[owners[q].res]
  <2>3. c \notin gone
    <3>1. CASE c = q
      BY <2>1, <3>1
    <3>2. CASE c # q
      <4>1. runs[owners[q].run].recovery = "running" /\ owners[c].kind = "recovery"
            /\ owners[c].source = q
        BY <2>1, <3>2 DEF SourceRows
      <4>2. owners[c].state = "active"
        <5>1. c # None
          BY <2>2, ConstantsAssumption
        <5>2. owners[c].state = "orphaned" /\ owners[c].eligible => owners[c].kind = "tune"
          BY <2>2 DEF SourceRows
        <5>3. QED
          BY <2>2, <4>1, <5>1, <5>2 DEF ClaimsFit
      <4>3. owners[c].run = owners[q].run
        BY <2>2, <4>1, <4>2 DEF RecoveryRows, EligibleSource
      <4>4. QED
        BY <2>1, <2>2, <4>3
    <3>3. QED
      BY <3>1, <3>2
  <2>4. runs'[owners[q].run] = runs[owners[q].run]
    BY <2>1, <2>2
  <2>5. claims'[owners[q].res] = c /\ owners'[c] = owners[c]
    BY <2>2, <2>3
  <2>6. QED
    BY <2>1, <2>4, <2>5, SourceStays
<1>9. HasSource'
  <2> SUFFICES ASSUME NEW x \in Run, runs'[x].recovery \in Unresolved
               PROVE  \E s \in Owner : EligibleSource(s, x)'
    BY DEF HasSource
  <2>1. x \notin S /\ runs'[x] = runs[x]
    BY DEF Unresolved
  <2>2. PICK s \in Owner : EligibleSource(s, x)
    BY <2>1 DEF HasSource
  <2>3. s \notin gone
    BY <2>1, <2>2 DEF EligibleSource
  <2>4. QED
    BY <2>2, <2>3 DEF EligibleSource
<1>10. RecoveryRows'
  <2> SUFFICES ASSUME NEW q \in Owner, owners'[q].kind = "recovery", owners'[q].state = "active"
               PROVE  RecoveryFits(q)'
    BY DEF RecoveryRows, RecoveryFits
  <2>1. q \notin gone /\ owners'[q] = owners[q]
    OBVIOUS
  <2>2. RecoveryFits(q) /\ owners[q].run \in Run
    BY <2>1 DEF RecoveryRows, RecoveryFits, OwnerRows
  <2>3. owners[q].source \in Owner /\ owners[owners[q].source].run = owners[q].run
    BY <2>2 DEF RecoveryFits, EligibleSource
  <2>4. owners[q].run \notin S /\ owners[q].source \notin gone
    BY <2>1, <2>2, <2>3
  <2>5. QED
    BY <2>1, <2>2, <2>3, <2>4, RecoveryStays
<1>11. QED
  BY <1>2, <1>3, <1>4, <1>5, <1>6, <1>7, <1>8, <1>9, <1>10

-----------------------------------------------------------------------------
(* The actions that claim and settle *)

\* A run that has an owner is not being prepared.
LEMMA OwnedRun ==
  ASSUME CInv, NEW p \in Proc, NEW x \in Owner
  PROVE  ~ Prepared(p, owners[x].run)
  BY DEF CInv, Fresh, Prepared

\* The lock holder settles rows without touching who owns which run.
LEMMA SettleCInv ==
  ASSUME IInv, CInv, NEW p \in Proc, proc[p].pc \in Locking, NEW nw \in ProcRec, Go(p, nw),
         RowInv', nw.pc \in {"idle", "sweeping"}, nw.kind \in {"none", proc[p].kind},
         nw.kind # "none" => nw.run = proc[p].run,
         \A x \in Owner : owners'[x].run = owners[x].run,
         \A r \in Run : \/ runs'[r] = runs[r]
                        \/ /\ runs'[r].results = runs[r].results
                           /\ \E x \in Owner : owners[x].run = r
  PROVE  CInv'
<1>1. HolderFits(p, nw, owners')
  BY DEF HolderFits, Guarded, Wrote
<1>2. \A x \in Owner, r \in Run : owners'[x].run = r => ~ Prepared(p, r)
  BY OwnedRun
<1>3. \A r \in Run : (\E x \in Owner : owners[x].run = r) =>
                        runs[r].outcome # "deleted" /\ ~ Prepared(p, r)
  BY OwnedRun DEF CInv, RowInv, OwnerRows
<1>4. \A r \in Run : \/ runs'[r] = runs[r]
                     \/ /\ runs'[r].results = runs[r].results
                        /\ runs[r].outcome # "deleted" /\ ~ Prepared(p, r)
  BY <1>3
<1>5. QED
  BY <1>1, <1>2, <1>4, HolderCInv

LEMMA SweepNext ==
  ASSUME IInv, NEW p \in Proc, proc[p].pc = "exported"
  PROVE  LET nw == [proc[p] EXCEPT !.pc = "sweeping", !.own = None]
         IN  /\ nw \in ProcRec /\ nw.pc = "sweeping" /\ nw.kind = proc[p].kind
             /\ nw.run = proc[p].run
<1> DEFINE w == proc[p]
<1>1. w \in ProcRec
  BY DEF IInv, TypeOK
<1> HIDE DEF w
<1>2. LET nw == [w EXCEPT !.pc = "sweeping", !.own = None]
      IN  /\ nw \in ProcRec /\ nw.pc = "sweeping" /\ nw.kind = w.kind /\ nw.run = w.run
  BY <1>1, Zenon DEF ProcRec, PCs, Locking, Guarded
<1>3. QED
  BY <1>2 DEF w

LEMMA SweepOrphanCInv ==
  ASSUME IInv, CInv, NEW p \in Proc, SweepOrphan(p)
  PROVE  CInv'
<1> DEFINE o == proc[p].own
           v == owners[o]
           r == v.run
           b == runs[r]
           e == RecoveryEligible(o)
           fate == IF e THEN "eligible" ELSE "not_recoverable"
           nw == [proc[p] EXCEPT !.pc = "sweeping", !.own = None]
           nv == [v EXCEPT !.state = "orphaned", !.eligible = e]
           nr == [b EXCEPT !.outcome = "failed", !.restore = "incomplete", !.recovery = fate]
<1>1. /\ proc[p].pc = "exported" /\ Go(p, nw) /\ HoldsClaim(o)
      /\ v.kind = "tune" /\ b.outcome = "running"
      /\ owners' = [owners EXCEPT ![o] = nv]
      /\ runs' = [runs EXCEPT ![r] = nr]
      /\ claims' = IF e THEN claims ELSE [claims EXCEPT ![v.res] = None]
  BY Zenon DEF SweepOrphan, MarkOrphaned, Stale
<1>2. o \in Owner /\ v \in OwnerRec
  BY <1>1 DEF IInv, LocalsOK, LocalsFit, TypeOK
<1>3. r \in Run /\ b \in RunRec
  BY <1>1, <1>2 DEF CInv, RowInv, OwnerRows, IInv, TypeOK
<1>4. e \in BOOLEAN
  BY <1>2 DEF RecoveryEligible, OwnerRec
<1>5. /\ nw \in ProcRec /\ nw.pc = "sweeping" /\ nw.kind = proc[p].kind
      /\ nw.run = proc[p].run
  BY <1>1, SweepNext
<1>6. proc[p].pc \in Locking
  BY <1>1 DEF Locking
<1> DEFINE e2 == e
<1>7. e2 \in BOOLEAN /\ (e2 <=> RecoveryEligible(o)) /\ fate \in {"eligible", "not_recoverable"}
      /\ fate = IF e2 THEN "eligible" ELSE "not_recoverable"
  BY <1>4
<1>8. nv = [v EXCEPT !.state = "orphaned", !.eligible = e2]
  OBVIOUS
<1>9. claims' = IF e2 THEN claims ELSE [claims EXCEPT ![v.res] = None]
  BY <1>1
<1>10. v = owners[o] /\ r = owners[o].run /\ b = runs[r]
  OBVIOUS
<1> HIDE DEF e, e2, fate, nw, v, b, r
<1>11. /\ nv \in OwnerRec /\ nv.state = "orphaned" /\ (nv.eligible <=> e2)
       /\ nv.kind = v.kind /\ nv.run = v.run /\ nv.res = v.res /\ nv.source = v.source
       /\ nv.intent = v.intent /\ nv.step = v.step
  BY <1>2, <1>7, <1>8 DEF OwnerRec
<1>12. /\ nr \in RunRec /\ nr.outcome = "failed" /\ nr.res = b.res /\ nr.recovery = fate
       /\ nr.results = b.results
  BY <1>3, <1>7 DEF RunRec, Terminal, Unresolved
<1> HIDE DEF nv, nr
<1>13. RowInv'
  <2>1. Fate(e2, o, nr)
    BY <1>7, <1>9, <1>10, <1>12 DEF Fate
  <2>2. QED
    BY <1>1, <1>2, <1>7, <1>10, <1>11, <1>12, <2>1, OrphanRowInv DEF CInv
<1>14. \A x \in Owner : owners'[x].run = owners[x].run
  BY <1>1, <1>2, <1>10, <1>11 DEF IInv, TypeOK
<1>15. \A x \in Run : \/ runs'[x] = runs[x]
                      \/ /\ runs'[x].results = runs[x].results
                         /\ \E y \in Owner : owners[y].run = x
  BY <1>1, <1>2, <1>3, <1>10, <1>12 DEF IInv, TypeOK
<1>16. QED
  BY <1>1, <1>5, <1>6, <1>13, <1>14, <1>15, SettleCInv

LEMMA SweepRetireCInv ==
  ASSUME IInv, CInv, NEW p \in Proc, SweepRetire(p)
  PROVE  CInv'
<1> DEFINE o == proc[p].own
           v == owners[o]
           nw == [proc[p] EXCEPT !.pc = "sweeping", !.own = None]
           nv == [v EXCEPT !.state = "orphaned", !.eligible = FALSE]
<1>1. /\ proc[p].pc = "exported" /\ Go(p, nw) /\ HoldsClaim(o)
      /\ owners[o].kind # "recovery"
      /\ owners' = [owners EXCEPT ![o] = nv] /\ UNCHANGED runs
      /\ claims' = [claims EXCEPT ![owners[o].res] = None]
  BY DEF SweepRetire, MarkOrphanedUnrecoverable, Stale
<1>2. o \in Owner /\ v \in OwnerRec
  BY <1>1 DEF IInv, LocalsOK, LocalsFit, TypeOK
<1>3. /\ nw \in ProcRec /\ nw.pc = "sweeping" /\ nw.kind = proc[p].kind
      /\ nw.run = proc[p].run
  BY <1>1, SweepNext
<1>4. proc[p].pc \in Locking
  BY <1>1 DEF Locking
<1>5. v = owners[o]
  OBVIOUS
<1> HIDE DEF nw, v
<1>6. /\ nv \in OwnerRec /\ nv.state = "orphaned" /\ ~ nv.eligible
      /\ nv.kind = v.kind /\ nv.run = v.run /\ nv.res = v.res /\ nv.source = v.source
  BY <1>2 DEF OwnerRec
<1> HIDE DEF nv
<1>7. RowInv'
  BY <1>1, <1>2, <1>5, <1>6, OwnerEndsRowInv DEF CInv
<1>8. \A x \in Owner : owners'[x].run = owners[x].run
  BY <1>1, <1>2, <1>5, <1>6 DEF IInv, TypeOK
<1>9. \A x \in Run : runs'[x] = runs[x]
  BY <1>1
<1>10. QED
  BY <1>1, <1>3, <1>4, <1>7, <1>8, <1>9, SettleCInv

LEMMA ReleaseCInv ==
  ASSUME IInv, CInv, NEW p \in Proc, Release(p)
  PROVE  CInv'
<1> DEFINE o == proc[p].own
           v == owners[o]
           nv == [v EXCEPT !.state = "released"]
<1>1. /\ proc[p].pc \in {"releasing", "active"} /\ Go(p, NoOperation) /\ HoldsClaim(o)
      /\ proc[p].pc = "active" => proc[p].kind = "pid"
      /\ owners' = [owners EXCEPT ![o] = nv] /\ UNCHANGED runs
      /\ claims' = [claims EXCEPT ![owners[o].res] = None]
  BY DEF Release, CanRelease
<1>2. /\ o \in Owner /\ v \in OwnerRec /\ proc[p].pc \in Guarded
      /\ proc[p].kind # "recovery"
  BY <1>1 DEF IInv, LocalsOK, LocalsFit, TypeOK, Guarded
<1>3. owners[o].kind # "recovery"
  BY <1>1, <1>2 DEF CInv, GuardRows, HoldsClaim
<1>4. /\ NoOperation \in ProcRec /\ NoOperation.pc = "idle" /\ NoOperation.kind = "none"
      /\ proc[p].pc \in Locking
  BY <1>2, RestTypes, GuardedLocks
<1>5. v = owners[o]
  OBVIOUS
<1> HIDE DEF v
<1>6. /\ nv \in OwnerRec /\ nv.state = "released"
      /\ nv.kind = v.kind /\ nv.run = v.run /\ nv.res = v.res /\ nv.source = v.source
  BY <1>2 DEF OwnerRec
<1> HIDE DEF nv
<1>7. RowInv'
  BY <1>1, <1>2, <1>3, <1>5, <1>6, OwnerEndsRowInv DEF CInv
<1>8. \A x \in Owner : owners'[x].run = owners[x].run
  BY <1>1, <1>2, <1>5, <1>6 DEF IInv, TypeOK
<1>9. \A x \in Run : runs'[x] = runs[x]
  BY <1>1
<1>10. QED
  BY <1>1, <1>4, <1>7, <1>8, <1>9, SettleCInv

LEMMA SweepAbandonCInv ==
  ASSUME IInv, CInv, NEW p \in Proc, SweepAbandon(p)
  PROVE  CInv'
<1> DEFINE o == proc[p].own
           v == owners[o]
           r == v.run
           b == runs[r]
           src == v.source
           res == v.res
           nw == [proc[p] EXCEPT !.pc = "sweeping", !.own = None]
           nv == [v EXCEPT !.state = "released", !.attempt = "incomplete"]
           nr == [b EXCEPT !.restore = "incomplete", !.recovery = "incomplete"]
<1>1. /\ proc[p].pc = "exported" /\ Go(p, nw) /\ HoldsClaim(o) /\ v.kind = "recovery"
      /\ b.outcome = "failed"
      /\ owners' = [owners EXCEPT ![o] = nv]
      /\ runs' = [runs EXCEPT ![r] = nr]
      /\ claims' = [claims EXCEPT ![res] = src]
  BY Zenon DEF SweepAbandon, AbandonAfterRestart, AbandonAccepts, Stale
<1>2. o \in Owner /\ v \in OwnerRec /\ proc[p].pc \in Locking
  BY <1>1 DEF IInv, LocalsOK, LocalsFit, TypeOK, Locking
<1>3. /\ r \in Run /\ b \in RunRec /\ src \in Owner /\ src # o /\ res \in Resource
      /\ v.state = "active"
  BY <1>1, <1>2 DEF CInv, RowInv, OwnerRows, RecoveryRows, EligibleSource, HoldsClaim,
                    IInv, TypeOK, OwnerRec
<1>4. /\ nw \in ProcRec /\ nw.pc = "sweeping" /\ nw.kind = proc[p].kind
      /\ nw.run = proc[p].run
  BY <1>1, SweepNext
<1>5. v = owners[o] /\ r = owners[o].run /\ b = runs[r] /\ src = owners[o].source
      /\ res = owners[o].res
  OBVIOUS
<1> HIDE DEF nw, v, r, b, src, res
<1>6. nv.state = "released" /\ nv.kind = v.kind /\ nv.run = v.run /\ nv.res = v.res
  BY <1>2 DEF OwnerRec
<1>7. /\ nr.recovery = "incomplete" /\ nr.outcome = b.outcome /\ nr.res = b.res
      /\ nr.results = b.results
  BY <1>3 DEF RunRec
<1> HIDE DEF nv, nr
<1>8. owners'[o] = nv /\ \A q \in Owner : q # o => owners'[q] = owners[q]
  BY <1>1, <1>2 DEF IInv, TypeOK
<1>9. runs'[r] = nr /\ \A x \in Run : x # r => runs'[x] = runs[x]
  BY <1>1, <1>3 DEF IInv, TypeOK
<1>10. claims'[res] = src /\ \A x \in Resource : x # res => claims'[x] = claims[x]
  BY <1>1, <1>3 DEF IInv, TypeOK
<1>11. Returned(src, r, res)
  BY <1>3, <1>7, <1>8, <1>9, <1>10, SMTT(30) DEF Returned
<1>12. RowInv'
  <2>1. RowInv
    BY DEF CInv
  <2>2. /\ o \in Owner /\ src \in Owner /\ r \in Run /\ res \in Resource
        /\ HoldsClaim(o) /\ owners[o].kind = "recovery"
        /\ owners[o].source = src /\ owners[o].run = r /\ owners[o].res = res
    BY <1>1, <1>2, <1>3, <1>5, Zenon
  <2>3. /\ owners'[o].state = "released" /\ owners'[o].kind = "recovery"
        /\ owners'[o].run = r /\ owners'[o].res = res
    BY <1>5, <1>6, <1>8, <2>2
  <2>4. \A q \in Owner : q # o /\ q # src => owners'[q] = owners[q]
    BY <1>8, Zenon
  <2>5. runs'[r].outcome = "failed" /\ runs'[r].res = runs[r].res
    BY <1>1, <1>5, <1>7, <1>9
  <2>6. \A x \in Run : x # r => runs'[x] = runs[x]
    BY <1>9, Zenon
  <2>7. \A x \in Resource : x # res => claims'[x] = claims[x]
    BY <1>10, Zenon
  <2>8. QED
    BY <1>11, <2>1, <2>2, <2>3, <2>4, <2>5, <2>6, <2>7, AttemptEndsRowInv, ZenonT(60)
<1>13. \A x \in Owner : owners'[x].run = owners[x].run
  BY <1>5, <1>6, <1>8
<1>14. \A x \in Run : \/ runs'[x] = runs[x]
                      \/ /\ runs'[x].results = runs[x].results
                         /\ \E y \in Owner : owners[y].run = x
  BY <1>2, <1>5, <1>7, <1>9
<1>15. QED
  BY <1>1, <1>2, <1>4, <1>12, <1>13, <1>14, SettleCInv, SMTT(30)

LEMMA CompleteAttemptCInv ==
  ASSUME IInv, CInv, NEW p \in Proc, NEW status \in {"failed", "incomplete", "confirmed"},
         proc[p].pc \in {"active", "completing"}, proc[p].kind = "recovery",
         CompleteAttempt(p, status)
  PROVE  CInv'
<1> DEFINE o == proc[p].own
           v == owners[o]
           r == proc[p].run
           b == runs[r]
           src == v.source
           s == owners[src]
           res == v.res
           back == IF status = "failed" THEN b.restore ELSE status
           next == IF status = "failed" THEN "eligible" ELSE status
           nv == [v EXCEPT !.state = "released", !.attempt = status]
           over == IF status = "confirmed" THEN "recovered" ELSE s.state
           kept == status # "confirmed"
           ns == [s EXCEPT !.state = over, !.eligible = kept]
           nr == [b EXCEPT !.recovery = next, !.restore = back]
           heir == IF status = "confirmed" THEN None ELSE src
<1>1. /\ Go(p, NoOperation) /\ HoldsClaim(o) /\ b.outcome = "failed" /\ EligibleSource(src, r)
      /\ owners' = [owners EXCEPT ![o] = nv, ![src] = ns]
      /\ runs' = [runs EXCEPT ![r] = nr]
      /\ claims' = [claims EXCEPT ![res] = heir]
  BY DEF CompleteAttempt
<1>2. /\ o \in Owner /\ v \in OwnerRec /\ proc[p].pc \in Locking
      /\ proc[p].pc \in Guarded /\ v.state = "active"
  BY <1>1 DEF IInv, LocalsOK, LocalsFit, TypeOK, Locking, Guarded, HoldsClaim
<1>3. v.kind = "recovery" /\ v.run = r
  BY <1>2, SMTT(30) DEF CInv, GuardRows
<1>4. /\ r \in Run /\ b \in RunRec /\ src \in Owner /\ src # o /\ res \in Resource
      /\ s \in OwnerRec
  BY <1>1, <1>2, <1>3, SMTT(30) DEF CInv, RowInv, OwnerRows, RecoveryRows, EligibleSource, HoldsClaim,
                    IInv, TypeOK, OwnerRec
<1>5. s.state = "orphaned" /\ s.eligible /\ s.kind = "tune" /\ s.run = r /\ s.res = res
      /\ s.source = None
  BY <1>1, <1>2, <1>3, <1>4 DEF EligibleSource, CInv, RowInv, RecoveryRows, OwnerRows
<1>6. v = owners[o] /\ r = owners[o].run /\ b = runs[r] /\ src = owners[o].source
      /\ res = owners[o].res /\ s = owners[src]
  BY <1>3
<1>7. NoOperation \in ProcRec /\ NoOperation.pc = "idle" /\ NoOperation.kind = "none"
  BY RestTypes
<1>8. /\ next \in {"eligible", "incomplete", "confirmed"}
      /\ next = "confirmed" <=> status = "confirmed"
      /\ kept \in BOOLEAN /\ (kept <=> status # "confirmed")
      /\ status = "confirmed" => over = "recovered" /\ heir = None
      /\ status # "confirmed" => over = s.state /\ heir = src
  OBVIOUS
<1> HIDE DEF v, r, b, src, s, res, back, next, over, kept, heir
<1>9. nv.state = "released" /\ nv.kind = v.kind /\ nv.run = v.run /\ nv.res = v.res
  BY <1>2 DEF OwnerRec
<1>10. /\ nr.recovery = next /\ nr.outcome = b.outcome /\ nr.res = b.res
       /\ nr.results = b.results
  BY <1>4 DEF RunRec
<1>11. /\ ns.state = over /\ ns.kind = s.kind /\ ns.run = s.run /\ ns.res = s.res
       /\ ns.source = s.source
  BY <1>4 DEF OwnerRec
<1>12. status # "confirmed" => ns = s
  BY <1>4, <1>5, <1>8 DEF OwnerRec
<1> HIDE DEF nv, nr, ns
<1>13. /\ owners'[o] = nv /\ owners'[src] = ns
       /\ \A q \in Owner : q # o /\ q # src => owners'[q] = owners[q]
  BY <1>1, <1>2, <1>4 DEF IInv, TypeOK
<1>14. runs'[r] = nr /\ \A x \in Run : x # r => runs'[x] = runs[x]
  BY <1>1, <1>4 DEF IInv, TypeOK
<1>15. claims'[res] = heir /\ \A x \in Resource : x # res => claims'[x] = claims[x]
  BY <1>1, <1>4 DEF IInv, TypeOK
<1>16. Returned(src, r, res) \/ Recovered(src, r, res)
  <2>1. CASE status = "confirmed"
    BY <1>5, <1>8, <1>10, <1>11, <1>13, <1>14, <1>15, <2>1 DEF Recovered
  <2>2. CASE status # "confirmed"
    BY <1>6, <1>8, <1>10, <1>12, <1>13, <1>14, <1>15, <2>2 DEF Returned
  <2>3. QED
    BY <2>1, <2>2
<1>17. RowInv'
  <2>1. /\ owners[o].kind = "recovery" /\ owners[o].source = src
        /\ owners[o].run = r /\ owners[o].res = res
        /\ owners'[o].state = "released" /\ owners'[o].kind = "recovery"
        /\ owners'[o].run = r /\ owners'[o].res = res
    BY <1>3, <1>6, <1>9, <1>13
  <2>2. runs'[r].outcome = "failed" /\ runs'[r].res = runs[r].res
    BY <1>1, <1>6, <1>10, <1>14
  <2>3. RowInv /\ HoldsClaim(o) /\ o \in Owner /\ src \in Owner /\ r \in Run /\ res \in Resource
    BY <1>1, <1>2, <1>4 DEF CInv
  <2>4. QED
    BY <1>13, <1>14, <1>15, <1>16, <2>1, <2>2, <2>3, AttemptEndsRowInv
<1>18. \A x \in Owner : owners'[x].run = owners[x].run
  BY <1>3, <1>5, <1>6, <1>9, <1>11, <1>13
<1>19. \A x \in Run : \/ runs'[x] = runs[x]
                      \/ /\ runs'[x].results = runs[x].results
                         /\ \E y \in Owner : owners[y].run = x
  BY <1>2, <1>6, <1>10, <1>14
<1>20. QED
  BY <1>1, <1>2, <1>7, <1>17, <1>18, <1>19, SettleCInv

\* The two steps that complete an attempt.
LEMMA RecoveryEndsCInv ==
  ASSUME IInv, CInv, NEW p \in Proc, RecoverySetupFails(p) \/ RecoveryComplete(p)
  PROVE  CInv'
<1>1. CASE RecoverySetupFails(p)
  BY <1>1, CompleteAttemptCInv DEF RecoverySetupFails
<1>2. CASE RecoveryComplete(p)
  <2> DEFINE status == IF proc[p].restored /\ proc[p].healthy THEN "confirmed"
                       ELSE "incomplete"
  <2>1. proc[p].pc = "completing" /\ CompleteAttempt(p, status)
    BY <1>2 DEF RecoveryComplete
  <2>2. proc[p].kind = "recovery"
    BY <2>1 DEF IInv, LocalsOK, LocalsFit
  <2>3. status \in {"failed", "incomplete", "confirmed"}
    OBVIOUS
  <2> HIDE DEF status
  <2>4. QED
    BY <2>1, <2>2, <2>3, CompleteAttemptCInv
<1>3. QED
  BY <1>1, <1>2

LEMMA RecoveryStartCInv ==
  ASSUME IInv, CInv, NEW p \in Proc, NEW src \in Owner, NEW o \in Owner, RecoveryStart(p, src, o)
  PROVE  CInv'
<1> DEFINE w == proc[p]
           r == w.run
           s == owners[src]
           b == runs[r]
           i == s.intent
           f == s.base
           res == s.res
           nw == [w EXCEPT !.pc = "active", !.own = o]
           nr == [b EXCEPT !.recovery = "running"]
           new == [NoOwnerRow EXCEPT
                     !.state = "active", !.kind = "recovery", !.run = r, !.res = res,
                     !.intent = i, !.base = f, !.source = src,
                     !.attempt = "running"]
<1>1. /\ w.pc = "rlocked" /\ Go(p, nw) /\ b.outcome = "failed"
      /\ b.recovery \in {"eligible", "incomplete"} /\ EligibleSource(src, r)
      /\ claims[res] = src /\ owners[o].state = "absent" /\ res = w.res
      /\ owners' = [owners EXCEPT ![o] = new] /\ claims' = [claims EXCEPT ![res] = o]
      /\ runs' = [runs EXCEPT ![r] = nr]
  BY DEF RecoveryStart, StartWithClaim, Recoverable
<1>2. /\ w \in ProcRec /\ w.kind = "recovery" /\ w.pc \in Locking /\ r \in Run
      /\ b \in RunRec /\ s \in OwnerRec /\ res \in Resource
  BY <1>1 DEF IInv, LocalsOK, LocalsFit, TypeOK, Locking, Guarded
<1>3. i \in BOOLEAN /\ f \in Owner \cup {None}
  BY <1>2 DEF OwnerRec
<1>4. w = proc[p] /\ r = w.run /\ s = owners[src] /\ b = runs[r] /\ res = owners[src].res
      /\ f = owners[src].base /\ i = owners[src].intent
  OBVIOUS
<1> HIDE DEF w, r, s, b, i, f, res
<1>5. /\ nw \in ProcRec /\ nw.pc = "active" /\ nw.own = o
      /\ nw.kind = w.kind /\ nw.run = w.run
  BY <1>2 DEF ProcRec, PCs, Locking, Guarded
<1>6. /\ nr.recovery = "running" /\ nr.outcome = b.outcome /\ nr.res = b.res
      /\ nr.results = b.results
  BY <1>2 DEF RunRec
<1>7. /\ new.state = "active" /\ new.kind = "recovery" /\ new.run = r /\ new.res = res
      /\ new.intent = i /\ new.base = f /\ new.source = src /\ new.attempt = "running"
  BY DEF NoOwnerRow
<1> HIDE DEF nw, nr, new
<1>8. owners'[o] = new /\ \A q \in Owner : q # o => owners'[q] = owners[q]
  BY <1>1 DEF IInv, TypeOK
<1>9. runs'[r] = nr /\ \A x \in Run : x # r => runs'[x] = runs[x]
  BY <1>1, <1>2 DEF IInv, TypeOK
<1>10. claims'[res] = o /\ \A x \in Resource : x # res => claims'[x] = claims[x]
  BY <1>1, <1>2 DEF IInv, TypeOK
<1>11. RowInv'
  <2>1. /\ owners'[o].state = "active" /\ owners'[o].kind = "recovery" /\ owners'[o].run = r
        /\ owners'[o].res = res /\ owners'[o].source = src /\ owners'[o].attempt = "running"
        /\ owners'[o].base = owners[src].base
    BY <1>4, <1>7, <1>8
  <2>2. owners'[o].intent = owners[src].intent
    BY <1>4, <1>7, <1>8
  <2>3. /\ runs'[r].outcome = "failed" /\ runs'[r].res = runs[r].res
        /\ runs'[r].recovery = "running" /\ runs[r].outcome = "failed"
        /\ runs[r].recovery # "running"
    BY <1>1, <1>4, <1>6, <1>9
  <2>4. RowInv /\ owners[src].res = res
    BY <1>4 DEF CInv
  <2>5. QED
    BY <1>1, <1>2, <1>8, <1>9, <1>10, <2>1, <2>2, <2>3, <2>4, AttemptStartsRowInv
<1>12. HolderFits(p, nw, owners')
  BY <1>2, <1>4, <1>5, <1>7, <1>8 DEF HolderFits, Wrote
<1>13. owners[src].run = r
  BY <1>1 DEF EligibleSource
<1>14. \A x \in Owner, y \in Run : owners'[x].run = y => ~ Prepared(p, y)
  BY <1>7, <1>8, <1>13, OwnedRun
<1>15. \A y \in Run : \/ runs'[y] = runs[y]
                      \/ /\ runs'[y].results = runs[y].results
                         /\ runs[y].outcome # "deleted" /\ ~ Prepared(p, y)
  BY <1>1, <1>4, <1>6, <1>9, <1>13, OwnedRun
<1>16. proc[p].pc \in Locking
  BY <1>2, <1>4
<1>17. QED
  BY <1>1, <1>5, <1>11, <1>12, <1>14, <1>15, <1>16, HolderCInv

LEMMA CreateAndClaimCInv ==
  ASSUME IInv, CInv, NEW p \in Proc, NEW o \in Owner, CreateAndClaim(p, o)
  PROVE  CInv'
<1> DEFINE w == proc[p]
           k == w.kind
           r == w.run
           res == w.res
           next == IF k = "tune" THEN "owned" ELSE "active"
           nw == [w EXCEPT !.own = o, !.pc = next]
           new == [NoOwnerRow EXCEPT !.state = "active", !.kind = k, !.run = r, !.res = res]
<1>1. /\ w \in ProcRec /\ w.pc = "locked" /\ Go(p, nw)
      /\ owners[o].state = "absent" /\ claims[res] = None
      /\ r # None => runs[r].outcome # "deleted"
      /\ owners' = [owners EXCEPT ![o] = new] /\ claims' = [claims EXCEPT ![res] = o]
      /\ UNCHANGED runs
  BY DEF CreateAndClaim, IInv, TypeOK
<1>2. /\ res \in Resource /\ k \in {"tune", "pid"} /\ w.pc \in Locking
      /\ k = "tune" => r \in Run
  BY <1>1 DEF IInv, LocalsOK, LocalsFit, CInv, StarterKinds, Locking
<1>3. r \in Run \cup {None} /\ next \in {"owned", "active"}
  BY <1>1 DEF ProcRec
<1>4. k = "tune" => /\ r \in Run /\ res = runs[r].res /\ runs[r].recovery = "none"
                    /\ \A q \in Owner : owners[q].run # r
  <2> SUFFICES ASSUME k = "tune"
               PROVE  /\ r \in Run /\ res = runs[r].res /\ runs[r].recovery = "none"
                      /\ \A q \in Owner : owners[q].run # r
    OBVIOUS
  <2>1. r \in Run /\ r # None
    BY <1>2, ConstantsAssumption
  <2>2. QED
    BY <1>1, <2>1 DEF CInv, Fresh
<1>5. r \in Run => /\ runs[r].outcome \notin {"absent", "deleted"}
                   /\ ~ Prepared(p, r)
  <2> SUFFICES ASSUME r \in Run
               PROVE  runs[r].outcome \notin {"absent", "deleted"} /\ ~ Prepared(p, r)
    OBVIOUS
  <2>1. r # None /\ runs[r].outcome # "deleted"
    BY <1>1, ConstantsAssumption
  <2>2. CASE k = "tune"
    BY <1>1, <2>1, <2>2 DEF CInv, Fresh, OneStarter, Prepared
  <2>3. CASE k = "pid"
    <3>1. runs[r].results
      BY <2>1, <2>3 DEF CInv, StarterKinds
    <3>2. runs[r].outcome # "absent"
      BY <3>1 DEF CInv, RowInv, EmptyRuns
    <3>3. ~ Prepared(p, r)
      BY <2>1, <3>1 DEF CInv, Fresh, Prepared
    <3>4. QED
      BY <2>1, <3>2, <3>3
  <2>4. QED
    BY <1>2, <2>2, <2>3
<1>6. w = proc[p] /\ k = w.kind /\ r = w.run
  OBVIOUS
<1> HIDE DEF w, k, r, res, next
<1>7. /\ nw \in ProcRec /\ nw.pc = next /\ nw.own = o /\ nw.kind = w.kind /\ nw.run = w.run
  BY <1>1, <1>3 DEF ProcRec, PCs, Locking, Guarded
<1>8. /\ new.state = "active" /\ new.kind = k /\ new.run = r /\ new.res = res
      /\ new.source = None
  BY DEF NoOwnerRow
<1>9. new \in OwnerRec
  BY <1>2, <1>3, RestTypes, ZenonT(60) DEF OwnerRec
<1> HIDE DEF nw, new
<1>10. owners'[o] = new /\ \A q \in Owner : q # o => owners'[q] = owners[q]
  BY <1>1 DEF IInv, TypeOK
<1>11. RowInv'
  <2>1. new.kind = "tune" =>
            /\ new.run \in Run /\ new.res = runs[new.run].res
            /\ runs[new.run].recovery = "none" /\ \A q \in Owner : owners[q].run # new.run
    BY <1>4, <1>8
  <2>2. new.run \in Run => runs[new.run].outcome \notin {"absent", "deleted"}
    BY <1>5, <1>8
  <2>3. /\ new.kind \in {"tune", "pid"} /\ new.res \in Resource /\ claims[new.res] = None
        /\ claims' = [claims EXCEPT ![new.res] = o] /\ RowInv
    BY <1>1, <1>2, <1>8 DEF CInv
  <2>4. QED
    BY <1>1, <1>8, <1>9, <2>1, <2>2, <2>3, ClaimRowInv
<1>12. HolderFits(p, nw, owners')
  BY <1>2, <1>3, <1>6, <1>7, <1>8, <1>10 DEF HolderFits, Wrote
<1>13. \A x \in Owner, y \in Run : owners'[x].run = y => ~ Prepared(p, y)
  BY <1>5, <1>8, <1>10, OwnedRun
<1>14. \A y \in Run : runs'[y] = runs[y]
  BY <1>1
<1>15. proc[p].pc \in Locking
  BY <1>2, <1>6
<1>16. QED
  BY <1>1, <1>7, <1>11, <1>12, <1>13, <1>14, <1>15, HolderCInv

LEMMA DeleteRunsCInv ==
  ASSUME IInv, CInv, NEW S \in SUBSET Run, \A r \in S : Deletable(r), DeleteRuns(S)
  PROVE  CInv'
<1> DEFINE gone == {o \in Owner : owners[o].run \in S /\ owners[o].state # "absent"}
           noRun == [NoRunRow EXCEPT !.outcome = "deleted"]
           noOwner == [NoOwnerRow EXCEPT !.state = "deleted"]
<1>1. /\ runs' = [r \in Run |-> IF r \in S THEN noRun ELSE runs[r]]
      /\ owners' = [o \in Owner |-> IF o \in gone THEN noOwner ELSE owners[o]]
      /\ claims' = [res \in Resource |-> IF claims[res] \in gone THEN None ELSE claims[res]]
      /\ UNCHANGED <<proc, lock, loop, exported>>
  BY DEF DeleteRuns
<1>2. /\ noRun.outcome = "deleted" /\ noRun.recovery = "none" /\ noRun.restore = "none"
      /\ ~ noRun.results
  BY DEF NoRunRow
<1>3. /\ noOwner.state = "deleted" /\ noOwner.kind = "none" /\ noOwner.run = None
      /\ noOwner.step = "none" /\ ~ noOwner.eligible /\ ~ noOwner.intent
      /\ noOwner.source = None
  BY DEF NoOwnerRow
<1>4. \A o \in Owner : o \in gone <=> owners[o].run \in S
  <2> SUFFICES ASSUME NEW o \in Owner, owners[o].run \in S
               PROVE  owners[o].state # "absent"
    OBVIOUS
  <2>1. owners[o].run # None
    BY ConstantsAssumption
  <2>2. QED
    BY <2>1 DEF CInv, RowInv, OwnerRows
<1>5. gone \in SUBSET Owner
  OBVIOUS
<1> HIDE DEF gone, noRun, noOwner
<1>6. /\ \A r \in Run : runs'[r] = IF r \in S THEN noRun ELSE runs[r]
      /\ \A o \in Owner : owners'[o] = IF o \in gone THEN noOwner ELSE owners[o]
  BY <1>1
<1>7. \A r \in S : runs[r].recovery \notin Unresolved
  BY DEF Deletable
<1>8. RowInv'
  <2>1. \A o \in gone :
            /\ owners'[o].state = "deleted" /\ owners'[o].kind = "none" /\ owners'[o].run = None
            /\ owners'[o].step = "none" /\ ~ owners'[o].eligible /\ ~ owners'[o].intent
            /\ owners'[o].source = None
    BY <1>3, <1>5, <1>6
  <2>2. \A o \in Owner : o \notin gone => owners'[o] = owners[o]
    BY <1>6
  <2>3. \A r \in S : /\ runs'[r].outcome = "deleted" /\ runs'[r].recovery = "none"
                     /\ runs'[r].restore = "none" /\ ~ runs'[r].results
    BY <1>2, <1>6
  <2>4. \A r \in Run : r \notin S => runs'[r] = runs[r]
    BY <1>6
  <2>5. \A x \in Resource : claims'[x] = IF claims[x] \in gone THEN None ELSE claims[x]
    BY <1>1
  <2>6. QED
    BY <1>4, <1>5, <1>7, <2>1, <2>2, <2>3, <2>4, <2>5, DeletedRowInv DEF CInv
<1>9. Fresh'
  <2> SUFFICES ASSUME NEW q \in Proc, proc[q].kind = "tune", proc[q].pc \in {"prepared", "locked"}
               PROVE  /\ \A x \in Owner : owners'[x].run # proc[q].run
                      /\ \/ runs'[proc[q].run].outcome = "deleted"
                         \/ /\ runs'[proc[q].run].outcome = "running"
                            /\ runs'[proc[q].run].res = proc[q].res
                            /\ runs'[proc[q].run].recovery = "none"
                            /\ runs'[proc[q].run].restore = "none"
                            /\ ~ runs'[proc[q].run].results
    BY <1>1 DEF Fresh
  <2>1. proc[q].run \in Run /\ proc[q].run # None
    BY ConstantsAssumption DEF IInv, LocalsOK, LocalsFit
  <2>2. \A x \in Owner : owners'[x].run # proc[q].run
    BY <1>3, <1>6, <2>1 DEF CInv, Fresh
  <2>3. runs'[proc[q].run].outcome = "deleted" \/ runs'[proc[q].run] = runs[proc[q].run]
    BY <1>2, <1>6, <2>1
  <2>4. QED
    BY <2>2, <2>3 DEF CInv, Fresh
<1>10. OneStarter' /\ ExportedFirst'
  BY <1>1 DEF CInv, OneStarter, ExportedFirst
<1>11. StarterKinds'
  BY <1>1, <1>2, <1>6 DEF CInv, StarterKinds
<1>12. \A q \in Proc : proc[q].pc \in Guarded /\ proc[q].kind = "recovery" =>
          owners'[proc[q].own] = owners[proc[q].own]
  <2> SUFFICES ASSUME NEW q \in Proc, proc[q].pc \in Guarded, proc[q].kind = "recovery"
               PROVE  owners'[proc[q].own] = owners[proc[q].own]
    OBVIOUS
  <2> DEFINE o == proc[q].own
  <2>1. o \in Owner /\ owners[o].kind = "recovery"
    BY DEF CInv, GuardRows, IInv, LocalsOK, LocalsFit
  <2>2. owners[o].state = "active"
    BY <2>1 DEF CInv, RowInv, OwnerRows, IInv, NoTakeover, HoldsClaim
  <2>3. runs[owners[o].run].recovery = "running"
    BY <2>1, <2>2 DEF CInv, RowInv, RecoveryRows
  <2>4. owners[o].run \notin S
    BY <1>7, <2>3 DEF Unresolved
  <2>5. QED
    BY <1>4, <1>6, <2>1, <2>4
<1>13. GuardRows'
  <2> SUFFICES ASSUME NEW q \in Proc, proc[q].pc \in Guarded
               PROVE  \/ /\ owners'[proc[q].own].state = "deleted"
                         /\ proc[q].kind # "recovery"
                         /\ proc[q].run \in Run => runs'[proc[q].run].outcome = "deleted"
                      \/ /\ owners'[proc[q].own].kind = proc[q].kind
                         /\ owners'[proc[q].own].run = proc[q].run
    BY <1>1 DEF GuardRows
  <2> DEFINE o == proc[q].own
  <2>1. o \in Owner
    BY DEF IInv, LocalsOK, LocalsFit
  <2>2. CASE owners[o].state = "deleted"
    <3>1. owners[o].run = None
      BY <2>1, <2>2 DEF CInv, RowInv, OwnerRows
    <3>2. owners'[o] = owners[o]
      BY <1>4, <1>6, <2>1, <3>1, ConstantsAssumption
    <3>3. proc[q].run \in Run /\ runs[proc[q].run].outcome = "deleted" =>
             runs'[proc[q].run].outcome = "deleted"
      BY <1>2, <1>6
    <3>4. QED
      BY <2>2, <3>2, <3>3 DEF CInv, GuardRows
  <2>3. CASE owners[o].state # "deleted"
    <3>1. owners[o].kind = proc[q].kind /\ owners[o].run = proc[q].run
      BY <2>3 DEF CInv, GuardRows
    <3>2. CASE o \in gone
      <4>1. owners[o].run \in S /\ owners'[o].state = "deleted"
        BY <1>3, <1>4, <1>6, <2>1, <3>2
      <4>2. runs'[proc[q].run].outcome = "deleted"
        BY <1>2, <1>6, <3>1, <4>1
      <4>3. proc[q].kind # "recovery"
        BY <1>12, <2>3, <4>1
      <4>4. QED
        BY <4>1, <4>2, <4>3
    <3>3. CASE o \notin gone
      BY <1>6, <2>1, <3>1, <3>3
    <3>4. QED
      BY <3>2, <3>3
  <2>4. QED
    BY <2>2, <2>3
<1>14. RecoveryWrote'
  <2> SUFFICES ASSUME NEW q \in Proc, Wrote(proc[q])
               PROVE  loop[proc[q].res] = owners'[proc[q].own].base
    BY <1>1 DEF RecoveryWrote, Wrote
  <2>1. proc[q].pc \in Guarded /\ proc[q].kind = "recovery"
    BY DEF Wrote, Guarded
  <2>2. QED
    BY <1>12, <2>1 DEF CInv, RecoveryWrote
<1>15. QED
  BY <1>8, <1>9, <1>10, <1>11, <1>13, <1>14 DEF CInv
LEMMA InitCInv == Init => CInv
<1> SUFFICES ASSUME Init PROVE CInv OBVIOUS
<1>1. \A p \in Proc : proc[p].pc = "down" /\ proc[p].kind = "none" /\ proc[p].own = None
  BY DEF Init, ProcDown, NoOperation
<1>2. \A r \in Run : /\ runs[r].outcome = "absent" /\ runs[r].restore = "none"
                     /\ runs[r].recovery = "none" /\ ~ runs[r].results
  BY DEF Init, NoRunRow
<1>3. \A o \in Owner : /\ owners[o].state = "absent" /\ owners[o].kind = "none"
                       /\ owners[o].run = None /\ owners[o].step = "none"
                       /\ ~ owners[o].eligible /\ ~ owners[o].intent
                       /\ owners[o].source = None
  BY DEF Init, NoOwnerRow
<1>4. \A res \in Resource : claims[res] = None
  BY DEF Init
<1>5. ClaimsFit /\ ActiveHolds /\ OneTune /\ EmptyRuns /\ ActiveTunes
  BY <1>2, <1>3, <1>4 DEF ClaimsFit, ActiveHolds, OneTune, EmptyRuns, ActiveTunes
<1>6. OwnerRows
  BY <1>3, ConstantsAssumption DEF OwnerRows
<1>7. SourceRows /\ HasSource /\ RecoveryRows
  BY <1>2, <1>3 DEF SourceRows, HasSource, RecoveryRows, Unresolved
<1>8. Fresh /\ OneStarter /\ StarterKinds
  BY <1>1 DEF Fresh, OneStarter, StarterKinds
<1>9. GuardRows /\ ExportedFirst /\ RecoveryWrote
  BY <1>1 DEF GuardRows, ExportedFirst, RecoveryWrote, Wrote, Guarded
<1>10. QED
  BY <1>5, <1>6, <1>7, <1>8, <1>9 DEF CInv, RowInv

LEMMA StutterCInv ==
  ASSUME IInv, CInv, UNCHANGED vars
  PROVE  CInv'
<1>1. UNCHANGED <<proc, runs, owners, claims, loop, exported>>
  BY DEF vars
<1>2. SameOwners
  BY <1>1 DEF SameOwners
<1>3. \A q \in Proc : MoveFits(proc[q], proc'[q])
  BY <1>1 DEF MoveFits
<1>4. ExportedFirst'
  BY <1>1 DEF CInv, ExportedFirst
<1>5. RecoveryWrote'
  BY <1>1, <1>2, WroteKept
<1>6. QED
  BY <1>1, <1>2, <1>3, <1>4, <1>5, SameCInv

LEMMA NextCInv == IInv /\ CInv /\ [Next]_vars => CInv'
<1> SUFFICES ASSUME IInv, CInv, [Next]_vars PROVE CInv' OBVIOUS
<1>1. CASE UNCHANGED vars
  BY <1>1, StutterCInv
<1>2. ASSUME NEW p \in Proc, Sweep(p) PROVE CInv'
  BY <1>2, StartupSweepsCInv, SweepOrphanCInv, SweepRetireCInv, SweepAbandonCInv,
     DroppedCInv, SweepExportCInv DEF Sweep
<1>3. ASSUME NEW p \in Proc, Tune(p) PROVE CInv'
  BY <1>3, StartRunCInv, PrepareFailsCInv, LockForTuneCInv, LockForWriteCInv,
     CreateAndClaimCInv, DroppedCInv, PersistIntentCInv, SetupFailsCInv,
     PersistResultsCInv DEF Tune
<1>4. ASSUME NEW p \in Proc, Write(p) PROVE CInv'
  BY <1>4, BeginWriteCInv, DriverReturnsCInv, FinishStepCInv, StopWithoutRestoreCInv
     DEF Write
<1>5. ASSUME NEW p \in Proc, Finish(p) PROVE CInv'
  BY <1>5, FinishTuneCInv, DroppedCInv, WriteBackErrorsCInv, ReleaseCInv DEF Finish
<1>6. ASSUME NEW p \in Proc, Recover(p) PROVE CInv'
  BY <1>6, RecoveryLockCInv, DroppedCInv, RecoveryStartCInv, RecoveryEndsCInv DEF Recover
<1>7. ASSUME NEW p \in Proc, Environment(p) PROVE CInv'
  BY <1>7, DroppedCInv, HeartbeatCInv, HeartbeatFailsCInv DEF Environment
<1>8. ASSUME Delete PROVE CInv'
  <2>1. ASSUME NEW r \in Run, HttpDelete(r) PROVE CInv'
    <3>1. {r} \in SUBSET Run /\ (\A x \in {r} : Deletable(x)) /\ DeleteRuns({r})
      BY <2>1 DEF HttpDelete
    <3>2. QED
      BY <3>1, DeleteRunsCInv
  <2>2. ASSUME NEW S \in SUBSET Run, RetentionSweep(S) PROVE CInv'
    BY <2>2, DeleteRunsCInv DEF RetentionSweep
  <2>3. QED
    BY <1>8, <2>1, <2>2 DEF Delete
<1>9. QED
  BY <1>1, <1>2, <1>3, <1>4, <1>5, <1>6, <1>7, <1>8, TickCInv DEF Next

\* Custody is kept whatever crashes, recovers and is deleted.
LEMMA Custodial == Spec => [](IInv /\ CInv)
<1>1. Init => IInv /\ CInv BY InitIInv, InitCInv
<1>2. IInv /\ CInv /\ [Next]_vars => (IInv /\ CInv)' BY NextIInv, NextCInv
<1> QED BY <1>1, <1>2, PTL DEF Spec

\* Whatever crashed, restarted, was refused or was deleted: an unresolved
\* recovery has exactly one eligible source, which holds the claim of its loop
\* or handed it to the running attempt, and no startup sweep meets a recovery
\* owner that it must refuse.
THEOREM RecoverableForever == Spec => []RecoveryStaysPossible
<1>1. IInv /\ CInv => RecoveryCustody
  <2> SUFFICES ASSUME IInv, CInv, NEW r \in Run, runs[r].recovery \in Unresolved
               PROVE  \E s \in Owner :
                         /\ {x \in Owner : EligibleSource(x, r)} = {s}
                         /\ owners[s].res = runs[r].res
                         /\ LET c == claims[runs[r].res]
                            IN  IF runs[r].recovery = "running"
                                THEN c # None /\ owners[c].source = s /\ HoldsClaim(c)
                                ELSE c = s
    BY DEF RecoveryCustody
  <2>1. PICK s \in Owner : EligibleSource(s, r)
    BY DEF CInv, RowInv, HasSource
  <2>2. {x \in Owner : EligibleSource(x, r)} = {s}
    BY <2>1 DEF CInv, RowInv, OneTune, EligibleSource
  <2>3. owners[s].res = runs[r].res /\ owners[s].res \in Resource
    BY <2>1 DEF EligibleSource, CInv, RowInv, OwnerRows, IInv, RunsHaveResource
  <2> DEFINE c == claims[runs[r].res]
  <2>4. CASE runs[r].recovery # "running"
    BY <2>1, <2>2, <2>3, <2>4 DEF CInv, RowInv, SourceRows, EligibleSource
  <2>5. CASE runs[r].recovery = "running"
    <3>1. c # None /\ owners[c].kind = "recovery" /\ owners[c].source = s
      BY <2>1, <2>3, <2>5 DEF CInv, RowInv, SourceRows, EligibleSource
    <3>2. c \in Owner
      BY <2>3, <3>1 DEF IInv, TypeOK
    <3>3. owners[c].state = "active"
      BY <2>3, <3>1, <3>2 DEF CInv, RowInv, ClaimsFit, SourceRows
    <3>4. HoldsClaim(c)
      BY <3>2, <3>3 DEF CInv, RowInv, ActiveHolds
    <3>5. QED
      BY <2>2, <2>3, <2>5, <3>1, <3>4
  <2>6. QED
    BY <2>4, <2>5
<1>2. IInv /\ CInv => SweepNeverRefuses
  <2> SUFFICES ASSUME IInv, CInv, NEW o \in Owner, Stale(o), owners[o].kind = "recovery"
               PROVE  AbandonAccepts(o)
    BY DEF SweepNeverRefuses
  <2> DEFINE src == owners[o].source
             r == owners[o].run
  <2>1. owners[o].state = "active" /\ r \in Run /\ r # None
    BY ConstantsAssumption DEF Stale, HoldsClaim, CInv, RowInv, OwnerRows
  <2>2. /\ runs[r].recovery = "running" /\ owners[o].attempt = "running" /\ src \in Owner
        /\ EligibleSource(src, r) /\ owners[src].res = owners[o].res
    BY <2>1 DEF CInv, RowInv, RecoveryRows
  <2>3. runs[r].outcome = "failed"
    BY <2>2 DEF CInv, RowInv, SourceRows, EligibleSource
  <2>4. {s \in Owner : EligibleSource(s, r)} = {src}
    BY <2>2 DEF CInv, RowInv, OneTune, EligibleSource
  <2>5. src # None
    BY <2>2, ConstantsAssumption
  <2>6. QED
    BY <2>1, <2>2, <2>3, <2>4, <2>5 DEF AbandonAccepts
<1>3. IInv /\ CInv => RecoveryStaysPossible
  BY <1>1, <1>2 DEF RecoveryStaysPossible
<1> QED BY <1>3, Custodial, PTL

-----------------------------------------------------------------------------
(* How recoveries are confirmed and owner rows retired *)

\* Only a finished recovery whose restore was confirmed confirms its run.
LEMMA ConfirmingStep ==
  ASSUME IInv, [Next]_vars, NEW r \in Run,
         runs'[r].recovery = "confirmed", runs[r].recovery # "confirmed"
  PROVE  \E p \in Proc : /\ RecoveryComplete(p) /\ proc[p].run = r
                         /\ CompleteAttempt(p, "confirmed")
                         /\ proc[p].restored
<1>1. runs \in [Run -> RunRec] /\ runs[r] \in RunRec
  BY DEF IInv, TypeOK
<1>2. runs' # runs
  OBVIOUS
<1>3. ~ UNCHANGED vars /\ ~ Tick
  BY <1>2 DEF vars, Tick
<1>4. ASSUME NEW p \in Proc, Sweep(p) PROVE FALSE
  <2>1. ~ SweepOrphan(p)
    <3> SUFFICES ASSUME SweepOrphan(p) PROVE FALSE
      BY SMTT(30)
    <3> DEFINE x == owners[proc[p].own].run
               next == IF RecoveryEligible(proc[p].own) THEN "eligible" ELSE "not_recoverable"
    <3>1. runs' = [runs EXCEPT ![x].outcome = "failed", ![x].restore = "incomplete",
                               ![x].recovery = next]
      BY Zenon DEF SweepOrphan, MarkOrphaned
    <3>2. next # "confirmed"
      BY SMTT(30)
    <3> HIDE DEF next, x
    <3>3. QED
      BY <1>1, <3>1, <3>2 DEF RunRec
  <2>2. ~ SweepAbandon(p)
    BY <1>1, ZenonT(60) DEF SweepAbandon, AbandonAfterRestart, RunRec
  <2>3. QED
    BY <1>2, <1>4, <2>1, <2>2 DEF Sweep, StartupSweeps, SweepExport, SweepRetire, SweepDone
<1>5. ASSUME NEW p \in Proc, Tune(p) PROVE FALSE
  <2>1. \A x \in Run, res \in Resource : ~ StartRun(p, x, res)
    BY <1>1 DEF StartRun, RunRec
  <2>2. ~ PrepareFails(p) /\ ~ PersistResults(p)
    BY <1>1 DEF PrepareFails, PersistResults, RunRec
  <2>3. QED
    BY <1>2, <1>5, <2>1, <2>2 DEF Tune, LockForTune, LockForWrite, CreateAndClaim,
       WriteRefused, PersistIntent, SetupFails
<1>6. ASSUME NEW p \in Proc, Write(p) PROVE FALSE
  BY <1>2, <1>6 DEF Write, BeginWrite, DriverReturns, FinishStep, StopWithoutRestore
<1>7. ASSUME NEW p \in Proc, Finish(p) PROVE FALSE
  <2>1. ~ FinishTune(p)
    <3> SUFFICES ASSUME FinishTune(p) PROVE FALSE
      OBVIOUS
    <3> DEFINE w == proc[p]
               b == runs[w.run]
               touched == owners[w.own].intent
               outs == {"failed"} \cup (IF ~ touched THEN {} ELSE {IF b.results THEN "completed"
                                                    ELSE "aborted"})
               rests == IF touched THEN {IF w.restored THEN "confirmed" ELSE "incomplete",
                                         b.restore} ELSE {b.restore}
    <3>1. PICK out \in outs, rest \in rests :
            runs' = [runs EXCEPT ![w.run].outcome = out, ![w.run].restore = rest]
      BY DEF FinishTune
    <3> HIDE DEF w, outs, rests
    <3>2. QED
      BY <1>1, <3>1 DEF RunRec
  <2>2. ~ WriteBackErrors(p)
    BY <1>1 DEF WriteBackErrors, RunRec
  <2>3. QED
    BY <1>2, <1>7, <2>1, <2>2 DEF Finish, FinishTuneLost, Release, ReleaseLost
<1>8. ASSUME NEW p \in Proc, Recover(p)
      PROVE  /\ RecoveryComplete(p) /\ proc[p].run = r
             /\ CompleteAttempt(p, "confirmed") /\ proc[p].restored
  <2>1. \A src, o \in Owner : ~ RecoveryStart(p, src, o)
    BY <1>1 DEF RecoveryStart, StartWithClaim, RunRec
  <2>2. \A status \in {"failed", "incomplete", "confirmed"} :
            CompleteAttempt(p, status) => status = "confirmed" /\ proc[p].run = r
    BY <1>1 DEF CompleteAttempt, RunRec
  <2>3. ~ RecoverySetupFails(p)
    BY <2>2 DEF RecoverySetupFails
  <2>4. RecoveryComplete(p)
    BY <1>2, <1>8, <2>1, <2>3 DEF Recover, RecoveryLock, RecoveryRefused, RecoveryLost
  <2>5. QED
    BY <2>2, <2>4 DEF RecoveryComplete
<1>9. ASSUME NEW p \in Proc, Environment(p) PROVE FALSE
  BY <1>2, <1>9 DEF Environment, StartupSkips, SweepStops, Heartbeat, HeartbeatFails, Crash,
     ExitProcess
<1>10. ~ Delete
  <2>1. ASSUME NEW S \in SUBSET Run, DeleteRuns(S) PROVE FALSE
    BY <1>1, <2>1 DEF DeleteRuns, NoRunRow, RunRec
  <2>2. QED
    BY <2>1 DEF Delete, HttpDelete, RetentionSweep
<1>11. QED
  BY <1>3, <1>4, <1>5, <1>6, <1>7, <1>8, <1>9, <1>10 DEF Next

\* An active owner row is settled by the process that guards it or by a startup
\* sweep that has exported it.
LEMMA RetiringStep ==
  ASSUME IInv, CInv, [Next]_vars, NEW o \in Owner, owners[o].state = "active",
         owners'[o].state \in {"orphaned", "released", "recovered"}
  PROVE  \E p \in Proc : /\ proc[p].own = o
                         /\ \/ proc[p].pc = "exported" /\ UNCHANGED exported
                            \/ proc[p].pc \in Guarded
<1>1. owners \in [Owner -> OwnerRec] /\ owners[o] \in OwnerRec
  BY DEF IInv, TypeOK
<1>2. owners' # owners
  OBVIOUS
<1>3. ~ UNCHANGED vars
  BY <1>2 DEF vars
<1>4. ~ Tick
  <2>1. Tick => owners'[o] \in {owners[o], [owners[o] EXCEPT !.age = @ + 1]}
    BY DEF Tick
  <2>2. QED
    BY <1>1, <2>1 DEF OwnerRec
<1>5. ASSUME NEW p \in Proc, Sweep(p)
      PROVE  proc[p].own = o /\ proc[p].pc = "exported" /\ UNCHANGED exported
  <2>1. SweepOrphan(p) \/ SweepRetire(p) \/ SweepAbandon(p)
    BY <1>2, <1>5 DEF Sweep, StartupSweeps, SweepExport, SweepDone
  <2>2. proc[p].pc = "exported" /\ UNCHANGED exported
    BY <2>1, SMTT(30) DEF SweepOrphan, SweepRetire, SweepAbandon
  <2>3. proc[p].own # o => owners'[o] = owners[o]
    BY <1>1, <2>1, ZenonT(60) DEF SweepOrphan, MarkOrphaned, SweepRetire, MarkOrphanedUnrecoverable,
       SweepAbandon, AbandonAfterRestart
  <2>4. QED
    BY <2>2, <2>3
<1>6. ASSUME NEW p \in Proc, Tune(p) PROVE FALSE
  <2>1. \A q \in Owner : ~ CreateAndClaim(p, q)
    <3> SUFFICES ASSUME NEW q \in Owner, CreateAndClaim(p, q) PROVE FALSE
      OBVIOUS
    <3>1. q # o
      BY DEF CreateAndClaim
    <3>2. owners'[o] = owners[o]
      BY <1>1, <3>1 DEF CreateAndClaim
    <3>3. QED
      BY <3>2
  <2>2. ~ PersistIntent(p)
    BY <1>1 DEF PersistIntent, OwnerRec
  <2>3. QED
    BY <1>2, <1>6, <2>1, <2>2, Zenon DEF Tune, StartRun, PrepareFails, LockForTune, LockForWrite,
       WriteRefused, SetupFails, PersistResults
<1>7. ASSUME NEW p \in Proc, Write(p) PROVE FALSE
  <2>1. \A goal \in {"perturb", "restore", "pid"} : ~ BeginWrite(p, goal)
    BY <1>1 DEF BeginWrite, OwnerRec
  <2>2. ~ FinishStep(p)
    <3>1. FinishStep(p) => \/ owners' = owners
                           \/ owners' = [owners EXCEPT ![proc[p].own].step = "finished"]
      BY DEF FinishStep
    <3>2. QED
      BY <1>1, <1>2, <3>1 DEF OwnerRec
  <2>3. QED
    BY <1>2, <1>7, <2>1, <2>2 DEF Write, DriverReturns, StopWithoutRestore
<1>8. ASSUME NEW p \in Proc, Finish(p) PROVE proc[p].own = o /\ proc[p].pc \in Guarded
  <2>1. Release(p)
    BY <1>2, <1>8 DEF Finish, FinishTune, FinishTuneLost, WriteBackErrors, ReleaseLost
  <2>2. proc[p].own = o
    BY <1>1, <2>1 DEF Release
  <2>3. QED
    BY <2>1, <2>2 DEF Release, CanRelease, Guarded
<1>9. ASSUME NEW p \in Proc, Recover(p) PROVE proc[p].own = o /\ proc[p].pc \in Guarded
  <2>1. \A src, q \in Owner : ~ RecoveryStart(p, src, q)
    <3> SUFFICES ASSUME NEW src \in Owner, NEW q \in Owner, RecoveryStart(p, src, q) PROVE FALSE
      OBVIOUS
    <3>1. q # o
      BY DEF RecoveryStart, StartWithClaim
    <3>2. owners'[o] = owners[o]
      BY <1>1, <3>1 DEF RecoveryStart, StartWithClaim
    <3>3. QED
      BY <3>2
  <2>2. RecoverySetupFails(p) \/ RecoveryComplete(p)
    BY <1>2, <1>9, <2>1 DEF Recover, RecoveryLock, RecoveryRefused, RecoveryLost
  <2>3. PICK status : CompleteAttempt(p, status)
    BY <2>2 DEF RecoverySetupFails, RecoveryComplete
  <2>4. proc[p].pc \in Guarded
    BY <2>2 DEF RecoverySetupFails, RecoveryComplete, Guarded
  <2>5. owners[owners[proc[p].own].source].state = "orphaned"
    BY <2>3 DEF CompleteAttempt, EligibleSource
  <2>6. o # owners[proc[p].own].source
    BY <2>5
  <2>7. proc[p].own # o => owners'[o] = owners[o]
    BY <1>1, <2>3, <2>6 DEF CompleteAttempt
  <2>8. QED
    BY <2>4, <2>7
<1>10. ASSUME NEW p \in Proc, Environment(p) PROVE FALSE
  <2>1. ~ Heartbeat(p)
    BY <1>1 DEF Heartbeat, OwnerRec
  <2>2. QED
    BY <1>2, <1>10, <2>1 DEF Environment, StartupSkips, SweepStops, HeartbeatFails, Crash,
       ExitProcess
<1>11. ~ Delete
  <2>1. ASSUME NEW S \in SUBSET Run, DeleteRuns(S) PROVE FALSE
    BY <1>1, <2>1 DEF DeleteRuns, NoOwnerRow
  <2>2. QED
    BY <2>1 DEF Delete, HttpDelete, RetentionSweep
<1>12. QED
  BY <1>3, <1>4, <1>5, <1>6, <1>7, <1>8, <1>9, <1>10, <1>11 DEF Next

\* A recovery is recorded as confirmed only by a step after which the loop
\* carries what it carried before the interrupted tune, and an owner row is
\* retired by its own process or with its evidence exported.
THEOREM RetirementEarned == Spec => RetirementIsEarned
<1>1. IInv /\ CInv /\ [Next]_vars =>
        [\A r \in Run, s \in Owner :
           /\ runs'[r].recovery = "confirmed"
           /\ runs[r].recovery # "confirmed"
           /\ EligibleSource(s, r)
           => loop'[owners[s].res] = owners[s].base]_vars
  <2> SUFFICES ASSUME IInv, CInv, [Next]_vars, NEW r \in Run, NEW s \in Owner,
                      runs'[r].recovery = "confirmed", runs[r].recovery # "confirmed",
                      EligibleSource(s, r)
               PROVE  loop'[owners[s].res] = owners[s].base
    OBVIOUS
  <2>1. PICK p \in Proc : /\ RecoveryComplete(p) /\ proc[p].run = r
                          /\ CompleteAttempt(p, "confirmed") /\ proc[p].restored
    BY ConfirmingStep
  <2> DEFINE o == proc[p].own
  <2>2. /\ proc[p].pc = "completing" /\ UNCHANGED loop
        /\ HoldsClaim(o)
    BY <2>1 DEF RecoveryComplete, CompleteAttempt
  <2>3. proc[p].kind = "recovery" /\ o \in Owner
    BY <2>2 DEF IInv, LocalsOK, LocalsFit, Guarded
  <2>4. owners[o].kind = "recovery" /\ owners[o].run = r /\ owners[o].state = "active"
    BY <2>1, <2>2, <2>3 DEF CInv, GuardRows, HoldsClaim, Guarded
  <2>5. /\ owners[o].source \in Owner /\ EligibleSource(owners[o].source, r)
        /\ owners[owners[o].source].res = owners[o].res
        /\ owners[owners[o].source].base = owners[o].base
    BY <2>3, <2>4 DEF CInv, RowInv, RecoveryRows
  <2>6. owners[o].source = s
    BY <2>5 DEF CInv, RowInv, OneTune, EligibleSource
  <2>7. owners[o].res = proc[p].res
    BY <2>2, <2>4 DEF IInv, NoTakeover, Guarded
  <2>8. loop[proc[p].res] = owners[o].base
    BY <2>1, <2>2, <2>3 DEF CInv, RecoveryWrote, Wrote
  <2>9. QED
    BY <2>2, <2>5, <2>6, <2>7, <2>8
<1>2. IInv /\ CInv /\ [Next]_vars =>
        [\A o \in Owner :
           /\ owners[o].state = "active"
           /\ owners'[o].state \in {"orphaned", "released", "recovered"}
           /\ ~ \E p \in Proc : proc[p].own = o /\ proc[p].pc \in Guarded
           => o \in exported']_vars
  BY RetiringStep DEF CInv, ExportedFirst
<1>3. Spec => ConfirmedMeansRestored
  BY <1>1, Custodial, PTL DEF Spec, ConfirmedMeansRestored
<1>4. Spec => ExportBeforeRetirement
  BY <1>2, Custodial, PTL DEF Spec, ExportBeforeRetirement
<1> QED BY <1>3, <1>4 DEF RetirementIsEarned

-----------------------------------------------------------------------------
(* Perturbations: KInv holds while no history is deleted.                    *)

NothingDeleted == \A o \in Owner : owners[o].state # "deleted"

\* A tune that is over, without a confirmed restore, and not up for recovery.
Settled(o) ==
    /\ owners[o].kind = "tune"
    /\ owners[o].state \in {"released", "orphaned"}
    /\ owners[o].state = "orphaned" => ~ owners[o].eligible
    /\ runs[owners[o].run].outcome \in Terminal
    /\ runs[owners[o].run].restore # "confirmed"

\* The locals of a tune under its guard, with its owner row v, its run row b and
\* what its loop carries: the rows show how far it has got, and a restore that it
\* holds for confirmed has put back the base.
TuneFits(w, v, b, l) ==
    LET begun == w.pc \in {"active", "writing", "written"}
        ended == w.pc = "releasing" \/ (w.pc \in {"writing", "written"} /\ w.goal = "pid")
    IN  /\ begun => v.intent
        /\ w.pc = "owned" => ~ v.intent /\ v.step = "none"
        /\ w.pc \in {"writing", "written"} => v.step # "none"
        /\ ended => b.outcome \in Terminal /\ (b.outcome = "completed" => v.intent)
        /\ ~ ended => b.outcome = "running" /\ b.restore = "none"
        /\ w.pc = "written" /\ w.goal = "restore" /\ w.ok => l = v.base
        /\ w.pc = "finishing" /\ w.restored /\ v.intent => l = v.base

TuneGuards ==
    \A p \in Proc :
        proc[p].pc \in Guarded /\ proc[p].kind = "tune" =>
            TuneFits(proc[p], owners[proc[p].own], runs[proc[p].run], loop[proc[p].res])

StepsNeedIntent ==
    \A o \in Owner : owners[o].kind = "tune" /\ owners[o].step # "none" => owners[o].intent

NeverWrote ==
    \A o \in Owner :
        owners[o].kind = "tune" /\ runs[owners[o].run].recovery = "not_recoverable"
        => owners[o].step = "none"

\* What a tune o finds on loop res is None or another tune that is over.
Before(o, res, b) ==
    /\ b # o
    /\ owners[b].res = res
    /\ RecoveryEligible(b)
    /\ Settled(b)

Bases ==
    \A o \in Owner :
        owners[o].intent /\ owners[o].base # None => Before(o, owners[o].res, owners[o].base)

\* The claim c of a loop is held for the tune o.
HeldFor(c, ow, o) ==
    \/ c = o
    \/ c # None /\ ow[c].kind = "recovery" /\ ow[c].source = o

Perturbed ==
    \A res \in Resource :
        loop[res] # None =>
            /\ owners[loop[res]].kind = "tune"
            /\ owners[loop[res]].res = res
            /\ RecoveryEligible(loop[res])
            /\ HeldFor(claims[res], owners, loop[res]) \/ Settled(loop[res])

ConfirmedClean ==
    \A o \in Owner :
        owners[o].kind = "tune" /\ runs[owners[o].run].restore = "confirmed"
        => \A res \in Resource : loop[res] # o

KInv ==
    /\ NothingDeleted
    /\ TuneGuards
    /\ StepsNeedIntent
    /\ NeverWrote
    /\ Bases
    /\ Perturbed
    /\ ConfirmedClean

-----------------------------------------------------------------------------
(* KInv step by step: what keeps its parts *)

\* A guard's owner is active, is its own and holds the claim.
LEMMA GuardOwn ==
  ASSUME IInv, CInv, KInv, NEW p \in Proc, proc[p].pc \in Guarded
  PROVE  LET w == proc[p]
             v == owners[w.own]
         IN  /\ w.own \in Owner /\ w.res \in Resource /\ v.state = "active"
             /\ v.kind = w.kind /\ v.run = w.run /\ v.res = w.res
             /\ claims[w.res] = w.own
  BY DEF IInv, LocalsOK, LocalsFit, CInv, GuardRows, KInv, NothingDeleted, NoTakeover, HoldsClaim

\* The step of p leaves the rows and the loop of the other guards alone.
OthersFit(p) ==
    \/ proc[p].pc \in Locking
    \/ lock = None
    \/ /\ UNCHANGED <<owners, loop>>
       /\ \A q \in Proc : q # p /\ proc[q].kind = "tune" =>
             runs'[proc[q].run] = runs[proc[q].run]

LEMMA TuneGuardsKept ==
  ASSUME IInv, KInv, NEW p \in Proc, NEW nw \in ProcRec, Go(p, nw), OthersFit(p),
         nw.pc \in Guarded /\ nw.kind = "tune" =>
            TuneFits(nw, owners'[nw.own], runs'[nw.run], loop'[nw.res])
  PROVE  TuneGuards'
<1> SUFFICES ASSUME NEW q \in Proc, proc'[q].pc \in Guarded, proc'[q].kind = "tune"
             PROVE  TuneFits(proc'[q], owners'[proc'[q].own], runs'[proc'[q].run],
                             loop'[proc'[q].res])
  BY DEF TuneGuards
<1>1. proc'[p] = nw /\ (q # p => proc'[q] = proc[q])
  BY GoEffect DEF IInv
<1>2. CASE q = p
  BY <1>1, <1>2
<1>3. CASE q # p
  <2>1. proc[q].pc \in Locking /\ lock = q /\ proc[p].pc \notin Locking
    BY <1>1, <1>3, GuardedLocks, Alone DEF IInv
  <2>2. lock # None
    BY <2>1, ConstantsAssumption
  <2>3. UNCHANGED <<owners, loop>> /\ runs'[proc[q].run] = runs[proc[q].run]
    BY <1>1, <1>3, <2>1, <2>2 DEF OthersFit
  <2>4. TuneFits(proc[q], owners[proc[q].own], runs[proc[q].run], loop[proc[q].res])
    BY <1>1, <1>3 DEF KInv, TuneGuards
  <2>5. QED
    BY <1>1, <1>3, <2>3, <2>4
<1>4. QED
  BY <1>2, <1>3

\* A process outside every guard leaves the guards alone.
LEMMA UnguardedFits ==
  ASSUME IInv, KInv, NEW p \in Proc, NEW nw \in ProcRec, Go(p, nw), OthersFit(p),
         nw.pc \notin Guarded \/ nw.kind # "tune"
  PROVE  TuneGuards'
  BY TuneGuardsKept

\* What a step keeps of an owner row for good: what it is, that it can be
\* recovered and that it is over.
Keeps ==
    \A o \in Owner :
        /\ owners[o].kind # "none" =>
              owners'[o].kind = owners[o].kind /\ owners'[o].res = owners[o].res
        /\ RecoveryEligible(o) => RecoveryEligible(o)'
        /\ Settled(o) => Settled(o)'

LEMMA BaseType ==
  ASSUME IInv, NEW o \in Owner, owners[o].base # None
  PROVE  owners[o].base \in Owner
  BY DEF IInv, TypeOK, OwnerRec

LEMMA BeforeKept ==
  ASSUME Keeps, NEW o \in Owner, NEW res, NEW b \in Owner, Before(o, res, b)
  PROVE  /\ b # o /\ owners'[b].res = res /\ RecoveryEligible(b)' /\ Settled(b)'
  BY DEF Keeps, Before, Settled

LEMMA BasesKept ==
  ASSUME IInv, IInv', Keeps,
         \A o \in Owner : owners'[o].intent /\ owners'[o].base # None =>
             Before(o, owners'[o].res, owners'[o].base)
  PROVE  Bases'
<1> SUFFICES ASSUME NEW o \in Owner, owners'[o].intent, owners'[o].base # None
             PROVE  Before(o, owners[o].res, owners[o].base)'
  BY DEF Bases
<1>1. PICK b \in Owner : b = owners'[o].base
  BY DEF IInv, TypeOK, OwnerRec
<1>2. Before(o, owners'[o].res, b)
  BY <1>1
<1>3. b # o /\ owners'[b].res = owners'[o].res /\ RecoveryEligible(b)' /\ Settled(b)'
  BY <1>2, BeforeKept
<1>4. RecoveryEligible(owners[o].base)' /\ Settled(owners[o].base)'
  BY <1>1, <1>3 DEF RecoveryEligible, Settled
<1>5. QED
  BY <1>1, <1>3, <1>4 DEF Before

\* The owner rows agree in everything but their age.
AgedOnly ==
    \A o \in Owner :
        /\ owners'[o].state = owners[o].state /\ owners'[o].kind = owners[o].kind
        /\ owners'[o].run = owners[o].run /\ owners'[o].res = owners[o].res
        /\ owners'[o].eligible = owners[o].eligible /\ owners'[o].source = owners[o].source
        /\ owners'[o].intent = owners[o].intent /\ owners'[o].step = owners[o].step
        /\ owners'[o].base = owners[o].base

LEMMA AgedRows ==
  ASSUME AgedOnly, UNCHANGED runs
  PROVE  \A o \in Owner : (RecoveryEligible(o)' <=> RecoveryEligible(o))
                          /\ (Settled(o)' <=> Settled(o))
  BY DEF AgedOnly, RecoveryEligible, Settled

\* The claims keep whom they are held for while the owner rows only age.
LEMMA PerturbedKept ==
  ASSUME IInv, KInv, Keeps, UNCHANGED loop,
         \A res \in Resource : loop[res] # None =>
             HeldFor(claims'[res], owners', loop[res]) \/ Settled(loop[res])'
  PROVE  Perturbed'
<1> SUFFICES ASSUME NEW res \in Resource, loop[res] # None
             PROVE  /\ owners'[loop[res]].kind = "tune"
                    /\ owners'[loop[res]].res = res
                    /\ RecoveryEligible(loop[res])'
                    /\ HeldFor(claims'[res], owners', loop[res]) \/ Settled(loop[res])'
  BY DEF Perturbed
<1>1. PICK o \in Owner : o = loop[res]
  BY DEF IInv, TypeOK
<1>2. owners[o].kind = "tune" /\ owners[o].res = res /\ RecoveryEligible(o)
  BY <1>1 DEF KInv, Perturbed
<1>3. owners'[o].kind = "tune" /\ owners'[o].res = res /\ RecoveryEligible(o)'
  BY <1>2 DEF Keeps
<1>4. QED
  BY <1>1, <1>3 DEF RecoveryEligible

LEMMA AgedKInv ==
  ASSUME IInv, IInv', KInv, AgedOnly, UNCHANGED <<runs, claims, loop>>, TuneGuards'
  PROVE  KInv'
<1>1. \A o \in Owner : (RecoveryEligible(o)' <=> RecoveryEligible(o))
                       /\ (Settled(o)' <=> Settled(o))
  BY AgedRows
<1>2. Keeps
  BY <1>1 DEF Keeps, AgedOnly
<1>3. NothingDeleted' /\ StepsNeedIntent' /\ NeverWrote' /\ ConfirmedClean'
  BY DEF KInv, NothingDeleted, StepsNeedIntent, NeverWrote, ConfirmedClean, AgedOnly
<1>4. Bases'
  <2>1. \A o \in Owner : owners'[o].intent /\ owners'[o].base # None =>
             Before(o, owners'[o].res, owners'[o].base)
    BY DEF KInv, Bases, AgedOnly
  <2>2. QED
    BY <1>2, <2>1, BasesKept
<1>5. Perturbed'
  <2>1. \A res \in Resource : loop[res] # None =>
             HeldFor(claims'[res], owners', loop[res]) \/ Settled(loop[res])'
    <3> SUFFICES ASSUME NEW res \in Resource, loop[res] # None
                 PROVE  HeldFor(claims'[res], owners', loop[res]) \/ Settled(loop[res])'
      OBVIOUS
    <3>1. loop[res] \in Owner /\ (claims[res] # None => claims[res] \in Owner)
      BY DEF IInv, TypeOK
    <3>2. HeldFor(claims[res], owners, loop[res]) \/ Settled(loop[res])
      BY DEF KInv, Perturbed
    <3>3. HeldFor(claims[res], owners, loop[res]) => HeldFor(claims'[res], owners', loop[res])
      BY <3>1 DEF HeldFor, AgedOnly
    <3>4. Settled(loop[res]) => Settled(loop[res])'
      BY <3>1 DEF Settled, AgedOnly
    <3>5. QED
      BY <3>2, <3>3, <3>4
  <2>2. QED
    BY <1>2, <2>1, PerturbedKept
<1>6. QED
  BY <1>3, <1>4, <1>5 DEF KInv

\* A step of p that changes nothing but its locals.
LEMMA QuietKInv ==
  ASSUME IInv, IInv', CInv, KInv, NEW p \in Proc, NEW nw \in ProcRec, Go(p, nw),
         UNCHANGED <<runs, owners, claims, loop>>,
         nw.pc \in Guarded /\ nw.kind = "tune" =>
            TuneFits(nw, owners[nw.own], runs[nw.run], loop[nw.res])
  PROVE  KInv'
<1>1. AgedOnly
  BY DEF AgedOnly
<1>2. OthersFit(p)
  BY DEF OthersFit
<1>3. TuneGuards'
  BY <1>2, TuneGuardsKept
<1>4. QED
  BY <1>1, <1>3, AgedKInv

LEMMA IdleKInv ==
  ASSUME IInv, IInv', CInv, KInv, NEW p \in Proc, NEW nw \in {NoOperation, ProcDown},
         Go(p, nw), UNCHANGED <<runs, owners, claims, loop>>
  PROVE  KInv'
<1>1. nw \in ProcRec /\ nw.pc \notin Guarded
  BY RestTypes DEF Guarded
<1>2. QED
  BY <1>1, QuietKInv

LEMMA DroppedKInv ==
  ASSUME IInv, IInv', CInv, KInv, NEW p \in Proc,
         \/ StartupSkips(p) \/ SweepStops(p) \/ SweepDone(p) \/ WriteRefused(p)
         \/ FinishTuneLost(p) \/ ReleaseLost(p) \/ RecoveryRefused(p) \/ RecoveryLost(p)
         \/ ExitProcess(p)
  PROVE  KInv'
<1>1. UNCHANGED <<runs, owners, claims, loop>>
  BY DEF StartupSkips, SweepStops, SweepDone, WriteRefused, FinishTuneLost, ReleaseLost,
         RecoveryRefused, RecoveryLost, ExitProcess
<1>2. Go(p, NoOperation) \/ Go(p, ProcDown)
  BY DEF StartupSkips, SweepStops, SweepDone, WriteRefused, FinishTuneLost, ReleaseLost,
         RecoveryRefused, RecoveryLost, ExitProcess
<1>3. QED
  BY <1>1, <1>2, IdleKInv

\* The lock and what is done under it before anything is written.
LEMMA LockedKInv ==
  ASSUME IInv, IInv', CInv, KInv, NEW p \in Proc,
         \/ StartupSweeps(p) \/ (\E o \in Owner : SweepExport(p, o)) \/ LockForTune(p)
         \/ (\E r \in Run \cup {None}, res \in Resource : LockForWrite(p, r, res))
         \/ (\E r \in Run : RecoveryLock(p, r))
  PROVE  KInv'
<1>1. UNCHANGED <<runs, owners, claims, loop>>
  BY DEF StartupSweeps, SweepExport, LockForTune, LockForWrite, RecoveryLock
<1>2. proc' = [proc EXCEPT ![p] = proc'[p]] /\ proc'[p] \in ProcRec
  BY DEF IInv, TypeOK, Go, StartupSweeps, SweepExport, LockForTune, LockForWrite, RecoveryLock
<1>3. proc'[p].pc \in {"sweeping", "exported", "locked", "rlocked"}
  <2>1. proc \in [Proc -> ProcRec] /\ proc[p] \in ProcRec
    BY DEF IInv, TypeOK
  <2>2. StartupSweeps(p) => proc'[p].pc = "sweeping"
    BY <2>1 DEF StartupSweeps, Go, NoOperation
  <2>3. (\E o \in Owner : SweepExport(p, o)) => proc'[p].pc = "exported"
    BY <2>1, ZenonT(60) DEF SweepExport, Go, ProcRec
  <2>4. LockForTune(p) => proc'[p].pc = "locked"
    BY <2>1 DEF LockForTune, Go, ProcRec
  <2>5. (\E r \in Run \cup {None}, res \in Resource : LockForWrite(p, r, res)) =>
           proc'[p].pc = "locked"
    <3> SUFFICES ASSUME NEW r \in Run \cup {None}, NEW res \in Resource, LockForWrite(p, r, res)
                 PROVE  proc'[p].pc = "locked"
      OBVIOUS
    <3> DEFINE nw == [NoOperation EXCEPT !.pc = "locked", !.kind = "pid",
                                         !.run = r, !.res = res]
    <3>1. proc' = [proc EXCEPT ![p] = nw]
      BY DEF LockForWrite, Go
    <3>2. nw.pc = "locked"
      BY DEF NoOperation
    <3> HIDE DEF nw
    <3>3. QED
      BY <2>1, <3>1, <3>2
  <2>6. (\E r \in Run : RecoveryLock(p, r)) => proc'[p].pc = "rlocked"
    BY <2>1 DEF RecoveryLock, Go, NoOperation
  <2>7. QED
    BY <2>2, <2>3, <2>4, <2>5, <2>6
<1>4. AgedOnly
  BY <1>1 DEF AgedOnly
<1>5. TuneGuards'
  <2> SUFFICES ASSUME NEW q \in Proc, proc'[q].pc \in Guarded, proc'[q].kind = "tune"
               PROVE  TuneFits(proc'[q], owners'[proc'[q].own], runs'[proc'[q].run],
                               loop'[proc'[q].res])
    BY DEF TuneGuards
  <2>1. q # p
    BY <1>3 DEF Guarded
  <2>2. proc'[q] = proc[q]
    BY <1>2, <2>1 DEF IInv, TypeOK
  <2>3. QED
    BY <1>1, <2>2 DEF KInv, TuneGuards
<1>6. QED
  BY <1>1, <1>4, <1>5, AgedKInv

LEMMA AgedGuards ==
  ASSUME IInv, KInv, AgedOnly, UNCHANGED <<proc, runs, loop>>
  PROVE  TuneGuards'
<1> SUFFICES ASSUME NEW q \in Proc, proc[q].pc \in Guarded, proc[q].kind = "tune"
             PROVE  TuneFits(proc[q], owners'[proc[q].own], runs[proc[q].run],
                             loop[proc[q].res])
  BY DEF TuneGuards
<1>1. proc[q].own \in Owner
  BY DEF IInv, LocalsOK, LocalsFit
<1>2. TuneFits(proc[q], owners[proc[q].own], runs[proc[q].run], loop[proc[q].res])
  BY DEF KInv, TuneGuards
<1>3. /\ owners'[proc[q].own].intent = owners[proc[q].own].intent
      /\ owners'[proc[q].own].step = owners[proc[q].own].step
      /\ owners'[proc[q].own].base = owners[proc[q].own].base
  BY <1>1 DEF AgedOnly
<1>4. QED
  BY <1>2, <1>3 DEF TuneFits

LEMMA HeartbeatKInv ==
  ASSUME IInv, IInv', CInv, KInv, NEW p \in Proc, Heartbeat(p)
  PROVE  KInv'
<1> DEFINE o == proc[p].own
           nv == [owners[o] EXCEPT !.age = 0]
<1>1. owners' = [owners EXCEPT ![o] = nv] /\ UNCHANGED <<proc, runs, claims, loop>>
  BY DEF Heartbeat, IInv, TypeOK
<1>2. owners \in [Owner -> OwnerRec]
  BY DEF IInv, TypeOK
<1>3. \A q \in Owner : owners'[q] = IF q = o THEN nv ELSE owners[q]
  BY <1>1, <1>2
<1>4. AgedOnly
  <2> SUFFICES ASSUME NEW q \in Owner
               PROVE  LET v == owners[q]
                          n == owners'[q]
                      IN  /\ n.state = v.state /\ n.kind = v.kind /\ n.run = v.run
                          /\ n.res = v.res /\ n.eligible = v.eligible /\ n.source = v.source
                          /\ n.intent = v.intent /\ n.step = v.step /\ n.base = v.base
    BY DEF AgedOnly
  <2> DEFINE v == owners[q]
  <2>1. v \in OwnerRec
    BY <1>2
  <2>2. owners'[q] = IF q = o THEN [v EXCEPT !.age = 0] ELSE v
    BY <1>3
  <2> HIDE DEF v
  <2>3. QED
    BY <2>1, <2>2 DEF OwnerRec, v
<1>5. TuneGuards'
  BY <1>1, <1>4, AgedGuards
<1>6. QED
  BY <1>1, <1>4, <1>5, AgedKInv

LEMMA TickKInv ==
  ASSUME IInv, IInv', CInv, KInv, Tick
  PROVE  KInv'
<1>1. UNCHANGED <<proc, runs, claims, loop>>
  BY DEF Tick
<1>2. AgedOnly
  <2> SUFFICES ASSUME NEW q \in Owner
               PROVE  LET v == owners[q]
                          n == owners'[q]
                      IN  /\ n.state = v.state /\ n.kind = v.kind /\ n.run = v.run
                          /\ n.res = v.res /\ n.eligible = v.eligible /\ n.source = v.source
                          /\ n.intent = v.intent /\ n.step = v.step /\ n.base = v.base
    BY DEF AgedOnly
  <2> DEFINE v == owners[q]
             a == v.age + 1
             older == v.state = "active" /\ v.age < StaleAfter
  <2>1. v \in OwnerRec
    BY DEF IInv, TypeOK
  <2>2. owners'[q] = IF older THEN [v EXCEPT !.age = a] ELSE v
    BY DEF Tick
  <2> HIDE DEF v, a, older
  <2>3. QED
    BY <2>1, <2>2 DEF OwnerRec, v
<1>3. TuneGuards'
  BY <1>1, <1>2, AgedGuards
<1>4. QED
  BY <1>1, <1>2, <1>3, AgedKInv

LEMMA HeartbeatFailsKInv ==
  ASSUME IInv, IInv', CInv, KInv, NEW p \in Proc, HeartbeatFails(p)
  PROVE  KInv'
<1> DEFINE w == proc[p]
           nw == [w EXCEPT !.healthy = FALSE]
<1>1. w \in ProcRec /\ w.pc \in Guarded /\ Go(p, nw) /\ UNCHANGED <<runs, owners, claims, loop>>
  BY DEF HeartbeatFails, IInv, TypeOK
<1>2. w.kind = "tune" => TuneFits(w, owners[w.own], runs[w.run], loop[w.res])
  BY <1>1 DEF KInv, TuneGuards
<1> HIDE DEF w
<1>3. /\ nw \in ProcRec /\ nw.pc = w.pc /\ nw.own = w.own /\ nw.kind = w.kind
      /\ nw.run = w.run /\ nw.res = w.res /\ nw.goal = w.goal
      /\ nw.ok = w.ok /\ nw.restored = w.restored
  BY <1>1 DEF ProcRec
<1> HIDE DEF nw
<1>4. nw.kind = "tune" => TuneFits(nw, owners[nw.own], runs[nw.run], loop[nw.res])
  BY <1>2, <1>3 DEF TuneFits
<1>5. QED
  BY <1>1, <1>3, <1>4, QuietKInv DEF w

\* A tune that stops early has restored nothing.
LEMMA StopsKInv ==
  ASSUME IInv, IInv', CInv, KInv, NEW p \in Proc, SetupFails(p) \/ StopWithoutRestore(p)
  PROVE  KInv'
<1> DEFINE w == proc[p]
           nw == IF w.pc = "owned" THEN [w EXCEPT !.pc = "finishing", !.restored = TRUE]
                 ELSE [w EXCEPT !.pc = IF w.kind = "tune" THEN "finishing" ELSE "completing",
                                !.restored = FALSE]
<1>1. /\ w \in ProcRec /\ Go(p, nw) /\ UNCHANGED <<runs, owners, claims, loop>>
      /\ w.pc = "active" \/ (w.pc = "owned" /\ w.kind = "tune")
  BY DEF SetupFails, StopWithoutRestore, IInv, TypeOK, LocalsOK, LocalsFit
<1>2. w.kind = "tune" => TuneFits(w, owners[w.own], runs[w.run], loop[w.res])
  BY <1>1 DEF KInv, TuneGuards, Guarded
<1> HIDE DEF w
<1>3. /\ nw \in ProcRec /\ nw.own = w.own /\ nw.kind = w.kind
      /\ nw.run = w.run /\ nw.res = w.res /\ (nw.restored => w.pc = "owned")
      /\ nw.pc = IF w.kind = "tune" THEN "finishing" ELSE "completing"
  BY <1>1, ZenonT(60) DEF ProcRec, PCs, Locking, Guarded
<1> HIDE DEF nw
<1>4. nw.kind = "tune" => TuneFits(nw, owners[nw.own], runs[nw.run], loop[nw.res])
  BY <1>1, <1>2, <1>3 DEF TuneFits
<1>5. QED
  BY <1>1, <1>3, <1>4, QuietKInv DEF w

-----------------------------------------------------------------------------
(* KInv: what a process records in its own owner row *)

\* What the record nv may say in place of row o.
RecordFits(o, nv) ==
    /\ nv.state = owners[o].state /\ nv.kind = owners[o].kind /\ nv.run = owners[o].run
    /\ nv.res = owners[o].res /\ nv.source = owners[o].source
    /\ owners[o].intent => nv.intent
    /\ owners[o].step # "none" => nv.step # "none"
    /\ nv.kind = "tune" /\ nv.step # "none" => nv.intent
    /\ nv.intent /\ nv.base # None => Before(o, nv.res, nv.base)

LEMMA RecordKInv ==
  ASSUME IInv, IInv', CInv, KInv, NEW o \in Owner, NEW nv, owners' = [owners EXCEPT ![o] = nv],
         owners[o].state = "active", RecordFits(o, nv), UNCHANGED <<runs, claims, loop>>,
         TuneGuards'
  PROVE  KInv'
<1>1. owners'[o] = nv /\ \A q \in Owner : q # o => owners'[q] = owners[q]
  BY DEF IInv, TypeOK
<1>2. Keeps
  <2> SUFFICES ASSUME NEW q \in Owner
               PROVE  /\ owners'[q].kind = owners[q].kind /\ owners'[q].res = owners[q].res
                      /\ RecoveryEligible(q) => RecoveryEligible(q)'
                      /\ Settled(q) => Settled(q)'
    BY DEF Keeps
  <2>1. CASE q = o
    BY <1>1, <2>1 DEF RecordFits, RecoveryEligible, Settled
  <2>2. CASE q # o
    BY <1>1, <2>2 DEF RecoveryEligible, Settled
  <2>3. QED
    BY <2>1, <2>2
<1>3. \A q \in Owner : /\ owners'[q].state = owners[q].state /\ owners'[q].kind = owners[q].kind
                       /\ owners'[q].run = owners[q].run
                       /\ owners'[q].source = owners[q].source
  BY <1>1 DEF RecordFits
<1>4. NothingDeleted' /\ ConfirmedClean'
  BY <1>3 DEF KInv, NothingDeleted, ConfirmedClean
<1>5. StepsNeedIntent'
  <2>1. \A q \in Owner : owners'[q].kind = "tune" /\ owners'[q].step # "none" =>
                             owners'[q].intent
    BY <1>1 DEF KInv, StepsNeedIntent, RecordFits
  <2>2. QED
    BY <2>1 DEF StepsNeedIntent
<1>6. NeverWrote'
  <2>1. owners[o].kind = "tune" => runs[owners[o].run].recovery = "none"
    BY DEF CInv, RowInv, ActiveTunes
  <2>2. QED
    BY <1>1, <1>3, <2>1 DEF KInv, NeverWrote
<1>7. Bases'
  <2>1. \A q \in Owner : owners'[q].intent /\ owners'[q].base # None =>
             Before(q, owners'[q].res, owners'[q].base)
    BY <1>1 DEF KInv, Bases, RecordFits
  <2>2. QED
    BY <1>2, <2>1, BasesKept
<1>8. Perturbed'
  <2> SUFFICES ASSUME NEW res \in Resource, loop[res] # None
               PROVE  HeldFor(claims'[res], owners', loop[res]) \/ Settled(loop[res])'
    BY <1>2, PerturbedKept
  <2>1. loop[res] \in Owner /\ (claims[res] # None => claims[res] \in Owner)
    BY DEF IInv, TypeOK
  <2>2. HeldFor(claims[res], owners, loop[res]) \/ Settled(loop[res])
    BY DEF KInv, Perturbed
  <2>3. HeldFor(claims[res], owners, loop[res]) => HeldFor(claims'[res], owners', loop[res])
    BY <1>3, <2>1 DEF HeldFor
  <2>4. Settled(loop[res]) => Settled(loop[res])'
    <3>1. PICK q \in Owner : q = loop[res]
      BY <2>1
    <3>2. Settled(q) => Settled(q)'
      BY <1>2 DEF Keeps
    <3>3. QED
      BY <3>1, <3>2 DEF Settled
  <2>5. QED
    BY <2>2, <2>3, <2>4
<1>9. QED
  BY <1>4, <1>5, <1>6, <1>7, <1>8 DEF KInv

LEMMA PersistIntentKInv ==
  ASSUME IInv, IInv', CInv, KInv, NEW p \in Proc, PersistIntent(p)
  PROVE  KInv'
<1> DEFINE w == proc[p]
           o == w.own
           v == owners[o]
           b == loop[w.res]
           nv == [v EXCEPT !.intent = TRUE, !.base = b]
           nw == [w EXCEPT !.pc = "active"]
<1>1. /\ w \in ProcRec /\ w.pc = "owned" /\ w.kind = "tune"
      /\ Go(p, nw) /\ UNCHANGED <<runs, claims, loop>>
      /\ owners' = [owners EXCEPT ![o] = nv]
  BY DEF PersistIntent, IInv, TypeOK, LocalsOK, LocalsFit
<1>2. w.pc \in Guarded
  BY <1>1 DEF Guarded
<1>3. /\ o \in Owner /\ w.res \in Resource /\ v.state = "active" /\ v.kind = "tune"
      /\ v.res = w.res /\ claims[w.res] = o /\ v \in OwnerRec
  BY <1>1, <1>2, GuardOwn DEF IInv, TypeOK
<1>4. TuneFits(w, v, runs[w.run], loop[w.res])
  BY <1>1, <1>2 DEF KInv, TuneGuards
<1>5. v.step = "none"
  BY <1>1, <1>4 DEF TuneFits
<1>6. b # None => Before(o, w.res, b)
  <2> SUFFICES ASSUME b # None PROVE Before(o, w.res, b)
    OBVIOUS
  <2>1. /\ owners[b].kind = "tune" /\ owners[b].res = w.res /\ RecoveryEligible(b)
        /\ HeldFor(o, owners, b) \/ Settled(b)
    BY <1>3 DEF KInv, Perturbed
  <2>2. b # o
    BY <1>5, <2>1 DEF RecoveryEligible
  <2>3. ~ HeldFor(o, owners, b)
    BY <1>3, <2>2 DEF HeldFor
  <2>4. QED
    BY <2>1, <2>2, <2>3 DEF Before
<1>7. owners \in [Owner -> OwnerRec] /\ b = loop[w.res]
  BY DEF IInv, TypeOK
<1> HIDE DEF v, b
<1>8. /\ nv.state = v.state /\ nv.kind = v.kind /\ nv.run = v.run /\ nv.res = v.res
      /\ nv.source = v.source /\ nv.intent = TRUE /\ nv.step = v.step /\ nv.base = b
  BY <1>3 DEF OwnerRec
<1> HIDE DEF nv
<1>9. RecordFits(o, nv)
  BY <1>3, <1>6, <1>8 DEF RecordFits, v
<1>10. owners'[o] = nv
  BY <1>1, <1>3, <1>7
<1> HIDE DEF w, o
<1>11. /\ nw \in ProcRec /\ nw.pc = "active" /\ nw.own = w.own /\ nw.kind = w.kind
       /\ nw.run = w.run /\ nw.res = w.res
  BY <1>1 DEF ProcRec, PCs, Locking, Guarded
<1> HIDE DEF nw
<1>12. TuneFits(nw, owners'[nw.own], runs'[nw.run], loop'[nw.res])
  BY <1>1, <1>4, <1>8, <1>10, <1>11 DEF TuneFits, o
<1>13. OthersFit(p)
  BY <1>2 DEF OthersFit, Locking, w
<1>14. TuneGuards'
  BY <1>1, <1>11, <1>12, <1>13, TuneGuardsKept
<1>15. QED
  BY <1>1, <1>3, <1>9, <1>14, RecordKInv DEF v

LEMMA BeginWriteKInv ==
  ASSUME IInv, IInv', CInv, KInv, NEW p \in Proc, NEW goal \in {"perturb", "restore", "pid"},
         BeginWrite(p, goal)
  PROVE  KInv'
<1> DEFINE w == proc[p]
           o == w.own
           v == owners[o]
           b == runs[w.run]
           nv == [v EXCEPT !.step = "intent"]
           nw == [w EXCEPT !.pc = "writing", !.goal = goal]
<1>1. /\ w \in ProcRec /\ w.pc \in {"active", "releasing"} /\ goal \in Goals(p)
      /\ Go(p, nw) /\ UNCHANGED <<runs, claims, loop>>
      /\ owners' = [owners EXCEPT ![o] = nv]
  BY DEF BeginWrite, Goals, IInv, TypeOK
<1>2. w.pc \in Guarded
  BY <1>1 DEF Guarded
<1>3. /\ o \in Owner /\ v.state = "active" /\ v.kind = w.kind /\ v \in OwnerRec
  BY <1>1, <1>2, GuardOwn DEF IInv, TypeOK
<1>4. w.kind = "tune" => TuneFits(w, v, b, loop[w.res])
  BY <1>1, <1>2 DEF KInv, TuneGuards
<1>5. /\ w.kind = "tune" /\ w.pc = "active" => goal # "pid"
      /\ w.pc = "releasing" => goal = "pid" /\ b.outcome = "completed"
  BY <1>1 DEF Goals
<1>6. w.kind = "tune" => v.intent
  BY <1>1, <1>4, <1>5 DEF TuneFits
<1>7. owners \in [Owner -> OwnerRec]
  BY DEF IInv, TypeOK
<1>8. v.intent /\ v.base # None => Before(o, v.res, v.base)
  BY <1>3 DEF KInv, Bases
<1> HIDE DEF v, b
<1>9. /\ nv.state = v.state /\ nv.kind = v.kind /\ nv.run = v.run /\ nv.res = v.res
      /\ nv.source = v.source /\ nv.intent = v.intent /\ nv.step = "intent" /\ nv.base = v.base
  BY <1>3 DEF OwnerRec
<1> HIDE DEF nv
<1>10. RecordFits(o, nv)
  BY <1>3, <1>6, <1>8, <1>9 DEF RecordFits, v
<1>11. owners'[o] = nv
  BY <1>1, <1>3, <1>7
<1> HIDE DEF w, o
<1>12. /\ nw \in ProcRec /\ nw.pc = "writing" /\ nw.goal = goal /\ nw.own = w.own
       /\ nw.kind = w.kind /\ nw.run = w.run /\ nw.res = w.res
  BY <1>1 DEF ProcRec, PCs, Locking, Guarded
<1> HIDE DEF nw
<1>13. w.kind = "tune" => TuneFits(nw, nv, b, loop[w.res])
  BY <1>1, <1>4, <1>5, <1>6, <1>9, <1>12 DEF TuneFits
<1>14. nw.kind = "tune" => TuneFits(nw, owners'[nw.own], runs'[nw.run], loop'[nw.res])
  BY <1>1, <1>11, <1>12, <1>13 DEF b, o
<1>15. OthersFit(p)
  BY <1>2 DEF OthersFit, Locking, w
<1>16. TuneGuards'
  BY <1>1, <1>12, <1>14, <1>15, TuneGuardsKept
<1>17. QED
  BY <1>1, <1>3, <1>10, <1>16, RecordKInv DEF v

LEMMA FinishStepKInv ==
  ASSUME IInv, IInv', CInv, KInv, NEW p \in Proc, FinishStep(p)
  PROVE  KInv'
<1> DEFINE w == proc[p]
           o == w.own
           v == owners[o]
           b == runs[w.run]
           nv == [v EXCEPT !.step = "finished"]
           next == AfterWrite(p)
<1>1. w \in ProcRec /\ w.pc = "written" /\ UNCHANGED <<runs, claims, loop>>
  BY DEF FinishStep, IInv, TypeOK
<1>2. PICK audited \in BOOLEAN :
        /\ audited => v.step = "intent"
        /\ owners' = IF audited THEN [owners EXCEPT ![o] = nv] ELSE owners
        /\ Go(p, [w EXCEPT !.pc = next, !.goal = "none", !.ok = FALSE,
                    !.restored = IF w.goal = "restore" THEN audited /\ w.ok ELSE w.restored])
  BY DEF FinishStep
<1> DEFINE back == IF w.goal = "restore" THEN audited /\ w.ok ELSE w.restored
           nw == [w EXCEPT !.pc = next, !.goal = "none", !.ok = FALSE, !.restored = back]
<1>3. /\ next \in {"finishing", "completing", "releasing", "active"}
      /\ w.kind = "tune" =>
            /\ next = "finishing" <=> w.goal = "restore"
            /\ next = "releasing" <=> w.goal = "pid"
            /\ next # "completing"
  BY DEF AfterWrite
<1>4. w.pc \in Guarded
  BY <1>1 DEF Guarded
<1>5. /\ o \in Owner /\ v.state = "active" /\ v.kind = w.kind /\ v \in OwnerRec
  BY <1>1, <1>4, GuardOwn DEF IInv, TypeOK
<1>6. w.kind = "tune" => TuneFits(w, v, b, loop[w.res])
  BY <1>1, <1>4 DEF KInv, TuneGuards
<1>7. w.kind = "tune" => v.intent
  BY <1>1, <1>6 DEF TuneFits
<1>8. owners \in [Owner -> OwnerRec]
  BY DEF IInv, TypeOK
<1>9. v.intent /\ v.base # None => Before(o, v.res, v.base)
  BY <1>5 DEF KInv, Bases
<1>10. back \in BOOLEAN /\ (w.goal = "restore" => (back => w.ok))
  BY <1>1 DEF ProcRec
<1>11. Go(p, nw)
  BY <1>2
<1> HIDE DEF v, b
<1>12. /\ nv.state = v.state /\ nv.kind = v.kind /\ nv.run = v.run /\ nv.res = v.res
       /\ nv.source = v.source /\ nv.intent = v.intent /\ nv.step = "finished"
       /\ nv.base = v.base
  BY <1>5 DEF OwnerRec
<1> HIDE DEF nv
<1>13. RecordFits(o, nv)
  BY <1>5, <1>7, <1>9, <1>12 DEF RecordFits, v
<1>14. owners'[o].intent = v.intent /\ owners'[o].base = v.base
  BY <1>2, <1>5, <1>8, <1>12 DEF v
<1> HIDE DEF w, o, next, back
<1>15. /\ nw \in ProcRec /\ nw.pc = next /\ nw.own = w.own /\ (nw.restored <=> back)
       /\ nw.kind = w.kind /\ nw.run = w.run /\ nw.res = w.res
  BY <1>1, <1>3, <1>10 DEF ProcRec, PCs, Locking, Guarded
<1> HIDE DEF nw
<1>16. w.kind = "tune" => TuneFits(nw, owners'[o], b, loop[w.res])
  BY <1>1, <1>3, <1>6, <1>7, <1>10, <1>14, <1>15 DEF TuneFits
<1>17. nw.kind = "tune" => TuneFits(nw, owners'[nw.own], runs'[nw.run], loop'[nw.res])
  BY <1>1, <1>15, <1>16 DEF b, o
<1>18. OthersFit(p)
  BY <1>4 DEF OthersFit, Locking, w
<1>19. TuneGuards'
  BY <1>11, <1>15, <1>17, <1>18, TuneGuardsKept
<1>20. CASE audited
  <2>1. owners' = [owners EXCEPT ![o] = nv]
    BY <1>2, <1>20
  <2>2. QED
    BY <1>1, <1>5, <1>13, <1>19, <2>1, RecordKInv DEF v
<1>21. CASE ~ audited
  <2>1. UNCHANGED owners
    BY <1>2, <1>21
  <2>2. AgedOnly
    BY <2>1 DEF AgedOnly
  <2>3. QED
    BY <1>1, <1>19, <2>2, AgedKInv
<1>22. QED
  BY <1>20, <1>21

-----------------------------------------------------------------------------
(* KInv: the controller calls *)

\* Only a tune perturbs, only a tune or a recovery restores.
GoalFits(w) ==
    w.pc \in {"writing", "written"} =>
        /\ w.goal = "perturb" => w.kind = "tune"
        /\ w.goal = "restore" => w.kind \in {"tune", "recovery"}

GoalsFit == \A p \in Proc : GoalFits(proc[p])

LEMMA InitGoalsFit == Init => GoalsFit
  BY DEF Init, GoalsFit, GoalFits, ProcDown, NoOperation

\* A step of p whose new locals nw write nothing, or go on with their goal.
LEMMA GoalsFitKept ==
  ASSUME IInv, GoalsFit, NEW p \in Proc, NEW nw \in ProcRec, Go(p, nw), GoalFits(nw)
  PROVE  GoalsFit'
<1>1. proc'[p] = nw /\ \A q \in Proc : q # p => proc'[q] = proc[q]
  BY GoEffect DEF IInv
<1>2. \A q \in Proc : GoalFits(proc'[q])
  BY <1>1 DEF GoalsFit
<1>3. QED
  BY <1>2 DEF GoalsFit

LEMMA GoalsFitOver ==
  ASSUME GoalsFit, NEW p \in Proc, \A q \in Proc : q # p => proc'[q] = proc[q],
         proc'[p].pc \notin {"writing", "written"}
  PROVE  GoalsFit'
<1>1. \A q \in Proc : GoalFits(proc'[q])
  BY DEF GoalsFit, GoalFits
<1>2. QED
  BY <1>1 DEF GoalsFit

LEMMA WritesFit ==
  ASSUME IInv, GoalsFit, NEW p \in Proc, Write(p)
  PROVE  GoalsFit'
<1> DEFINE w == proc[p]
<1>1. w \in ProcRec
  BY DEF IInv, TypeOK
<1>2. ASSUME NEW goal \in {"perturb", "restore", "pid"}, BeginWrite(p, goal)
      PROVE  GoalsFit'
  <2> DEFINE nw == [w EXCEPT !.pc = "writing", !.goal = goal]
  <2>1. Go(p, nw) /\ goal \in Goals(p)
    BY <1>2 DEF BeginWrite
  <2>2. /\ goal = "perturb" => w.kind = "tune"
        /\ goal = "restore" => w.kind \in {"tune", "recovery"}
    BY <2>1 DEF Goals
  <2> HIDE DEF w
  <2>3. nw \in ProcRec /\ GoalFits(nw)
    BY <1>1, <2>2, ZenonT(60) DEF ProcRec, PCs, Locking, Guarded, GoalFits
  <2> HIDE DEF nw
  <2>4. QED
    BY <2>1, <2>3, GoalsFitKept
<1>3. CASE DriverReturns(p)
  <2>1. PICK ok \in BOOLEAN : Go(p, [w EXCEPT !.pc = "written", !.ok = ok])
    BY <1>3 DEF DriverReturns
  <2> DEFINE nw == [w EXCEPT !.pc = "written", !.ok = ok]
  <2>2. Go(p, nw) /\ w.pc = "writing" /\ GoalFits(w)
    BY <1>3, <2>1 DEF DriverReturns, GoalsFit
  <2> HIDE DEF w
  <2>3. nw \in ProcRec /\ GoalFits(nw)
    BY <1>1, <2>2 DEF ProcRec, PCs, Locking, Guarded, GoalFits
  <2> HIDE DEF nw
  <2>4. QED
    BY <2>2, <2>3, GoalsFitKept
<1>4. CASE FinishStep(p)
  <2> DEFINE next == AfterWrite(p)
  <2>1. PICK audited \in BOOLEAN :
          Go(p, [w EXCEPT !.pc = next, !.goal = "none", !.ok = FALSE,
                   !.restored = IF w.goal = "restore" THEN audited /\ w.ok ELSE w.restored])
    BY <1>4 DEF FinishStep
  <2> DEFINE back == IF w.goal = "restore" THEN audited /\ w.ok ELSE w.restored
             nw == [w EXCEPT !.pc = next, !.goal = "none", !.ok = FALSE, !.restored = back]
  <2>2. Go(p, nw)
    BY <2>1
  <2>3. back \in BOOLEAN /\ next \in {"finishing", "completing", "releasing", "active"}
    BY <1>1 DEF ProcRec, AfterWrite
  <2> HIDE DEF w, next, back
  <2>4. nw.pc = next
    BY <1>1 DEF ProcRec
  <2> HIDE DEF nw
  <2>5. /\ proc'[p].pc \notin {"writing", "written"}
        /\ \A q \in Proc : q # p => proc'[q] = proc[q]
    BY <2>2, <2>3, <2>4 DEF Go, IInv, TypeOK
  <2>6. QED
    BY <2>5, GoalsFitOver
<1>5. CASE StopWithoutRestore(p)
  <2> DEFINE next == IF w.kind = "tune" THEN "finishing" ELSE "completing"
             nw == [w EXCEPT !.pc = next, !.restored = FALSE]
  <2>1. Go(p, nw) /\ next \in {"finishing", "completing"}
    BY <1>5 DEF StopWithoutRestore
  <2> HIDE DEF w, next
  <2>2. nw \in ProcRec /\ GoalFits(nw)
    BY <1>1, <2>1, ZenonT(60) DEF ProcRec, PCs, Locking, Guarded, GoalFits
  <2> HIDE DEF nw
  <2>3. QED
    BY <2>1, <2>2, GoalsFitKept
<1>6. QED
  BY <1>2, <1>3, <1>4, <1>5 DEF Write

\* Every other action leaves its process without a goal in flight.
LEMMA NextGoalsFit == IInv /\ GoalsFit /\ [Next]_vars => GoalsFit'
<1> SUFFICES ASSUME IInv, GoalsFit, [Next]_vars PROVE GoalsFit' OBVIOUS
<1> DEFINE Steps(p) == /\ \A q \in Proc : q # p => proc'[q] = proc[q]
                       /\ proc'[p] = proc[p] \/ proc'[p].pc \notin {"writing", "written"}
<1>1. ASSUME NEW p \in Proc, Steps(p) PROVE GoalsFit'
  <2>1. CASE proc'[p] = proc[p]
    <3>1. \A q \in Proc : proc'[q] = proc[q]
      BY <1>1, <2>1
    <3>2. QED
      BY <3>1 DEF GoalsFit, GoalFits
  <2>2. CASE proc'[p].pc \notin {"writing", "written"}
    BY <1>1, <2>2, GoalsFitOver
  <2>3. QED
    BY <1>1, <2>1, <2>2
<1>2. proc \in [Proc -> ProcRec] /\ \A p \in Proc : proc[p] \in ProcRec
  BY DEF IInv, TypeOK
<1>3. NoOperation.pc = "idle" /\ ProcDown.pc = "down"
  BY DEF NoOperation, ProcDown
<1>4. ASSUME NEW p \in Proc, NEW nw, Go(p, nw), nw.pc \notin {"writing", "written"}
      PROVE  GoalsFit'
  <2>1. Steps(p)
    BY <1>2, <1>4 DEF Go
  <2>2. QED
    BY <1>1, <2>1
<1>5. ASSUME UNCHANGED proc PROVE GoalsFit'
  BY <1>5 DEF GoalsFit, GoalFits
<1>6. ASSUME NEW p \in Proc, Go(p, NoOperation) \/ Go(p, ProcDown) PROVE GoalsFit'
  BY <1>3, <1>4, <1>6
<1>7. ASSUME NEW p \in Proc, Sweep(p) PROVE GoalsFit'
  <2>1. CASE StartupSweeps(p)
    <3> DEFINE nw == [NoOperation EXCEPT !.pc = "sweeping", !.todo = {o \in Owner : Stale(o)}]
    <3>1. Go(p, nw)
      BY <2>1 DEF StartupSweeps
    <3>2. nw.pc = "sweeping"
      BY DEF NoOperation
    <3> HIDE DEF nw
    <3>3. QED
      BY <1>4, <3>1, <3>2
  <2>2. CASE SweepOrphan(p) \/ SweepRetire(p) \/ SweepAbandon(p)
    <3>1. Go(p, [proc[p] EXCEPT !.pc = "sweeping", !.own = None])
      BY <2>2 DEF SweepOrphan, SweepRetire, SweepAbandon
    <3>2. [proc[p] EXCEPT !.pc = "sweeping", !.own = None].pc = "sweeping"
      BY <1>2 DEF ProcRec
    <3>3. QED
      BY <1>4, <3>1, <3>2
  <2>3. ASSUME NEW o \in Owner, SweepExport(p, o) PROVE GoalsFit'
    <3> DEFINE rest == proc[p].todo \ {o}
               nw == [proc[p] EXCEPT !.pc = "exported", !.own = o, !.todo = rest]
    <3>1. Go(p, nw)
      BY <2>3 DEF SweepExport
    <3>2. nw.pc = "exported"
      BY <1>2 DEF ProcRec
    <3> HIDE DEF nw
    <3>3. QED
      BY <1>4, <3>1, <3>2
  <2>4. SweepDone(p) => GoalsFit'
    BY <1>6 DEF SweepDone
  <2>5. QED
    BY <1>7, <2>1, <2>2, <2>3, <2>4 DEF Sweep
<1>8. ASSUME NEW p \in Proc, Tune(p) PROVE GoalsFit'
  <2>1. ASSUME NEW r \in Run, NEW res \in Resource, StartRun(p, r, res) PROVE GoalsFit'
    <3> DEFINE nw == [NoOperation EXCEPT !.pc = "prepared", !.kind = "tune",
                                         !.run = r, !.res = res]
    <3>1. Go(p, nw) /\ nw.pc = "prepared"
      BY <2>1 DEF StartRun, NoOperation
    <3> HIDE DEF nw
    <3>2. QED
      BY <1>4, <3>1
  <2>2. ASSUME NEW r \in Run \cup {None}, NEW res \in Resource, LockForWrite(p, r, res)
        PROVE  GoalsFit'
    <3> DEFINE nw == [NoOperation EXCEPT !.pc = "locked", !.kind = "pid",
                                         !.run = r, !.res = res]
    <3>1. Go(p, nw) /\ nw.pc = "locked"
      BY <2>2 DEF LockForWrite, NoOperation
    <3> HIDE DEF nw
    <3>2. QED
      BY <1>4, <3>1
  <2>3. ASSUME NEW o \in Owner, CreateAndClaim(p, o) PROVE GoalsFit'
    <3> DEFINE nw == [proc[p] EXCEPT !.own = o,
                                     !.pc = IF proc[p].kind = "tune" THEN "owned" ELSE "active"]
    <3>1. Go(p, nw)
      BY <2>3 DEF CreateAndClaim
    <3>2. nw.pc \in {"owned", "active"}
      BY <1>2 DEF ProcRec
    <3> HIDE DEF nw
    <3>3. QED
      BY <1>4, <3>1, <3>2
  <2>4. LockForTune(p) \/ PersistIntent(p) \/ SetupFails(p) => GoalsFit'
    <3>1. \A next \in {"locked", "active", "finishing"} :
             /\ [proc[p] EXCEPT !.pc = next].pc = next
             /\ [proc[p] EXCEPT !.pc = next, !.restored = TRUE].pc = next
      BY <1>2 DEF ProcRec
    <3>2. QED
      BY <1>4, <3>1 DEF LockForTune, PersistIntent, SetupFails
  <2>5. PrepareFails(p) \/ WriteRefused(p) => GoalsFit'
    BY <1>6 DEF PrepareFails, WriteRefused
  <2>6. PersistResults(p) => GoalsFit'
    BY <1>5 DEF PersistResults
  <2>7. QED
    BY <1>8, <2>1, <2>2, <2>3, <2>4, <2>5, <2>6 DEF Tune
<1>9. ASSUME NEW p \in Proc, Finish(p) PROVE GoalsFit'
  <2>1. FinishTune(p) => GoalsFit'
    <3>1. [proc[p] EXCEPT !.pc = "releasing"].pc = "releasing"
      BY <1>2 DEF ProcRec
    <3>2. FinishTune(p) => Go(p, [proc[p] EXCEPT !.pc = "releasing"])
      BY DEF FinishTune
    <3>3. QED
      BY <1>4, <3>1, <3>2
  <2>2. FinishTuneLost(p) \/ Release(p) \/ ReleaseLost(p) => GoalsFit'
    BY <1>6 DEF FinishTuneLost, Release, ReleaseLost
  <2>3. WriteBackErrors(p) => GoalsFit'
    BY <1>5 DEF WriteBackErrors
  <2>4. QED
    BY <1>9, <2>1, <2>2, <2>3 DEF Finish
<1>10. ASSUME NEW p \in Proc, Recover(p) PROVE GoalsFit'
  <2>1. ASSUME NEW r \in Run, RecoveryLock(p, r) PROVE GoalsFit'
    <3> DEFINE nw == [NoOperation EXCEPT !.pc = "rlocked", !.kind = "recovery",
                                         !.run = r, !.res = runs[r].res]
    <3>1. Go(p, nw) /\ nw.pc = "rlocked"
      BY <2>1 DEF RecoveryLock, NoOperation
    <3> HIDE DEF nw
    <3>2. QED
      BY <1>4, <3>1
  <2>2. ASSUME NEW src \in Owner, NEW o \in Owner, RecoveryStart(p, src, o) PROVE GoalsFit'
    <3>1. Go(p, [proc[p] EXCEPT !.pc = "active", !.own = o])
      BY <2>2 DEF RecoveryStart
    <3>2. [proc[p] EXCEPT !.pc = "active", !.own = o].pc = "active"
      BY <1>2 DEF ProcRec
    <3>3. QED
      BY <1>4, <3>1, <3>2, Zenon
  <2>3. RecoveryRefused(p) \/ RecoverySetupFails(p) \/ RecoveryComplete(p) \/ RecoveryLost(p)
        => GoalsFit'
    BY <1>6, Zenon DEF RecoveryRefused, RecoverySetupFails, RecoveryComplete, RecoveryLost,
       CompleteAttempt
  <2>4. QED
    BY <1>10, <2>1, <2>2, <2>3 DEF Recover
<1>11. ASSUME NEW p \in Proc, Environment(p) PROVE GoalsFit'
  <2>1. HeartbeatFails(p) => GoalsFit'
    <3> DEFINE w == proc[p]
               nw == [w EXCEPT !.healthy = FALSE]
    <3> SUFFICES ASSUME HeartbeatFails(p) PROVE GoalsFit'
      OBVIOUS
    <3>1. Go(p, nw) /\ w \in ProcRec /\ GoalFits(w)
      BY <1>2 DEF HeartbeatFails, GoalsFit
    <3> HIDE DEF w
    <3>2. nw \in ProcRec /\ GoalFits(nw)
      BY <3>1 DEF ProcRec, GoalFits
    <3> HIDE DEF nw
    <3>3. QED
      BY <3>1, <3>2, GoalsFitKept
  <2>2. StartupSkips(p) \/ SweepStops(p) \/ Crash(p) \/ ExitProcess(p) => GoalsFit'
    BY <1>6 DEF StartupSkips, SweepStops, Crash, ExitProcess
  <2>3. Heartbeat(p) => GoalsFit'
    BY <1>5 DEF Heartbeat
  <2>4. QED
    BY <1>11, <2>1, <2>2, <2>3 DEF Environment
<1>12. Tick \/ Delete \/ UNCHANGED vars => UNCHANGED proc
  BY DEF Tick, Delete, HttpDelete, RetentionSweep, DeleteRuns, vars
<1>13. QED
  BY <1>5, <1>7, <1>8, <1>9, <1>10, <1>11, <1>12, WritesFit DEF Next

\* What a call may leave on its loop: nothing new, its own owner or that one's base.
LEMMA LoopAfterCall ==
  ASSUME IInv, CInv, KInv, GoalsFit, NEW p \in Proc, proc[p].pc \in {"writing", "written"},
         loop' \in {loop, Applied(p)}
  PROVE  LET w == proc[p]
             v == owners[w.own]
         IN  /\ \A res \in Resource : res # w.res => loop'[res] = loop[res]
             /\ \/ loop'[w.res] = loop[w.res]
                \/ /\ w.goal = "perturb" /\ v.kind = "tune" /\ loop'[w.res] = w.own
                \/ /\ w.goal = "restore" /\ v.intent /\ loop'[w.res] = v.base
<1> DEFINE w == proc[p]
           v == owners[w.own]
<1>1. loop \in [Resource -> Owner \cup {None}]
  BY DEF IInv, TypeOK
<1>2. w.pc \in Guarded
  BY DEF Guarded
<1>3. /\ w.own \in Owner /\ v.kind = w.kind /\ v.run = w.run /\ w.res \in Resource
      /\ v.state = "active"
  BY <1>2, GuardOwn
<1>4. GoalFits(w)
  BY DEF GoalsFit
<1>5. CASE w.goal = "perturb"
  BY <1>1, <1>3, <1>4, <1>5 DEF Applied, GoalFits
<1>6. CASE w.goal = "restore"
  <2>1. w.kind \in {"tune", "recovery"}
    BY <1>4, <1>6 DEF GoalFits
  <2>2. CASE w.kind = "tune"
    <3>1. TuneFits(w, v, runs[w.run], loop[w.res])
      BY <1>2, <2>2 DEF KInv, TuneGuards
    <3>2. v.intent
      BY <3>1 DEF TuneFits
    <3>3. QED
      BY <1>1, <1>3, <1>6, <3>2 DEF Applied
  <2>3. CASE w.kind = "recovery"
    <3>1. /\ v.source \in Owner /\ EligibleSource(v.source, v.run)
          /\ owners[v.source].intent = v.intent
      BY <1>3, <2>3 DEF CInv, RowInv, RecoveryRows
    <3>2. v.intent
      BY <3>1 DEF CInv, RowInv, SourceRows, EligibleSource, RecoveryEligible
    <3>3. QED
      BY <1>1, <1>3, <1>6, <3>2 DEF Applied
  <2>4. QED
    BY <2>1, <2>2, <2>3
<1>7. CASE w.goal \notin {"perturb", "restore"}
  BY <1>7 DEF Applied
<1>8. QED
  BY <1>5, <1>6, <1>7

LEMMA AppliedKInv ==
  ASSUME IInv, IInv', CInv, KInv, GoalsFit, NEW p \in Proc, proc[p].pc = "writing",
         loop' \in {loop, Applied(p)}, UNCHANGED <<runs, owners, claims>>, TuneGuards'
  PROVE  KInv'
<1> DEFINE w == proc[p]
           v == owners[w.own]
           l == loop'[w.res]
<1>1. w.pc \in Guarded
  BY DEF Guarded
<1>2. /\ w.own \in Owner /\ w.res \in Resource /\ v.state = "active" /\ v.kind = w.kind
      /\ v.run = w.run /\ v.res = w.res /\ claims[w.res] = w.own
  BY <1>1, GuardOwn
<1>3. \A res \in Resource : res # w.res => loop'[res] = loop[res]
  BY LoopAfterCall
<1>4. \/ l = loop[w.res]
      \/ w.goal = "perturb" /\ v.kind = "tune" /\ l = w.own
      \/ w.goal = "restore" /\ v.intent /\ l = v.base
  BY LoopAfterCall
<1>5. CASE l = loop[w.res]
  <2>1. \A res \in Resource : loop'[res] = loop[res]
    BY <1>3, <1>5
  <2>2. Perturbed' /\ ConfirmedClean'
    BY <2>1 DEF KInv, Perturbed, ConfirmedClean, RecoveryEligible, Settled
  <2>3. QED
    BY <2>2 DEF KInv, NothingDeleted, StepsNeedIntent, NeverWrote, Bases, Before,
       RecoveryEligible, Settled
<1>6. CASE w.goal = "perturb" /\ v.kind = "tune" /\ l = w.own
  <2>1. TuneFits(w, v, runs[w.run], loop[w.res])
    BY <1>1, <1>2, <1>6 DEF KInv, TuneGuards
  <2>2. v.intent /\ v.step # "none" /\ runs[w.run].restore = "none"
    BY <1>6, <2>1 DEF TuneFits
  <2>3. Perturbed'
    <3> SUFFICES ASSUME NEW res \in Resource, loop'[res] # None
                 PROVE  /\ owners[loop'[res]].kind = "tune"
                        /\ owners[loop'[res]].res = res
                        /\ owners[loop'[res]].intent /\ owners[loop'[res]].step # "none"
                        /\ HeldFor(claims[res], owners, loop'[res]) \/ Settled(loop[res])'
      BY DEF Perturbed, RecoveryEligible
    <3>1. CASE res = w.res
      BY <1>2, <1>6, <2>2, <3>1 DEF HeldFor
    <3>2. CASE res # w.res
      BY <1>3, <3>2 DEF KInv, Perturbed, RecoveryEligible, Settled
    <3>3. QED
      BY <3>1, <3>2
  <2>4. ConfirmedClean'
    <3> SUFFICES ASSUME NEW o \in Owner, owners[o].kind = "tune",
                        runs[owners[o].run].restore = "confirmed", NEW res \in Resource
                 PROVE  loop'[res] # o
      BY DEF ConfirmedClean
    <3>1. o # w.own
      BY <1>2, <2>2
    <3>2. QED
      BY <1>3, <1>6, <3>1 DEF KInv, ConfirmedClean
  <2>5. QED
    BY <2>3, <2>4 DEF KInv, NothingDeleted, StepsNeedIntent, NeverWrote, Bases, Before,
       RecoveryEligible, Settled
<1>7. CASE w.goal = "restore" /\ v.intent /\ l = v.base
  <2>1. v.base # None => Before(w.own, w.res, v.base)
    BY <1>2, <1>7, SMTT(30) DEF KInv, Bases
  <2>2. Perturbed'
    <3> SUFFICES ASSUME NEW res \in Resource, loop'[res] # None
                 PROVE  /\ owners[loop'[res]].kind = "tune"
                        /\ owners[loop'[res]].res = res
                        /\ owners[loop'[res]].intent /\ owners[loop'[res]].step # "none"
                        /\ HeldFor(claims[res], owners, loop'[res]) \/ Settled(loop[res])'
      BY DEF Perturbed, RecoveryEligible
    <3>1. CASE res = w.res
      BY <1>7, <2>1, <3>1 DEF Before, RecoveryEligible, Settled
    <3>2. CASE res # w.res
      BY <1>3, <3>2 DEF KInv, Perturbed, RecoveryEligible, Settled
    <3>3. QED
      BY <3>1, <3>2
  <2>3. ConfirmedClean'
    <3> SUFFICES ASSUME NEW o \in Owner, owners[o].kind = "tune",
                        runs[owners[o].run].restore = "confirmed", NEW res \in Resource
                 PROVE  loop'[res] # o
      BY DEF ConfirmedClean
    <3>1. o # v.base
      <4>1. o # None
        BY ConstantsAssumption
      <4>2. QED
        BY <2>1, <4>1 DEF Before, Settled
    <3>2. QED
      BY <1>3, <1>7, <3>1 DEF KInv, ConfirmedClean
  <2>4. QED
    BY <2>2, <2>3 DEF KInv, NothingDeleted, StepsNeedIntent, NeverWrote, Bases, Before,
       RecoveryEligible, Settled
<1>8. QED
  BY <1>4, <1>5, <1>6, <1>7

LEMMA DriverReturnsKInv ==
  ASSUME IInv, IInv', CInv, KInv, GoalsFit, NEW p \in Proc, DriverReturns(p)
  PROVE  KInv'
<1> DEFINE w == proc[p]
           v == owners[w.own]
           b == runs[w.run]
<1>1. w \in ProcRec /\ w.pc = "writing" /\ UNCHANGED <<runs, owners, claims>>
  BY DEF DriverReturns, IInv, TypeOK
<1>2. PICK ok \in BOOLEAN : /\ Go(p, [w EXCEPT !.pc = "written", !.ok = ok])
                            /\ loop' \in IF ok THEN {Applied(p)} ELSE {loop, Applied(p)}
  BY DEF DriverReturns
<1> DEFINE nw == [w EXCEPT !.pc = "written", !.ok = ok]
<1>3. w.pc \in Guarded
  BY <1>1 DEF Guarded
<1>4. loop' \in {loop, Applied(p)} /\ (ok => loop' = Applied(p)) /\ Go(p, nw)
  BY <1>2
<1>5. w.kind = "tune" => TuneFits(w, v, b, loop[w.res])
  BY <1>3 DEF KInv, TuneGuards
<1>6. ok /\ w.goal = "restore" => loop'[w.res] = v.base
  <2>1. w.res \in Resource
    BY <1>3, GuardOwn
  <2>2. QED
    BY <1>4, <2>1 DEF Applied, IInv, TypeOK
<1> HIDE DEF w, v, b
<1>7. /\ nw \in ProcRec /\ nw.pc = "written" /\ nw.goal = w.goal /\ nw.own = w.own
      /\ nw.kind = w.kind /\ nw.run = w.run /\ nw.res = w.res /\ nw.ok = ok
  BY <1>1 DEF ProcRec, PCs, Locking, Guarded
<1> HIDE DEF nw
<1>8. w.kind = "tune" => TuneFits(nw, v, b, loop'[w.res])
  BY <1>1, <1>5, <1>6, <1>7 DEF TuneFits
<1>9. nw.kind = "tune" => TuneFits(nw, owners'[nw.own], runs'[nw.run], loop'[nw.res])
  BY <1>1, <1>7, <1>8 DEF v, b
<1>10. OthersFit(p)
  BY <1>3 DEF OthersFit, Locking, w
<1>11. TuneGuards'
  BY <1>4, <1>7, <1>9, <1>10, TuneGuardsKept
<1>12. QED
  BY <1>1, <1>4, <1>11, AppliedKInv DEF w

LEMMA CrashKInv ==
  ASSUME IInv, IInv', CInv, KInv, GoalsFit, NEW p \in Proc, Crash(p)
  PROVE  KInv'
<1>1. Go(p, ProcDown) /\ UNCHANGED <<runs, owners, claims>>
  BY DEF Crash
<1>2. CASE proc[p].pc = "writing"
  <2>1. loop' \in {loop, Applied(p)}
    BY <1>2 DEF Crash
  <2>2. ProcDown \in ProcRec /\ ProcDown.pc \notin Guarded
    BY RestTypes DEF Guarded
  <2>3. OthersFit(p)
    BY <1>2 DEF OthersFit, Locking, Guarded
  <2>4. TuneGuards'
    BY <1>1, <2>2, <2>3, TuneGuardsKept
  <2>5. QED
    BY <1>1, <1>2, <2>1, <2>4, AppliedKInv
<1>3. CASE proc[p].pc # "writing"
  <2>1. UNCHANGED loop
    BY <1>3 DEF Crash
  <2>2. QED
    BY <1>1, <2>1, IdleKInv
<1>4. QED
  BY <1>2, <1>3

-----------------------------------------------------------------------------
(* KInv: steps that change a run row only *)

\* No tune of run r is over.
Unsettled(r) == \A o \in Owner : owners[o].run = r => ~ Settled(o)

LEMMA OpenRun ==
  ASSUME CInv, NEW x \in Owner, owners[x].kind = "tune", ~ Settled(x)
  PROVE  Unsettled(owners[x].run)
  BY DEF CInv, RowInv, OneTune, Settled, Unsettled

\* What may be written into the row of run r: it stays what it says of recovery,
\* and confirms a restore only when the tune of r is on no loop.
RunFits(r, nr) ==
    \A o \in Owner :
        owners[o].kind = "tune" /\ owners[o].run = r =>
            /\ nr.recovery = runs[r].recovery
            /\ nr.restore = "confirmed" => \A res \in Resource : loop[res] # o

LEMMA RunKInv ==
  ASSUME IInv, IInv', CInv, KInv, NEW r \in Run, NEW nr, runs' = [runs EXCEPT ![r] = nr],
         UNCHANGED <<owners, claims, loop>>, TuneGuards', Unsettled(r), RunFits(r, nr)
  PROVE  KInv'
<1>1. runs'[r] = nr /\ \A q \in Run : q # r => runs'[q] = runs[q]
  BY DEF IInv, TypeOK
<1>2. \A o \in Owner : owners[o].kind = "tune" => owners[o].run \in Run
  BY DEF CInv, RowInv, OwnerRows
<1>3. \A o \in Owner : Settled(o) => Settled(o)'
  BY <1>1, <1>2 DEF Unsettled, Settled
<1>4. Keeps
  BY <1>3 DEF Keeps, RecoveryEligible
<1>5. NothingDeleted' /\ StepsNeedIntent'
  BY DEF KInv, NothingDeleted, StepsNeedIntent
<1>6. NeverWrote' /\ ConfirmedClean'
  BY <1>1, <1>2 DEF KInv, NeverWrote, ConfirmedClean, RunFits
<1>7. Bases'
  <2>1. \A o \in Owner : owners'[o].intent /\ owners'[o].base # None =>
             Before(o, owners'[o].res, owners'[o].base)
    BY DEF KInv, Bases
  <2>2. QED
    BY <1>4, <2>1, BasesKept
<1>8. Perturbed'
  <2> SUFFICES ASSUME NEW res \in Resource, loop[res] # None
               PROVE  HeldFor(claims'[res], owners', loop[res]) \/ Settled(loop[res])'
    BY <1>4, PerturbedKept
  <2>1. PICK o \in Owner : o = loop[res]
    BY DEF IInv, TypeOK
  <2>2. HeldFor(claims[res], owners, o) \/ Settled(o)
    BY <2>1 DEF KInv, Perturbed
  <2>3. Settled(o) => Settled(loop[res])'
    BY <1>3, <2>1 DEF Settled
  <2>4. QED
    BY <2>1, <2>2, <2>3
<1>9. QED
  BY <1>5, <1>6, <1>7, <1>8 DEF KInv

LEMMA StartRunKInv ==
  ASSUME IInv, IInv', CInv, KInv, NEW p \in Proc, NEW r \in Run, NEW res \in Resource,
         StartRun(p, r, res)
  PROVE  KInv'
<1> DEFINE nr == [runs[r] EXCEPT !.outcome = "running", !.res = res]
           nw == [NoOperation EXCEPT !.pc = "prepared", !.kind = "tune", !.run = r, !.res = res]
<1>1. /\ Go(p, nw) /\ runs' = [runs EXCEPT ![r] = nr] /\ runs[r].outcome = "absent"
      /\ UNCHANGED <<owners, claims, loop>> /\ proc[p].pc = "idle"
  BY DEF StartRun, IInv, TypeOK
<1>2. nw \in ProcRec /\ nw.pc = "prepared"
  BY DEF ProcRec, PCs, Locking, Guarded, NoOperation
<1>3. \A o \in Owner : owners[o].run # r
  BY <1>1 DEF CInv, RowInv, OwnerRows
<1> HIDE DEF nr, nw
<1>4. \A x \in Run : x # r => runs'[x] = runs[x]
  BY <1>1
<1>5. \A q \in Proc : q # p /\ proc[q].kind = "tune" => runs'[proc[q].run] = runs[proc[q].run]
  <2> SUFFICES ASSUME NEW q \in Proc, proc[q].kind = "tune"
               PROVE  runs'[proc[q].run] = runs[proc[q].run]
    OBVIOUS
  <2>1. proc[q].run \in Run /\ runs[proc[q].run].outcome # "absent"
    BY DEF IInv, LocalsOK, LocalsFit, RunsStarted
  <2>2. QED
    BY <1>1, <1>4, <2>1
<1>6. OthersFit(p)
  BY <1>1, <1>5 DEF OthersFit
<1>7. nw.pc \notin Guarded
  BY <1>2 DEF Guarded
<1>8. TuneGuards'
  BY <1>1, <1>2, <1>6, <1>7, UnguardedFits
<1>9. Unsettled(r) /\ RunFits(r, nr)
  BY <1>3 DEF Unsettled, RunFits
<1>10. QED
  BY <1>1, <1>8, <1>9, RunKInv

LEMMA PrepareFailsKInv ==
  ASSUME IInv, IInv', CInv, KInv, NEW p \in Proc, PrepareFails(p)
  PROVE  KInv'
<1> DEFINE r == proc[p].run
<1>1. /\ Go(p, NoOperation) /\ UNCHANGED <<owners, claims, loop>>
      /\ proc[p].kind = "tune" /\ proc[p].pc \in {"prepared", "locked"}
  BY DEF PrepareFails
<1>2. PICK outcome : runs' = [runs EXCEPT ![r].outcome = IF @ = "deleted" THEN @ ELSE outcome]
  BY DEF PrepareFails
<1> DEFINE out == IF runs[r].outcome = "deleted" THEN runs[r].outcome ELSE outcome
           nr == [runs[r] EXCEPT !.outcome = out]
<1>3. runs' = [runs EXCEPT ![r] = nr]
  BY <1>2
<1>4. r \in Run
  BY <1>1 DEF IInv, LocalsOK, LocalsFit
<1>5. \A o \in Owner : owners[o].run # r
  BY <1>1 DEF CInv, Fresh
<1> HIDE DEF nr
<1>6. \A q \in Proc : q # p /\ proc[q].kind = "tune" => runs'[proc[q].run] = runs[proc[q].run]
  <2> SUFFICES ASSUME NEW q \in Proc, q # p, proc[q].kind = "tune"
               PROVE  runs'[proc[q].run] = runs[proc[q].run]
    OBVIOUS
  <2>1. proc[q].run \in Run /\ proc[q].run # r
    BY <1>1 DEF IInv, LocalsOK, LocalsFit, CInv, OneStarter
  <2>2. QED
    BY <1>3, <2>1
<1>7. OthersFit(p)
  BY <1>1, <1>6 DEF OthersFit
<1>8. NoOperation \in ProcRec /\ NoOperation.pc \notin Guarded
  BY RestTypes DEF Guarded
<1>9. TuneGuards'
  BY <1>1, <1>7, <1>8, UnguardedFits
<1>10. Unsettled(r) /\ RunFits(r, nr)
  BY <1>5 DEF Unsettled, RunFits
<1> HIDE DEF r
<1>11. QED
  BY <1>1, <1>3, <1>4, <1>9, <1>10, RunKInv

\* A tune under its guard has not settled.
LEMMA GuardedTune ==
  ASSUME IInv, CInv, KInv, NEW p \in Proc, proc[p].pc \in Guarded, proc[p].kind = "tune"
  PROVE  /\ Unsettled(proc[p].run) /\ OthersFit(p)
         /\ \A o \in Owner : owners[o].kind = "tune" /\ owners[o].run = proc[p].run =>
                                o = proc[p].own
<1> DEFINE x == proc[p].own
<1>1. /\ x \in Owner /\ owners[x].kind = "tune" /\ owners[x].state = "active"
      /\ owners[x].run = proc[p].run
  BY GuardOwn
<1>2. Unsettled(owners[x].run)
  BY <1>1, OpenRun DEF Settled
<1>3. QED
  BY <1>1, <1>2 DEF CInv, RowInv, OneTune, OthersFit, Locking

LEMMA FinishTuneKInv ==
  ASSUME IInv, IInv', CInv, KInv, NEW p \in Proc, FinishTune(p)
  PROVE  KInv'
<1> DEFINE w == proc[p]
           r == w.run
           b == runs[r]
           v == owners[w.own]
           nw == [w EXCEPT !.pc = "releasing"]
<1>1. /\ w \in ProcRec /\ w.pc = "finishing" /\ w.kind = "tune" /\ r \in Run /\ Go(p, nw)
      /\ b \in RunRec /\ UNCHANGED <<lock, owners, claims, loop>>
  BY SMTT(30) DEF FinishTune, IInv, TypeOK, LocalsOK, LocalsFit
<1>2. PICK out \in Terminal, rest \in {"confirmed", "incomplete", b.restore} :
        /\ runs' = [runs EXCEPT ![r].outcome = out, ![r].restore = rest]
        /\ out = "completed" => v.intent
        /\ rest = "confirmed" => b.restore = "confirmed" \/ (v.intent /\ w.restored)
  <2> DEFINE touched == v.intent
             status == IF w.restored THEN "confirmed" ELSE "incomplete"
             outs == {"failed"} \cup (IF ~ touched THEN {} ELSE {IF b.results THEN "completed"
                                                  ELSE "aborted"})
             rests == IF touched THEN {status, b.restore} ELSE {b.restore}
  <2>1. \E out \in outs, rest \in rests :
          runs' = [runs EXCEPT ![r].outcome = out, ![r].restore = rest]
    BY DEF FinishTune
  <2>2. \A out \in outs : out \in Terminal /\ (out = "completed" => touched)
    BY DEF Terminal
  <2>3. \A rest \in rests :
          /\ rest \in {"confirmed", "incomplete", b.restore}
          /\ rest = "confirmed" => b.restore = "confirmed" \/ (touched /\ w.restored)
    OBVIOUS
  <2>4. QED
    BY <2>1, <2>2, <2>3
<1>3. w.pc \in Guarded
  BY <1>1 DEF Guarded
<1>4. TuneFits(w, v, b, loop[w.res])
  BY <1>1, <1>3 DEF KInv, TuneGuards
<1>5. /\ w.own \in Owner /\ v.res = w.res /\ w.res \in Resource
      /\ Unsettled(r) /\ OthersFit(p)
      /\ \A o \in Owner : owners[o].kind = "tune" /\ owners[o].run = r => o = w.own
  BY <1>1, <1>3, GuardOwn, GuardedTune
<1>6. rest = "confirmed" => \A res \in Resource : loop[res] # w.own
  <2> SUFFICES ASSUME rest = "confirmed", NEW res \in Resource, loop[res] = w.own
               PROVE  FALSE
    OBVIOUS
  <2>1. b.restore = "none"
    BY <1>1, <1>4 DEF TuneFits
  <2>2. v.intent /\ loop[w.res] = v.base
    BY <1>1, <1>2, <1>4, <2>1 DEF TuneFits
  <2>3. res = w.res
    BY <1>5, ConstantsAssumption DEF KInv, Perturbed
  <2>4. v.base = w.own /\ v.base # None
    BY <1>5, <2>2, <2>3, ConstantsAssumption
  <2>5. QED
    BY <1>5, <2>2, <2>4 DEF KInv, Bases, Before
<1> DEFINE nr == [b EXCEPT !.outcome = out, !.restore = rest]
<1>7. runs' = [runs EXCEPT ![r] = nr]
  BY <1>2
<1>8. runs \in [Run -> RunRec] /\ b = runs[r]
  BY DEF IInv, TypeOK
<1> HIDE DEF b, v
<1>9. nr.outcome = out /\ nr.restore = rest /\ nr.recovery = b.recovery
  BY <1>1 DEF RunRec
<1> HIDE DEF nr
<1>10. RunFits(r, nr)
  BY <1>5, <1>6, <1>8, <1>9 DEF RunFits
<1>11. runs'[r] = nr
  BY <1>1, <1>7, <1>8
<1> HIDE DEF w, r
<1>12. /\ nw \in ProcRec /\ nw.pc = "releasing" /\ nw.own = w.own
       /\ nw.kind = w.kind /\ nw.run = w.run /\ nw.res = w.res
  BY <1>1 DEF ProcRec, PCs, Locking, Guarded
<1> HIDE DEF nw
<1>13. TuneFits(nw, v, nr, loop[w.res])
  BY <1>1, <1>2, <1>4, <1>9, <1>12 DEF TuneFits
<1>14. TuneFits(nw, owners'[nw.own], runs'[nw.run], loop'[nw.res])
  BY <1>1, <1>11, <1>12, <1>13 DEF v, r
<1>15. TuneGuards'
  BY <1>1, <1>5, <1>12, <1>14, TuneGuardsKept
<1>16. QED
  BY <1>1, <1>5, <1>7, <1>10, <1>15, RunKInv DEF w

\* What a tune says of its run while it holds its guard: results, or an error
\* of its write-back.
LEMMA TuneRecordsKInv ==
  ASSUME IInv, IInv', CInv, KInv, NEW p \in Proc, WriteBackErrors(p) \/ PersistResults(p)
  PROVE  KInv'
<1> DEFINE w == proc[p]
           r == w.run
           b == runs[r]
           v == owners[w.own]
           nr == IF w.pc = "active" THEN [b EXCEPT !.results = TRUE]
                 ELSE [b EXCEPT !.outcome = "failed"]
<1>1. /\ UNCHANGED <<proc, owners, claims, loop>> /\ w.kind = "tune"
      /\ w.pc \in {"active", "releasing"}
      /\ runs' = [runs EXCEPT ![r] = nr]
  BY DEF WriteBackErrors, PersistResults, IInv, TypeOK, LocalsOK, LocalsFit
<1>2. r \in Run /\ b \in RunRec /\ w \in ProcRec /\ w.pc \in Guarded
  BY <1>1 DEF IInv, TypeOK, LocalsOK, LocalsFit, Guarded
<1>3. TuneFits(w, v, b, loop[w.res])
  BY <1>1, <1>2 DEF KInv, TuneGuards
<1>4. /\ w.own \in Owner /\ Unsettled(r) /\ OthersFit(p)
  BY <1>1, <1>2, GuardOwn, GuardedTune
<1>5. runs \in [Run -> RunRec] /\ b = runs[r]
  BY DEF IInv, TypeOK
<1> HIDE DEF b, v
<1>6. /\ nr.restore = b.restore /\ nr.recovery = b.recovery
      /\ nr.outcome = IF w.pc = "active" THEN b.outcome ELSE "failed"
  BY <1>2 DEF RunRec
<1> HIDE DEF nr
<1>7. RunFits(r, nr)
  BY <1>5, <1>6 DEF RunFits, KInv, ConfirmedClean
<1>8. runs'[r] = nr
  BY <1>1, <1>2, <1>5
<1>9. TuneFits(w, v, nr, loop[w.res])
  BY <1>1, <1>3, <1>6 DEF TuneFits, Terminal
<1>10. TuneFits(w, owners'[w.own], runs'[w.run], loop'[w.res])
  BY <1>1, <1>8, <1>9 DEF v
<1>11. Go(p, w)
  BY <1>1 DEF Go, IInv, TypeOK
<1> HIDE DEF r
<1>12. TuneGuards'
  BY <1>2, <1>4, <1>10, <1>11, TuneGuardsKept
<1>13. QED
  BY <1>1, <1>2, <1>4, <1>7, <1>12, RunKInv

-----------------------------------------------------------------------------
(* KInv: claims, settlements and recoveries *)

\* The claims whose loop is res are held for the same owner as before.
LEMMA HeldAsBefore ==
  ASSUME IInv, NEW res \in Resource, NEW l, HeldFor(claims[res], owners, l),
         claims'[res] = claims[res],
         claims[res] # None => /\ owners'[claims[res]].kind = owners[claims[res]].kind
                               /\ owners'[claims[res]].source = owners[claims[res]].source
  PROVE  HeldFor(claims'[res], owners', l)
  BY DEF HeldFor

LEMMA SettledLater ==
  ASSUME IInv, Keeps, NEW res \in Resource, loop[res] # None, Settled(loop[res]), UNCHANGED loop
  PROVE  Settled(loop[res])'
<1>1. PICK o \in Owner : o = loop[res]
  BY DEF IInv, TypeOK
<1>2. Settled(o)'
  BY <1>1 DEF Keeps
<1>3. QED
  BY <1>1, <1>2 DEF Settled

LEMMA CreateAndClaimKInv ==
  ASSUME IInv, IInv', CInv, KInv, NEW p \in Proc, NEW o \in Owner, CreateAndClaim(p, o)
  PROVE  KInv'
<1> DEFINE w == proc[p]
           r == w.run
           next == IF w.kind = "tune" THEN "owned" ELSE "active"
           new == [NoOwnerRow EXCEPT !.state = "active", !.kind = w.kind, !.run = r, !.res = w.res]
           nw == [w EXCEPT !.own = o, !.pc = next]
<1>1. /\ w.pc = "locked" /\ owners[o].state = "absent" /\ claims[w.res] = None
      /\ r # None => runs[r].outcome # "deleted"
      /\ owners' = [owners EXCEPT ![o] = new]
      /\ claims' = [claims EXCEPT ![w.res] = o]
      /\ Go(p, nw) /\ UNCHANGED <<lock, runs, loop>>
  BY DEF CreateAndClaim
<1>2. w \in ProcRec /\ w.res \in Resource
  BY <1>1 DEF IInv, TypeOK, LocalsOK, LocalsFit
<1>3. w.kind = "tune" => /\ r \in Run /\ runs[r].outcome = "running"
                         /\ runs[r].restore = "none" /\ runs[r].recovery = "none"
  BY <1>1, ConstantsAssumption DEF CInv, Fresh, IInv, LocalsOK, LocalsFit
<1>4. /\ new.kind = w.kind /\ new.run = r /\ new.res = w.res /\ new.state = "active"
      /\ ~ new.intent /\ new.step = "none" /\ new.base = None
  BY DEF NoOwnerRow
<1> HIDE DEF new
<1>5. owners'[o] = new /\ \A q \in Owner : q # o => owners'[q] = owners[q]
  BY <1>1 DEF IInv, TypeOK
<1>6. owners[o].kind = "none" /\ ~ RecoveryEligible(o) /\ ~ Settled(o)
  BY <1>1 DEF CInv, RowInv, OwnerRows, RecoveryEligible, Settled
<1>7. Keeps
  <2> SUFFICES ASSUME NEW q \in Owner, q # o
               PROVE  /\ owners'[q].kind = owners[q].kind /\ owners'[q].res = owners[q].res
                      /\ RecoveryEligible(q) => RecoveryEligible(q)'
                      /\ Settled(q) => Settled(q)'
    BY <1>6 DEF Keeps
  <2>1. QED
    BY <1>1, <1>5 DEF RecoveryEligible, Settled
<1>8. NothingDeleted' /\ StepsNeedIntent'
  BY <1>4, <1>5 DEF KInv, NothingDeleted, StepsNeedIntent
<1>9. NeverWrote'
  BY <1>1, <1>4, <1>5 DEF KInv, NeverWrote
<1>10. ConfirmedClean'
  BY <1>1, <1>3, <1>4, <1>5 DEF KInv, ConfirmedClean
<1>11. Bases'
  <2>1. \A q \in Owner : owners'[q].intent /\ owners'[q].base # None =>
             Before(q, owners'[q].res, owners'[q].base)
    BY <1>4, <1>5 DEF KInv, Bases
  <2>2. QED
    BY <1>7, <2>1, BasesKept
<1>12. Perturbed'
  <2> SUFFICES ASSUME NEW res \in Resource, loop[res] # None
               PROVE  HeldFor(claims'[res], owners', loop[res]) \/ Settled(loop[res])'
    BY <1>1, <1>7, PerturbedKept
  <2>1. HeldFor(claims[res], owners, loop[res]) \/ Settled(loop[res])
    BY DEF KInv, Perturbed
  <2>2. Settled(loop[res]) => Settled(loop[res])'
    BY <1>1, <1>7, SettledLater
  <2>3. CASE res = w.res
    BY <1>1, <2>1, <2>2, <2>3 DEF HeldFor
  <2>4. CASE res # w.res
    <3>1. claims'[res] = claims[res] /\ (claims[res] # None => claims[res] \in Owner)
      BY <1>1, <2>4 DEF IInv, TypeOK
    <3>2. claims[res] # o
      BY <1>1, ConstantsAssumption DEF CInv, RowInv, ClaimsFit
    <3>3. claims[res] # None => owners'[claims[res]] = owners[claims[res]]
      BY <1>5, <3>1, <3>2
    <3>4. QED
      BY <2>1, <2>2, <3>1, <3>3, HeldAsBefore
  <2>5. QED
    BY <2>3, <2>4
<1>13. w.pc \in Locking
  BY <1>1 DEF Locking
<1>14. OthersFit(p)
  BY <1>13 DEF OthersFit
<1> HIDE DEF w, next
<1>15. next = IF w.kind = "tune" THEN "owned" ELSE "active"
  BY DEF next
<1>16. /\ nw \in ProcRec /\ nw.pc = next /\ nw.own = o /\ nw.kind = w.kind
       /\ nw.run = w.run /\ nw.res = w.res
  BY <1>2, <1>15, ZenonT(60) DEF ProcRec, PCs, Locking, Guarded
<1> HIDE DEF nw
<1>17. w.kind = "tune" => TuneFits(nw, new, runs[r], loop[w.res])
  BY <1>3, <1>4, <1>15, <1>16 DEF TuneFits
<1>18. nw.kind = "tune" => TuneFits(nw, owners'[nw.own], runs'[nw.run], loop'[nw.res])
  BY <1>1, <1>5, <1>16, <1>17
<1>19. TuneGuards'
  BY <1>1, <1>14, <1>16, <1>18, TuneGuardsKept
<1>20. QED
  BY <1>8, <1>9, <1>10, <1>11, <1>12, <1>19 DEF KInv

LEMMA RecoveryStartKInv ==
  ASSUME IInv, IInv', CInv, KInv, NEW p \in Proc, NEW src \in Owner, NEW o \in Owner,
         RecoveryStart(p, src, o)
  PROVE  KInv'
<1> DEFINE w == proc[p]
           r == w.run
           s == owners[src]
           nr == [runs[r] EXCEPT !.recovery = "running"]
           new == [NoOwnerRow EXCEPT
                  !.state = "active", !.kind = "recovery", !.run = r,
                  !.res = s.res, !.intent = s.intent,
                  !.base = s.base, !.source = src, !.attempt = "running"]
           nw == [w EXCEPT !.pc = "active", !.own = o]
<1>1. /\ w.pc = "rlocked" /\ owners[o].state = "absent" /\ claims[s.res] = src
      /\ EligibleSource(src, r) /\ s.res = w.res
      /\ owners' = [owners EXCEPT ![o] = new]
      /\ claims' = [claims EXCEPT ![s.res] = o]
      /\ runs' = [runs EXCEPT ![r].recovery = "running"]
      /\ Go(p, nw) /\ UNCHANGED <<lock, loop>>
  BY DEF RecoveryStart, StartWithClaim
<1>2. w \in ProcRec /\ w.res \in Resource /\ w.kind = "recovery" /\ r \in Run
  BY <1>1 DEF IInv, TypeOK, LocalsOK, LocalsFit
<1>3. s.kind = "tune" /\ s.run = r /\ ~ Settled(src) /\ src # o
  BY <1>1 DEF EligibleSource, Settled
<1>4. Unsettled(r)
  BY <1>3, OpenRun
<1>5. /\ runs'[r].outcome = runs[r].outcome /\ runs'[r].restore = runs[r].restore
      /\ runs'[r].recovery = "running" /\ \A x \in Run : x # r => runs'[x] = runs[x]
  <2>1. runs \in [Run -> RunRec] /\ runs[r] \in RunRec
    BY <1>2 DEF IInv, TypeOK
  <2>2. runs' = [runs EXCEPT ![r] = nr]
    BY <1>1
  <2>3. nr.outcome = runs[r].outcome /\ nr.restore = runs[r].restore /\ nr.recovery = "running"
    BY <2>1 DEF RunRec
  <2> HIDE DEF nr
  <2>4. QED
    BY <1>2, <2>1, <2>2, <2>3
<1> HIDE DEF s
<1>6. /\ new.kind = "recovery" /\ new.run = r /\ new.res = s.res /\ new.state = "active"
      /\ new.intent = s.intent /\ new.base = s.base /\ new.step = "none" /\ new.source = src
  BY DEF NoOwnerRow
<1> HIDE DEF new
<1>7. owners'[o] = new /\ \A q \in Owner : q # o => owners'[q] = owners[q]
  BY <1>1 DEF IInv, TypeOK
<1>8. owners[o].kind = "none" /\ ~ RecoveryEligible(o) /\ ~ Settled(o)
  BY <1>1 DEF CInv, RowInv, OwnerRows, RecoveryEligible, Settled
<1>9. \A q \in Owner : owners[q].kind = "tune" => owners[q].run \in Run
  BY DEF CInv, RowInv, OwnerRows
<1>10. Keeps
  <2> SUFFICES ASSUME NEW q \in Owner, q # o
               PROVE  /\ owners'[q].kind = owners[q].kind /\ owners'[q].res = owners[q].res
                      /\ RecoveryEligible(q) => RecoveryEligible(q)'
                      /\ Settled(q) => Settled(q)'
    BY <1>8 DEF Keeps
  <2>1. owners'[q] = owners[q]
    BY <1>7
  <2>2. Settled(q) => Settled(q)'
    BY <1>4, <1>5, <1>9, <2>1 DEF Unsettled, Settled
  <2>3. QED
    BY <2>1, <2>2 DEF RecoveryEligible
<1>11. NothingDeleted' /\ StepsNeedIntent'
  BY <1>6, <1>7 DEF KInv, NothingDeleted, StepsNeedIntent
<1>12. NeverWrote' /\ ConfirmedClean'
  BY <1>1, <1>5, <1>6, <1>7, <1>9 DEF KInv, NeverWrote, ConfirmedClean
<1>13. Bases'
  <2>1. s.intent /\ s.base # None => Before(o, s.res, s.base)
    <3>1. s.intent /\ s.base # None => Before(src, s.res, s.base)
      BY DEF KInv, Bases, s
    <3>2. QED
      BY <1>8, <3>1 DEF Before
  <2>2. \A q \in Owner : owners'[q].intent /\ owners'[q].base # None =>
             Before(q, owners'[q].res, owners'[q].base)
    BY <1>6, <1>7, <2>1 DEF KInv, Bases
  <2>3. QED
    BY <1>10, <2>2, BasesKept
<1>14. Perturbed'
  <2> SUFFICES ASSUME NEW res \in Resource, loop[res] # None
               PROVE  HeldFor(claims'[res], owners', loop[res]) \/ Settled(loop[res])'
    BY <1>1, <1>10, PerturbedKept
  <2>1. HeldFor(claims[res], owners, loop[res]) \/ Settled(loop[res])
    BY DEF KInv, Perturbed
  <2>2. Settled(loop[res]) => Settled(loop[res])'
    BY <1>1, <1>10, SettledLater
  <2>3. CASE res = s.res
    <3>1. HeldFor(claims[res], owners, loop[res]) => loop[res] = src
      BY <1>1, <1>3, <2>3 DEF HeldFor, s
    <3>2. claims'[res] = o /\ o # None
      BY <1>1, <2>3, ConstantsAssumption DEF IInv, TypeOK
    <3>3. loop[res] = src => HeldFor(claims'[res], owners', loop[res])
      BY <1>6, <1>7, <3>2 DEF HeldFor
    <3>4. QED
      BY <2>1, <2>2, <3>1, <3>3
  <2>4. CASE res # s.res
    <3>1. claims'[res] = claims[res] /\ (claims[res] # None => claims[res] \in Owner)
      BY <1>1, <2>4 DEF IInv, TypeOK
    <3>2. claims[res] # o
      BY <1>1, ConstantsAssumption DEF CInv, RowInv, ClaimsFit
    <3>3. claims[res] # None => owners'[claims[res]] = owners[claims[res]]
      BY <1>7, <3>1, <3>2
    <3>4. QED
      BY <2>1, <2>2, <3>1, <3>3, HeldAsBefore
  <2>5. QED
    BY <2>3, <2>4
<1>15. OthersFit(p)
  BY <1>1 DEF OthersFit, Locking
<1> HIDE DEF w
<1>16. nw \in ProcRec /\ nw.kind = "recovery"
  BY <1>2 DEF ProcRec, PCs, Locking, Guarded
<1> HIDE DEF nw
<1>17. TuneGuards'
  BY <1>1, <1>15, <1>16, UnguardedFits
<1>18. QED
  BY <1>11, <1>12, <1>13, <1>14, <1>17 DEF KInv

\* An active owner that is not a recovery is retired without a recovery: its
\* claim goes, and if its loop is perturbed the loop is settled.
LEMMA RetireKInv ==
  ASSUME IInv, IInv', CInv, KInv, NEW o \in Owner, NEW nv,
         owners[o].state = "active", owners[o].kind # "recovery",
         owners' = [owners EXCEPT ![o] = nv],
         claims' = [claims EXCEPT ![owners[o].res] = None], UNCHANGED <<runs, loop>>,
         nv.state \in {"released", "orphaned"}, nv.state = "orphaned" => ~ nv.eligible,
         /\ nv.kind = owners[o].kind /\ nv.run = owners[o].run /\ nv.res = owners[o].res
         /\ nv.intent = owners[o].intent /\ nv.step = owners[o].step
         /\ nv.base = owners[o].base,
         owners[o].kind = "tune" => runs[owners[o].run].outcome \in Terminal,
         TuneGuards'
  PROVE  KInv'
<1>1. owners'[o] = nv /\ \A q \in Owner : q # o => owners'[q] = owners[q]
  BY DEF IInv, TypeOK
<1>2. Keeps
  <2> SUFFICES ASSUME NEW q \in Owner
               PROVE  /\ owners'[q].kind = owners[q].kind /\ owners'[q].res = owners[q].res
                      /\ RecoveryEligible(q) => RecoveryEligible(q)'
                      /\ Settled(q) => Settled(q)'
    BY DEF Keeps
  <2>1. CASE q = o
    BY <1>1, <2>1 DEF RecoveryEligible, Settled
  <2>2. CASE q # o
    BY <1>1, <2>2 DEF RecoveryEligible, Settled
  <2>3. QED
    BY <2>1, <2>2
<1>3. NothingDeleted' /\ StepsNeedIntent'
  BY <1>1 DEF KInv, NothingDeleted, StepsNeedIntent
<1>4. NeverWrote' /\ ConfirmedClean'
  BY <1>1 DEF KInv, NeverWrote, ConfirmedClean
<1>5. Bases'
  <2>1. \A q \in Owner : owners'[q].intent /\ owners'[q].base # None =>
             Before(q, owners'[q].res, owners'[q].base)
    BY <1>1 DEF KInv, Bases
  <2>2. QED
    BY <1>2, <2>1, BasesKept
<1>6. Perturbed'
  <2> SUFFICES ASSUME NEW res \in Resource, loop[res] # None
               PROVE  HeldFor(claims'[res], owners', loop[res]) \/ Settled(loop[res])'
    BY <1>2, PerturbedKept
  <2>1. HeldFor(claims[res], owners, loop[res]) \/ Settled(loop[res])
    BY DEF KInv, Perturbed
  <2>2. Settled(loop[res]) => Settled(loop[res])'
    BY <1>2, SettledLater
  <2>3. CASE loop[res] = o
    <3>1. owners[o].kind = "tune"
      BY <2>3 DEF KInv, Perturbed
    <3>2. runs[owners[o].run].restore # "confirmed"
      BY <2>3, <3>1 DEF KInv, ConfirmedClean
    <3>3. Settled(o)'
      BY <1>1, <3>1, <3>2 DEF Settled
    <3>4. QED
      BY <2>3, <3>3 DEF Settled
  <2>4. CASE loop[res] # o /\ claims[res] = o
    BY <2>1, <2>2, <2>4 DEF HeldFor
  <2>5. CASE claims[res] # o
    <3>1. claims'[res] = claims[res] /\ (claims[res] # None => claims[res] \in Owner)
      <4>1. claims[owners[o].res] = o
        BY DEF CInv, RowInv, ActiveHolds, HoldsClaim
      <4>2. QED
        BY <2>5, <4>1 DEF IInv, TypeOK
    <3>2. claims[res] # None => owners'[claims[res]] = owners[claims[res]]
      BY <1>1, <2>5, <3>1
    <3>3. QED
      BY <2>1, <2>2, <3>1, <3>2, HeldAsBefore
  <2>6. QED
    BY <2>3, <2>4, <2>5
<1>7. QED
  BY <1>3, <1>4, <1>5, <1>6 DEF KInv

LEMMA ReleaseKInv ==
  ASSUME IInv, IInv', CInv, KInv, NEW p \in Proc, Release(p)
  PROVE  KInv'
<1> DEFINE w == proc[p]
           o == w.own
           v == owners[o]
           nv == [v EXCEPT !.state = "released"]
<1>1. /\ owners' = [owners EXCEPT ![o] = nv]
      /\ claims' = [claims EXCEPT ![v.res] = None]
      /\ UNCHANGED <<runs, loop>> /\ Go(p, NoOperation)
      /\ \/ w.pc = "releasing"
         \/ w.pc = "active" /\ w.kind = "pid"
  BY DEF Release, CanRelease
<1>2. w.pc \in Guarded
  BY <1>1 DEF Guarded
<1>3. o \in Owner /\ v.state = "active" /\ v.kind = w.kind /\ v.run = w.run /\ v \in OwnerRec
  BY <1>2, GuardOwn DEF IInv, TypeOK
<1>4. w.pc = "releasing" => w.kind = "tune"
  BY DEF IInv, LocalsOK, LocalsFit
<1>5. v.kind = "tune" => runs[v.run].outcome \in Terminal
  <2> SUFFICES ASSUME v.kind = "tune" PROVE runs[v.run].outcome \in Terminal
    OBVIOUS
  <2>1. w.kind = "tune" /\ w.pc = "releasing"
    BY <1>1, <1>3
  <2>2. TuneFits(w, v, runs[w.run], loop[w.res])
    BY <1>2, <2>1 DEF KInv, TuneGuards
  <2>3. QED
    BY <1>3, <2>1, <2>2 DEF TuneFits
<1>6. v.kind # "recovery"
  BY <1>1, <1>3, <1>4
<1>7. TuneGuards'
  <2>1. NoOperation \in ProcRec /\ NoOperation.pc \notin Guarded
    BY RestTypes DEF Guarded
  <2>2. OthersFit(p)
    BY <1>2 DEF OthersFit, Locking
  <2>3. QED
    BY <1>1, <2>1, <2>2, UnguardedFits
<1> HIDE DEF v
<1>8. /\ nv.kind = v.kind /\ nv.run = v.run /\ nv.res = v.res /\ nv.intent = v.intent
      /\ nv.step = v.step /\ nv.base = v.base /\ nv.state = "released"
  BY <1>3 DEF OwnerRec
<1> HIDE DEF nv, o
<1>9. QED
  BY <1>1, <1>3, <1>5, <1>6, <1>7, <1>8, RetireKInv DEF v

LEMMA SweepGuards ==
  ASSUME IInv, KInv, NEW p \in Proc, proc[p].pc = "exported",
         Go(p, [proc[p] EXCEPT !.pc = "sweeping", !.own = None])
  PROVE  TuneGuards'
<1> DEFINE nw == [proc[p] EXCEPT !.pc = "sweeping", !.own = None]
<1>1. nw \in ProcRec /\ nw.pc = "sweeping"
  BY SweepNext
<1>2. Go(p, nw)
  OBVIOUS
<1>3. OthersFit(p)
  BY DEF OthersFit, Locking
<1> HIDE DEF nw
<1>4. nw.pc \notin Guarded
  BY <1>1 DEF Guarded
<1>5. QED
  BY <1>1, <1>2, <1>3, <1>4, UnguardedFits

LEMMA SweepRetireKInv ==
  ASSUME IInv, IInv', CInv, KInv, NEW p \in Proc, SweepRetire(p)
  PROVE  KInv'
<1> DEFINE o == proc[p].own
           v == owners[o]
           nv == [v EXCEPT !.state = "orphaned", !.eligible = FALSE]
<1>1. /\ proc[p].pc = "exported" /\ v.kind # "recovery"
      /\ v.kind = "tune" => runs[v.run].outcome # "running"
      /\ Stale(o) /\ claims' = [claims EXCEPT ![v.res] = None]
      /\ UNCHANGED <<runs, loop>>
      /\ Go(p, [proc[p] EXCEPT !.pc = "sweeping", !.own = None])
  BY DEF SweepRetire, MarkOrphanedUnrecoverable
<1>2. o \in Owner /\ v.state = "active" /\ v \in OwnerRec
  BY <1>1 DEF IInv, TypeOK, LocalsOK, LocalsFit, Stale, HoldsClaim
<1>3. owners' = [owners EXCEPT ![o] = nv]
  BY <1>2 DEF SweepRetire, MarkOrphanedUnrecoverable, IInv, TypeOK
<1>4. TuneGuards'
  BY <1>1, SweepGuards
<1>5. v.kind = "tune" => runs[v.run].outcome \in Terminal
  <2> SUFFICES ASSUME v.kind = "tune" PROVE runs[v.run].outcome \in Terminal
    OBVIOUS
  <2>1. v.run \in Run /\ runs[v.run].outcome \notin {"absent", "deleted"}
    BY <1>2 DEF CInv, RowInv, OwnerRows
  <2>2. runs[v.run] \in RunRec
    BY <2>1 DEF IInv, TypeOK
  <2>3. QED
    BY <1>1, <2>1, <2>2 DEF RunRec
<1> HIDE DEF v
<1>6. /\ nv.kind = v.kind /\ nv.run = v.run /\ nv.res = v.res /\ nv.intent = v.intent
      /\ nv.step = v.step /\ nv.base = v.base /\ nv.state = "orphaned" /\ ~ nv.eligible
  BY <1>2 DEF OwnerRec
<1> HIDE DEF nv, o
<1>7. QED
  BY <1>1, <1>2, <1>3, <1>4, <1>5, <1>6, RetireKInv DEF v

LEMMA SweepOrphanKInv ==
  ASSUME IInv, IInv', CInv, KInv, NEW p \in Proc, SweepOrphan(p)
  PROVE  KInv'
<1> DEFINE o == proc[p].own
           v == owners[o]
           r == v.run
           b == runs[r]
           e == RecoveryEligible(o)
           next == IF e THEN "eligible" ELSE "not_recoverable"
           nv == [v EXCEPT !.state = "orphaned", !.eligible = e]
           nr == [b EXCEPT !.outcome = "failed", !.restore = "incomplete", !.recovery = next]
<1>1. /\ proc[p].pc = "exported" /\ Stale(o) /\ v.kind = "tune"
      /\ runs' = [runs EXCEPT ![r].outcome = "failed", ![r].restore = "incomplete",
                              ![r].recovery = next]
      /\ claims' = IF e THEN claims ELSE [claims EXCEPT ![v.res] = None]
      /\ UNCHANGED loop
      /\ Go(p, [proc[p] EXCEPT !.pc = "sweeping", !.own = None])
  BY ZenonT(60) DEF SweepOrphan, MarkOrphaned
<1>2. o \in Owner /\ v.state = "active" /\ v \in OwnerRec /\ claims[v.res] = o
  BY <1>1, ZenonT(60) DEF IInv, TypeOK, LocalsOK, LocalsFit, Stale, HoldsClaim
<1>3. owners' = [owners EXCEPT ![o] = nv] /\ runs' = [runs EXCEPT ![r] = nr]
  <2>1. owners' = [owners EXCEPT ![o].state = "orphaned", ![o].eligible = e]
    BY ZenonT(60) DEF SweepOrphan, MarkOrphaned
  <2>2. QED
    BY <1>1, <2>1, ZenonT(60)
<1>4. r \in Run /\ b \in RunRec
  BY <1>1, <1>2, ZenonT(60) DEF CInv, RowInv, OwnerRows, IInv, TypeOK
<1>5. TuneGuards'
  BY <1>1, SweepGuards, ZenonT(60)
<1>6. ~ e => v.step = "none"
  BY <1>1, <1>2, ZenonT(60) DEF KInv, StepsNeedIntent, RecoveryEligible
<1>7. Unsettled(r) /\ ~ Settled(o)
  <2>1. ~ Settled(o)
    BY <1>2 DEF Settled
  <2>2. QED
    BY <1>1, <1>2, <2>1, OpenRun, Zenon
<1>8. (next = "not_recoverable" => ~ e) /\ e \in BOOLEAN
  BY DEF RecoveryEligible
<1> HIDE DEF v, b, e, next
<1>9. /\ nv.kind = v.kind /\ nv.run = v.run /\ nv.res = v.res /\ nv.intent = v.intent
      /\ nv.step = v.step /\ nv.base = v.base /\ nv.state = "orphaned"
      /\ nv.source = v.source
  BY <1>2 DEF OwnerRec
<1>10. nr.restore = "incomplete" /\ nr.recovery = next
  BY <1>4 DEF RunRec
<1> HIDE DEF nv, nr
<1>11. owners'[o] = nv /\ \A q \in Owner : q # o => owners'[q] = owners[q]
  BY <1>3 DEF IInv, TypeOK
<1>12. runs'[r] = nr /\ \A x \in Run : x # r => runs'[x] = runs[x]
  BY <1>3, <1>4 DEF IInv, TypeOK
<1>13. \A q \in Owner : /\ owners'[q].kind = owners[q].kind /\ owners'[q].run = owners[q].run
                        /\ owners'[q].res = owners[q].res
                        /\ owners'[q].intent = owners[q].intent
                        /\ owners'[q].step = owners[q].step
                        /\ owners'[q].base = owners[q].base
                        /\ owners'[q].source = owners[q].source
  BY <1>9, <1>11 DEF v
<1>14. \A q \in Owner : owners[q].kind = "tune" => owners[q].run \in Run
  BY DEF CInv, RowInv, OwnerRows
<1>15. Keeps
  <2> SUFFICES ASSUME NEW q \in Owner
               PROVE  /\ owners'[q].kind = owners[q].kind /\ owners'[q].res = owners[q].res
                      /\ RecoveryEligible(q) => RecoveryEligible(q)'
                      /\ Settled(q) => Settled(q)'
    BY DEF Keeps
  <2>1. RecoveryEligible(q) => RecoveryEligible(q)'
    BY <1>13 DEF RecoveryEligible
  <2>2. Settled(q) => q # o /\ owners[q].run # r /\ owners[q].run \in Run
    BY <1>7, <1>14 DEF Unsettled, Settled
  <2>3. Settled(q) => Settled(q)'
    BY <1>11, <1>12, <2>2 DEF Settled
  <2>4. QED
    BY <1>13, <2>1, <2>3
<1>16. NothingDeleted'
  BY <1>9, <1>11 DEF KInv, NothingDeleted
<1>17. StepsNeedIntent'
  BY <1>13 DEF KInv, StepsNeedIntent
<1>18. NeverWrote'
  <2> SUFFICES ASSUME NEW q \in Owner, owners[q].kind = "tune",
                      runs'[owners[q].run].recovery = "not_recoverable"
               PROVE  owners[q].step = "none"
    BY <1>13 DEF NeverWrote
  <2>1. CASE owners[q].run = r
    <3>1. q = o
      BY <1>1, <1>2, <2>1, Zenon DEF CInv, RowInv, OneTune, v
    <3>2. ~ e
      BY <1>8, <1>10, <1>12, <2>1
    <3>3. QED
      BY <1>6, <3>1, <3>2, SMTT(30) DEF v
  <2>2. CASE owners[q].run # r
    BY <1>12, <1>14, <2>2 DEF KInv, NeverWrote
  <2>3. QED
    BY <2>1, <2>2
<1>19. ConfirmedClean'
  <2> SUFFICES ASSUME NEW q \in Owner, owners[q].kind = "tune",
                      runs'[owners[q].run].restore = "confirmed", NEW res \in Resource
               PROVE  loop[res] # q
    BY <1>1, <1>13 DEF ConfirmedClean
  <2>1. owners[q].run # r
    BY <1>10, <1>12
  <2>2. QED
    BY <1>12, <1>14, <2>1 DEF KInv, ConfirmedClean
<1>20. Bases'
  <2>1. \A q \in Owner : owners'[q].intent /\ owners'[q].base # None =>
             Before(q, owners'[q].res, owners'[q].base)
    BY <1>13 DEF KInv, Bases
  <2>2. QED
    BY <1>15, <2>1, BasesKept
<1>21. Perturbed'
  <2> SUFFICES ASSUME NEW res \in Resource, loop[res] # None
               PROVE  HeldFor(claims'[res], owners', loop[res]) \/ Settled(loop[res])'
    BY <1>1, <1>15, PerturbedKept
  <2>1. HeldFor(claims[res], owners, loop[res]) \/ Settled(loop[res])
    BY DEF KInv, Perturbed
  <2>2. Settled(loop[res]) => Settled(loop[res])'
    BY <1>1, <1>15, SettledLater
  <2>3. CASE claims'[res] = claims[res]
    <3>1. claims[res] # None => /\ owners'[claims[res]].kind = owners[claims[res]].kind
                                /\ owners'[claims[res]].source = owners[claims[res]].source
      BY <1>13 DEF IInv, TypeOK
    <3>2. QED
      BY <2>1, <2>2, <2>3, <3>1, HeldAsBefore
  <2>4. CASE claims'[res] # claims[res]
    <3>1. ~ e /\ res = v.res
      BY <1>1, <2>4, SMTT(30) DEF IInv, TypeOK
    <3>2. HeldFor(claims[res], owners, loop[res]) => loop[res] = o
      BY <1>1, <1>2, <3>1, Zenon DEF HeldFor, v
    <3>3. loop[res] # o
      BY <3>1 DEF KInv, Perturbed, e
    <3>4. QED
      BY <2>1, <2>2, <3>2, <3>3
  <2>5. QED
    BY <2>3, <2>4
<1>22. QED
  BY <1>5, <1>16, <1>17, <1>18, <1>19, <1>20, <1>21, SMTT(30) DEF KInv

\* What the end of an attempt leaves of an owner row.
RowKept(q) ==
    /\ owners'[q].kind = owners[q].kind /\ owners'[q].run = owners[q].run
    /\ owners'[q].res = owners[q].res /\ owners'[q].source = owners[q].source
    /\ owners'[q].intent = owners[q].intent /\ owners'[q].step = owners[q].step
    /\ owners'[q].base = owners[q].base /\ owners'[q].state # "deleted"

\* The claim is back with the source, or the loop is back where it was.
AttemptOver(src, r, res) ==
    \/ /\ claims'[res] = src
       /\ runs'[r].restore = "confirmed" => runs[r].restore = "confirmed"
    \/ claims'[res] = None /\ loop[res] = owners[src].base

LEMMA AttemptEndsKInv ==
  ASSUME IInv, IInv', CInv, KInv, NEW o \in Owner, NEW src \in Owner, NEW r \in Run,
         NEW res \in Resource, owners[o].state = "active", owners[o].kind = "recovery",
         owners[o].source = src, owners[o].run = r, owners[o].res = res,
         RowKept(o), RowKept(src),
         \A q \in Owner : q # o /\ q # src => owners'[q] = owners[q],
         \A x \in Run : x # r => runs'[x] = runs[x],
         runs'[r].recovery # "not_recoverable",
         \A x \in Resource : x # res => claims'[x] = claims[x],
         AttemptOver(src, r, res), UNCHANGED loop, TuneGuards'
  PROVE  KInv'
<1>1. /\ EligibleSource(src, r) /\ owners[src].res = res /\ claims[res] = o
  BY DEF CInv, RowInv, RecoveryRows, ActiveHolds, HoldsClaim
<1>2. /\ owners[src].kind = "tune" /\ owners[src].run = r /\ owners[src].intent
      /\ owners[src].state = "orphaned" /\ owners[src].eligible
  BY <1>1 DEF EligibleSource, CInv, RowInv, SourceRows, RecoveryEligible
<1>3. ~ Settled(src) /\ ~ Settled(o)
  BY <1>2 DEF Settled
<1>4. Unsettled(r)
  BY <1>2, <1>3, OpenRun
<1>5. \A q \in Owner : RowKept(q)
  BY DEF RowKept, KInv, NothingDeleted
<1>6. \A q \in Owner : owners[q].kind = "tune" => owners[q].run \in Run
  BY DEF CInv, RowInv, OwnerRows
<1>7. Keeps
  <2> SUFFICES ASSUME NEW q \in Owner
               PROVE  /\ owners'[q].kind = owners[q].kind /\ owners'[q].res = owners[q].res
                      /\ RecoveryEligible(q) => RecoveryEligible(q)'
                      /\ Settled(q) => Settled(q)'
    BY DEF Keeps
  <2>1. RecoveryEligible(q) => RecoveryEligible(q)'
    BY <1>5 DEF RecoveryEligible, RowKept
  <2>2. Settled(q) => q # o /\ q # src /\ owners[q].run # r /\ owners[q].run \in Run
    BY <1>3, <1>4, <1>6 DEF Unsettled, Settled
  <2>3. Settled(q) => Settled(q)'
    BY <2>2 DEF Settled
  <2>4. QED
    BY <1>5, <2>1, <2>3 DEF RowKept
<1>8. NothingDeleted' /\ StepsNeedIntent'
  BY <1>5 DEF KInv, NothingDeleted, StepsNeedIntent, RowKept
<1>9. NeverWrote'
  BY <1>5, <1>6 DEF KInv, NeverWrote, RowKept
<1>10. Bases'
  <2>1. \A q \in Owner : owners'[q].intent /\ owners'[q].base # None =>
             Before(q, owners'[q].res, owners'[q].base)
    BY <1>5 DEF KInv, Bases, RowKept
  <2>2. QED
    BY <1>7, <2>1, BasesKept
<1>11. claims'[res] = None => loop[res] # src
  <2> SUFFICES ASSUME claims'[res] = None PROVE loop[res] # src
    OBVIOUS
  <2>1. loop[res] = owners[src].base
    BY ConstantsAssumption DEF AttemptOver
  <2>2. src # None
    BY ConstantsAssumption
  <2>3. QED
    BY <1>2, <2>1, <2>2 DEF KInv, Bases, Before
<1>12. Perturbed'
  <2> SUFFICES ASSUME NEW x \in Resource, loop[x] # None
               PROVE  HeldFor(claims'[x], owners', loop[x]) \/ Settled(loop[x])'
    BY <1>7, PerturbedKept
  <2>1. HeldFor(claims[x], owners, loop[x]) \/ Settled(loop[x])
    BY DEF KInv, Perturbed
  <2>2. Settled(loop[x]) => Settled(loop[x])'
    BY <1>7, SettledLater
  <2>3. CASE x # res
    <3>1. claims'[x] = claims[x] /\ (claims[x] # None => claims[x] \in Owner)
      BY <2>3 DEF IInv, TypeOK
    <3>2. claims[x] # None => /\ owners'[claims[x]].kind = owners[claims[x]].kind
                              /\ owners'[claims[x]].source = owners[claims[x]].source
      BY <1>5, <3>1 DEF RowKept
    <3>3. QED
      BY <2>1, <2>2, <3>1, <3>2, HeldAsBefore
  <2>4. CASE x = res
    <3>1. loop[x] # o
      BY DEF KInv, Perturbed
    <3>2. HeldFor(claims[x], owners, loop[x]) => loop[x] = src
      BY <1>1, <2>4, <3>1 DEF HeldFor
    <3>3. claims'[res] # None => claims'[res] = src
      BY DEF AttemptOver
    <3>4. QED
      BY <1>11, <2>1, <2>2, <2>4, <3>2, <3>3 DEF HeldFor
  <2>5. QED
    BY <2>3, <2>4
<1>13. ConfirmedClean'
  <2> SUFFICES ASSUME NEW q \in Owner, owners[q].kind = "tune",
                      runs'[owners[q].run].restore = "confirmed", NEW x \in Resource,
                      loop[x] = q
               PROVE  FALSE
    BY <1>5 DEF ConfirmedClean, RowKept
  <2>1. CASE owners[q].run # r
    BY <1>6, <2>1 DEF KInv, ConfirmedClean
  <2>2. CASE owners[q].run = r
    <3>1. q = src
      BY <1>2, <2>2 DEF CInv, RowInv, OneTune
    <3>2. x = res
      BY <1>1, <3>1, ConstantsAssumption DEF KInv, Perturbed
    <3>3. claims'[res] # None
      BY <1>11, <3>1, <3>2
    <3>4. runs[r].restore = "confirmed"
      BY <2>2, <3>3 DEF AttemptOver
    <3>5. QED
      BY <2>2, <3>4 DEF KInv, ConfirmedClean
  <2>3. QED
    BY <2>1, <2>2
<1>14. QED
  BY <1>8, <1>9, <1>10, <1>12, <1>13 DEF KInv

LEMMA SweepAbandonKInv ==
  ASSUME IInv, IInv', CInv, KInv, NEW p \in Proc, SweepAbandon(p)
  PROVE  KInv'
<1> DEFINE o == proc[p].own
           v == owners[o]
           src == v.source
           r == v.run
           b == runs[r]
           nv == [v EXCEPT !.state = "released", !.attempt = "incomplete"]
           nr == [b EXCEPT !.restore = "incomplete", !.recovery = "incomplete"]
<1>1. /\ proc[p].pc = "exported" /\ v.kind = "recovery" /\ Stale(o)
      /\ claims' = [claims EXCEPT ![v.res] = src]
      /\ UNCHANGED loop
      /\ Go(p, [proc[p] EXCEPT !.pc = "sweeping", !.own = None])
  BY Zenon DEF SweepAbandon, AbandonAfterRestart
<1>2. o \in Owner /\ v.state = "active" /\ v \in OwnerRec
  BY <1>1 DEF IInv, TypeOK, LocalsOK, LocalsFit, Stale, HoldsClaim
<1>3. r \in Run /\ b \in RunRec /\ src \in Owner /\ v.res \in Resource
  BY <1>1, <1>2, SMTT(30) DEF CInv, RowInv, OwnerRows, RecoveryRows, Stale, HoldsClaim, IInv, TypeOK,
     OwnerRec
<1>4. owners' = [owners EXCEPT ![o] = nv] /\ runs' = [runs EXCEPT ![r] = nr]
  BY <1>2, <1>3 DEF SweepAbandon, AbandonAfterRestart, IInv, TypeOK
<1>5. TuneGuards'
  BY <1>1, SweepGuards
<1>6. v = owners[o] /\ src = v.source /\ r = v.run /\ b = runs[r]
  OBVIOUS
<1> HIDE DEF v, src, r, b
<1>7. /\ nv.kind = v.kind /\ nv.run = v.run /\ nv.res = v.res /\ nv.intent = v.intent
      /\ nv.step = v.step /\ nv.base = v.base /\ nv.state = "released"
      /\ nv.source = v.source
  BY <1>2 DEF OwnerRec
<1>8. nr.restore = "incomplete" /\ nr.recovery = "incomplete"
  BY <1>3 DEF RunRec
<1> HIDE DEF nv, nr, o
<1>9. owners'[o] = nv /\ \A q \in Owner : q # o => owners'[q] = owners[q]
  BY <1>2, <1>4 DEF IInv, TypeOK
<1>10. runs'[r] = nr /\ \A x \in Run : x # r => runs'[x] = runs[x]
  BY <1>3, <1>4 DEF IInv, TypeOK
<1>11. claims'[v.res] = src /\ \A x \in Resource : x # v.res => claims'[x] = claims[x]
  BY <1>1, <1>3 DEF IInv, TypeOK
<1>12. RowKept(o)
  BY <1>6, <1>7, <1>9 DEF RowKept
<1>13. RowKept(src)
  <2>1. src # o => RowKept(src)
    BY <1>3, <1>9 DEF RowKept, KInv, NothingDeleted
  <2>2. QED
    BY <1>12, <2>1
<1>14. AttemptOver(src, r, v.res)
  BY <1>8, <1>10, <1>11 DEF AttemptOver
<1>15. runs'[r].recovery # "not_recoverable"
  BY <1>8, <1>10
<1>16. /\ owners[o].state = "active" /\ owners[o].kind = "recovery" /\ owners[o].source = src
       /\ owners[o].run = r /\ owners[o].res = v.res
  BY <1>1, <1>2, <1>6
<1>17. QED
  BY <1>1, <1>2, <1>3, <1>5, <1>9, <1>10, <1>11, <1>12, <1>13, <1>14, <1>15, <1>16,
     AttemptEndsKInv, SMTT(30)

LEMMA CompleteAttemptKInv ==
  ASSUME IInv, IInv', CInv, KInv, NEW p \in Proc,
         NEW status \in {"failed", "incomplete", "confirmed"},
         proc[p].pc \in {"active", "completing"}, proc[p].kind = "recovery",
         status = "confirmed" => Wrote(proc[p]), CompleteAttempt(p, status)
  PROVE  KInv'
<1> DEFINE o == proc[p].own
           v == owners[o]
           r == proc[p].run
           b == runs[r]
           src == v.source
           s == owners[src]
           res == v.res
           back == IF status = "failed" THEN b.restore ELSE status
           next == IF status = "failed" THEN "eligible" ELSE status
           nv == [v EXCEPT !.state = "released", !.attempt = status]
           over == IF status = "confirmed" THEN "recovered" ELSE s.state
           kept == status # "confirmed"
           ns == [s EXCEPT !.state = over, !.eligible = kept]
           nr == [b EXCEPT !.recovery = next, !.restore = back]
           heir == IF status = "confirmed" THEN None ELSE src
<1>1. /\ Go(p, NoOperation) /\ HoldsClaim(o) /\ EligibleSource(src, r)
      /\ owners' = [owners EXCEPT ![o] = nv, ![src] = ns]
      /\ runs' = [runs EXCEPT ![r] = nr]
      /\ claims' = [claims EXCEPT ![res] = heir] /\ UNCHANGED loop
  BY DEF CompleteAttempt
<1>2. proc[p].pc \in Guarded
  BY DEF Guarded
<1>3. /\ o \in Owner /\ v \in OwnerRec /\ v.state = "active" /\ v.kind = "recovery"
      /\ v.run = r /\ res = proc[p].res /\ res \in Resource
  BY <1>2, GuardOwn DEF IInv, TypeOK
<1>4. /\ r \in Run /\ b \in RunRec /\ src \in Owner /\ src # o
      /\ s \in OwnerRec /\ s.state = "orphaned" /\ s.res = res /\ s.base = v.base
  BY <1>1, <1>3 DEF CInv, RowInv, OwnerRows, RecoveryRows, EligibleSource, IInv, TypeOK
<1>5. status = "confirmed" => loop[res] = s.base
  BY <1>3, <1>4 DEF CInv, RecoveryWrote
<1>6. TuneGuards'
  <2>1. NoOperation \in ProcRec /\ NoOperation.pc \notin Guarded
    BY RestTypes DEF Guarded
  <2>2. OthersFit(p)
    BY <1>2 DEF OthersFit, Locking
  <2>3. QED
    BY <1>1, <2>1, <2>2, UnguardedFits
<1>7. v = owners[o] /\ b = runs[r] /\ src = owners[o].source /\ res = owners[o].res
      /\ s = owners[src]
  OBVIOUS
<1>8. /\ next \in {"eligible", "incomplete", "confirmed"}
      /\ over \in {"recovered", s.state}
      /\ status = "confirmed" => heir = None
      /\ status # "confirmed" => heir = src /\ back \in {b.restore, "incomplete"}
  OBVIOUS
<1> HIDE DEF o, v, r, b, src, s, res, back, next, over, kept, heir
<1>9. /\ nv.kind = v.kind /\ nv.run = v.run /\ nv.res = v.res /\ nv.intent = v.intent
      /\ nv.step = v.step /\ nv.base = v.base /\ nv.state = "released"
      /\ nv.source = v.source
  BY <1>3 DEF OwnerRec
<1>10. /\ ns.kind = s.kind /\ ns.run = s.run /\ ns.res = s.res /\ ns.intent = s.intent
       /\ ns.step = s.step /\ ns.base = s.base /\ ns.state = over /\ ns.source = s.source
  BY <1>4 DEF OwnerRec
<1>11. nr.restore = back /\ nr.recovery = next
  BY <1>4 DEF RunRec
<1> HIDE DEF nv, ns, nr
<1>12. /\ owners'[o] = nv /\ owners'[src] = ns
       /\ \A q \in Owner : q # o /\ q # src => owners'[q] = owners[q]
  BY <1>1, <1>3, <1>4 DEF IInv, TypeOK
<1>13. runs'[r] = nr /\ \A x \in Run : x # r => runs'[x] = runs[x]
  BY <1>1, <1>4 DEF IInv, TypeOK
<1>14. claims'[res] = heir /\ \A x \in Resource : x # res => claims'[x] = claims[x]
  BY <1>1, <1>3 DEF IInv, TypeOK
<1>15. RowKept(o)
  BY <1>7, <1>9, <1>12 DEF RowKept
<1>16. RowKept(src)
  BY <1>4, <1>7, <1>8, <1>10, <1>12 DEF RowKept
<1>17. AttemptOver(src, r, res)
  <2>1. CASE status = "confirmed"
    BY <1>5, <1>7, <1>8, <1>14, <2>1 DEF AttemptOver
  <2>2. CASE status # "confirmed"
    BY <1>7, <1>8, <1>11, <1>13, <1>14, <2>2 DEF AttemptOver
  <2>3. QED
    BY <2>1, <2>2
<1>18. runs'[r].recovery # "not_recoverable"
  BY <1>8, <1>11, <1>13
<1>19. /\ owners[o].state = "active" /\ owners[o].kind = "recovery" /\ owners[o].source = src
       /\ owners[o].run = r /\ owners[o].res = res
  BY <1>3, <1>7
<1>20. o \in Owner /\ src \in Owner /\ r \in Run /\ res \in Resource /\ UNCHANGED loop
  BY <1>1, <1>3, <1>4
<1>21. \A q \in Owner : q # o /\ q # src => owners'[q] = owners[q]
  BY <1>12
<1>22. \A x \in Run : x # r => runs'[x] = runs[x]
  BY <1>13
<1>23. \A x \in Resource : x # res => claims'[x] = claims[x]
  BY <1>14
<1>24. QED
  BY <1>6, <1>15, <1>16, <1>17, <1>18, <1>19, <1>20, <1>21, <1>22, <1>23, AttemptEndsKInv

LEMMA RecoveryEndsKInv ==
  ASSUME IInv, IInv', CInv, KInv, NEW p \in Proc, RecoverySetupFails(p) \/ RecoveryComplete(p)
  PROVE  KInv'
<1>1. CASE RecoverySetupFails(p)
  BY <1>1, CompleteAttemptKInv DEF RecoverySetupFails
<1>2. CASE RecoveryComplete(p)
  <2> DEFINE status == IF proc[p].restored /\ proc[p].healthy THEN "confirmed"
                       ELSE "incomplete"
  <2>1. proc[p].pc = "completing" /\ CompleteAttempt(p, status)
    BY <1>2 DEF RecoveryComplete
  <2>2. proc[p].kind = "recovery"
    BY <2>1 DEF IInv, LocalsOK, LocalsFit
  <2>3. /\ status \in {"failed", "incomplete", "confirmed"}
        /\ status = "confirmed" => Wrote(proc[p])
    BY <2>1, <2>2 DEF Wrote
  <2> HIDE DEF status
  <2>4. QED
    BY <2>1, <2>2, <2>3, CompleteAttemptKInv
<1>3. QED
  BY <1>1, <1>2

-----------------------------------------------------------------------------
(* KInv and its theorem *)

LEMMA InitKInv == Init => KInv
<1> SUFFICES ASSUME Init PROVE KInv OBVIOUS
<1>1. \A p \in Proc : proc[p].pc = "down"
  BY DEF Init, ProcDown, NoOperation
<1>2. \A o \in Owner : /\ owners[o].state = "absent" /\ owners[o].kind = "none"
                       /\ owners[o].step = "none" /\ ~ owners[o].intent
  BY DEF Init, NoOwnerRow
<1>3. \A res \in Resource : loop[res] = None
  BY DEF Init
<1>4. NothingDeleted /\ TuneGuards /\ StepsNeedIntent /\ NeverWrote
  BY <1>1, <1>2 DEF NothingDeleted, TuneGuards, StepsNeedIntent, NeverWrote, Guarded
<1>5. Bases /\ Perturbed /\ ConfirmedClean
  BY <1>2, <1>3 DEF Bases, Perturbed, ConfirmedClean
<1>6. QED
  BY <1>4, <1>5 DEF KInv

LEMMA NextKInv ==
  ASSUME Deletions = {}
  PROVE  IInv /\ CInv /\ GoalsFit /\ KInv /\ [Next]_vars => KInv'
<1> SUFFICES ASSUME IInv, CInv, GoalsFit, KInv, [Next]_vars PROVE KInv' OBVIOUS
<1>0. IInv'
  BY NextIInv
<1>1. CASE UNCHANGED vars
  <2>1. UNCHANGED <<proc, runs, owners, claims, loop>>
    BY <1>1 DEF vars
  <2>2. AgedOnly
    BY <2>1 DEF AgedOnly
  <2>3. TuneGuards'
    BY <2>1, <2>2, AgedGuards
  <2>4. QED
    BY <1>0, <2>1, <2>2, <2>3, AgedKInv
<1>2. ASSUME NEW p \in Proc, Sweep(p) PROVE KInv'
  BY <1>0, <1>2, LockedKInv, SweepOrphanKInv, SweepRetireKInv, SweepAbandonKInv, DroppedKInv
     DEF Sweep
<1>3. ASSUME NEW p \in Proc, Tune(p) PROVE KInv'
  BY <1>0, <1>3, StartRunKInv, PrepareFailsKInv, LockedKInv, CreateAndClaimKInv, DroppedKInv,
     PersistIntentKInv, StopsKInv, TuneRecordsKInv DEF Tune
<1>4. ASSUME NEW p \in Proc, Write(p) PROVE KInv'
  BY <1>0, <1>4, BeginWriteKInv, DriverReturnsKInv, FinishStepKInv, StopsKInv DEF Write
<1>5. ASSUME NEW p \in Proc, Finish(p) PROVE KInv'
  BY <1>0, <1>5, FinishTuneKInv, DroppedKInv, TuneRecordsKInv, ReleaseKInv DEF Finish
<1>6. ASSUME NEW p \in Proc, Recover(p) PROVE KInv'
  BY <1>0, <1>6, LockedKInv, DroppedKInv, RecoveryStartKInv, RecoveryEndsKInv DEF Recover
<1>7. ASSUME NEW p \in Proc, Environment(p) PROVE KInv'
  BY <1>0, <1>7, DroppedKInv, HeartbeatKInv, HeartbeatFailsKInv, CrashKInv DEF Environment
<1>8. ~ Delete
  BY DEF Delete, HttpDelete, RetentionSweep
<1>9. QED
  BY <1>0, <1>1, <1>2, <1>3, <1>4, <1>5, <1>6, <1>7, <1>8, TickKInv DEF Next

\* Unless history is deleted: a loop that carries a perturbation is under the
\* claim of the tune that put it there, or of its recovery, or that tune is over
\* and does not say that it restored the loop; the intent and a step of that tune
\* are on record; and a run declared not recoverable never wrote.
THEOREM PerturbationsAccounted ==
  ASSUME Deletions = {}
  PROVE  Spec => []PerturbationEvidence
<1> DEFINE Inv == IInv /\ CInv /\ GoalsFit /\ KInv
<1>1. Init => Inv
  BY InitIInv, InitCInv, InitGoalsFit, InitKInv
<1>2. Inv /\ [Next]_vars => Inv'
  BY NextIInv, NextCInv, NextGoalsFit, NextKInv
<1>3. Inv => PerturbationEvidence
  <2> SUFFICES ASSUME IInv, CInv, KInv PROVE PerturbationEvidence
    OBVIOUS
  <2>1. PerturbationAccounted
    <3> SUFFICES ASSUME NEW res \in Resource, loop[res] # None
                 PROVE  LET o == loop[res]
                            c == claims[res]
                        IN  \/ c = o
                            \/ c # None /\ owners[c].source = o
                            \/ /\ owners[o].state \notin {"absent", "deleted"}
                               /\ runs[owners[o].run].outcome \in Terminal
                               /\ runs[owners[o].run].restore # "confirmed"
      BY DEF PerturbationAccounted
    <3>1. HeldFor(claims[res], owners, loop[res]) \/ Settled(loop[res])
      BY DEF KInv, Perturbed
    <3>2. QED
      BY <3>1 DEF HeldFor, Settled
  <2>2. EvidencePrecedesPerturbation
    BY DEF KInv, Perturbed, EvidencePrecedesPerturbation
  <2>3. NotRecoverableNeverWrote
    <3> SUFFICES ASSUME NEW o \in Owner, owners[o].kind = "tune",
                        runs[owners[o].run].recovery = "not_recoverable"
                 PROVE  owners[o].step = "none" /\ \A res \in Resource : loop[res] # o
      BY DEF NotRecoverableNeverWrote
    <3>1. owners[o].step = "none"
      BY DEF KInv, NeverWrote
    <3>2. ~ RecoveryEligible(o) /\ o # None
      BY <3>1, ConstantsAssumption DEF RecoveryEligible
    <3>3. QED
      BY <3>1, <3>2 DEF KInv, Perturbed
  <2>4. QED
    BY <2>1, <2>2, <2>3 DEF PerturbationEvidence
<1> HIDE DEF Inv
<1>4. QED
  BY <1>1, <1>2, <1>3, PTL DEF Spec

-----------------------------------------------------------------------------
(* The custody of the loops: without deletion the protocol implements the    *)
(* specification LoopCustody.                                                *)

\* The invariants, before and after a step.
AllInv == IInv /\ CInv /\ KInv /\ GoalsFit

\* A live guard is on the loop.
GuardedOn(res) == \E p \in Proc : proc[p].pc \in Guarded /\ proc[p].res = res

\* The step leaves the custody of the loop alone.
Same(res) ==
    /\ CustodyState(res)' = CustodyState(res)
    /\ CustodyAlive(res)' = CustodyAlive(res)
    /\ CustodyBase(res)' = CustodyBase(res)
    /\ loop'[res] = loop[res]

OthersSame(res) == \A y \in Resource : y # res => Same(y)

\* The holder of a claim is alive when a guard is on the loop.
LEMMA AliveGuard == AllInv => \A res \in Resource : CustodyAlive(res) = GuardedOn(res)
<1> SUFFICES ASSUME AllInv, NEW res \in Resource
             PROVE  CustodyAlive(res) = GuardedOn(res)
  OBVIOUS
<1>1. ASSUME CustodyAlive(res) PROVE GuardedOn(res)
  <2>1. PICK p \in Proc : proc[p].pc \in Guarded /\ proc[p].own = claims[res]
    BY <1>1 DEF CustodyAlive
  <2>2. owners[claims[res]].res = proc[p].res
    BY <2>1, GuardOwn DEF AllInv
  <2>3. owners[claims[res]].res = res
    BY <1>1 DEF CustodyAlive, AllInv, CInv, RowInv, ClaimsFit
  <2>4. QED
    BY <2>1, <2>2, <2>3 DEF GuardedOn
<1>2. ASSUME GuardedOn(res) PROVE CustodyAlive(res)
  <2>1. PICK p \in Proc : proc[p].pc \in Guarded /\ proc[p].res = res
    BY <1>2 DEF GuardedOn
  <2>2. proc[p].own \in Owner /\ claims[res] = proc[p].own
    BY <2>1, GuardOwn DEF AllInv
  <2>3. QED
    BY <2>1, <2>2, ConstantsAssumption DEF CustodyAlive
<1>3. QED
  BY <1>1, <1>2 DEF CustodyAlive, GuardedOn

LEMMA AliveGuardLater ==
  (AllInv)' => (\A res \in Resource : CustodyAlive(res) = GuardedOn(res))'
  BY AliveGuard, PTL

\* A step that leaves every loop's custody alone is a stutter.
LEMMA StutterCustody ==
  ASSUME AllInv, AllInv', \A y \in Resource : Same(y)
  PROVE  UNCHANGED Custody!vars
<1>1. UNCHANGED loop
  BY DEF Same, AllInv, IInv, TypeOK
<1>2. UNCHANGED [res \in Resource |-> CustodyState(res)]
  BY DEF Same
<1>3. UNCHANGED [res \in Resource |-> CustodyAlive(res)]
  BY DEF Same
<1>4. UNCHANGED [res \in Resource |-> CustodyBase(res)]
  BY DEF Same
<1>5. QED
  BY <1>1, <1>2, <1>3, <1>4 DEF Custody!vars

-----------------------------------------------------------------------------
(* From one loop to all: a step that changes the custody of one loop.        *)

LEMMA SetCustody ==
  ASSUME NEW res \in Resource, OthersSame(res), NEW state, NEW live,
         CustodyState(res)' = state, CustodyAlive(res)' = live
  PROVE  Custody!Set(res, state, live)
<1>1. [y \in Resource |-> CustodyState(y)]' =
        [[y \in Resource |-> CustodyState(y)] EXCEPT ![res] = state]
  BY DEF OthersSame, Same
<1>2. [y \in Resource |-> CustodyAlive(y)]' =
        [[y \in Resource |-> CustodyAlive(y)] EXCEPT ![res] = live]
  BY DEF OthersSame, Same
<1>3. QED
  BY <1>1, <1>2 DEF Custody!Set

\* The loop's base is kept, or starts again with what the loop carries.
LEMMA KeepBase ==
  ASSUME NEW res \in Resource, OthersSame(res), CustodyBase(res)' = CustodyBase(res)
  PROVE  UNCHANGED [y \in Resource |-> CustodyBase(y)]
  BY DEF OthersSame, Same

LEMMA RenewBase ==
  ASSUME NEW res \in Resource, OthersSame(res), CustodyBase(res)' = loop[res]
  PROVE  [y \in Resource |-> CustodyBase(y)]' =
            [[y \in Resource |-> CustodyBase(y)] EXCEPT ![res] = loop[res]]
  BY DEF OthersSame, Same

\* The step of the custody specification that the move of one loop is, by what
\* it does to the loop's custody and base.  The loop carries what it carried.
Moves(res, from, to, live) ==
    /\ CustodyState(res) = from
    /\ CustodyState(res)' = to
    /\ CustodyAlive(res)' = live
    /\ OthersSame(res)
    /\ UNCHANGED loop

KeepsBase(res) == CustodyBase(res)' = CustodyBase(res)
RenewsBase(res) == CustodyBase(res)' = loop[res]

LEMMA RenewingMoves ==
  ASSUME NEW res \in Resource, RenewsBase(res),
         \/ Moves(res, "free", "held", TRUE)
         \/ Moves(res, "held", "free", FALSE)
  PROVE  Custody!Next
<1>1. [y \in Resource |-> CustodyBase(y)]' =
            [[y \in Resource |-> CustodyBase(y)] EXCEPT ![res] = loop[res]]
  BY RenewBase DEF RenewsBase, Moves
<1>2. CASE Moves(res, "free", "held", TRUE)
  <2>1. Custody!Set(res, "held", TRUE)
    BY <1>2, SetCustody DEF Moves
  <2>2. Custody!Claim(res)
    BY <1>1, <1>2, <2>1 DEF Moves, Custody!Claim
  <2>3. QED
    BY <2>2 DEF Custody!Next
<1>3. CASE Moves(res, "held", "free", FALSE)
  <2>1. Custody!Set(res, "free", FALSE)
    BY <1>3, SetCustody DEF Moves
  <2>2. CASE CustodyAlive(res) = TRUE
    <3>1. Custody!Yield(res)
      BY <1>1, <1>3, <2>1, <2>2 DEF Moves, Custody!Yield
    <3>2. QED
      BY <3>1 DEF Custody!Next
  <2>3. CASE CustodyAlive(res) = FALSE
    <3>1. Custody!Retire(res)
      BY <1>1, <1>3, <2>1, <2>3 DEF Moves, Custody!Retire
    <3>2. QED
      BY <3>1 DEF Custody!Next
  <2>4. QED
    BY <2>2, <2>3 DEF CustodyAlive
<1>4. QED
  BY <1>2, <1>3

LEMMA KeepingMoves ==
  ASSUME NEW res \in Resource, KeepsBase(res),
         \/ Moves(res, "held", "orphaned", FALSE) /\ CustodyAlive(res) = FALSE
         \/ Moves(res, "orphaned", "recovering", TRUE)
         \/ Moves(res, "recovering", "orphaned", FALSE)
         \/ /\ Moves(res, "recovering", "free", FALSE)
            /\ CustodyAlive(res) = TRUE
            /\ loop[res] = CustodyBase(res)
  PROVE  Custody!Next
<1>1. UNCHANGED [y \in Resource |-> CustodyBase(y)]
  BY KeepBase DEF KeepsBase, Moves
<1>2. CASE Moves(res, "held", "orphaned", FALSE) /\ CustodyAlive(res) = FALSE
  <2>1. Custody!Set(res, "orphaned", FALSE)
    BY <1>2, SetCustody DEF Moves
  <2>2. Custody!Orphan(res)
    BY <1>1, <1>2, <2>1 DEF Moves, Custody!Orphan
  <2>3. QED
    BY <2>2 DEF Custody!Next
<1>3. CASE Moves(res, "orphaned", "recovering", TRUE)
  <2>1. Custody!Set(res, "recovering", TRUE)
    BY <1>3, SetCustody DEF Moves
  <2>2. Custody!Recover(res)
    BY <1>1, <1>3, <2>1 DEF Moves, Custody!Recover
  <2>3. QED
    BY <2>2 DEF Custody!Next
<1>4. CASE Moves(res, "recovering", "orphaned", FALSE)
  <2>1. Custody!Set(res, "orphaned", FALSE)
    BY <1>4, SetCustody DEF Moves
  <2>2. Custody!Return(res)
    BY <1>1, <1>4, <2>1 DEF Moves, Custody!Return
  <2>3. QED
    BY <2>2 DEF Custody!Next
<1>5. CASE /\ Moves(res, "recovering", "free", FALSE)
           /\ CustodyAlive(res) = TRUE
           /\ loop[res] = CustodyBase(res)
  <2>1. Custody!Set(res, "free", FALSE)
    BY <1>5, SetCustody DEF Moves
  <2>2. Custody!Restored(res)
    BY <1>1, <1>5, <2>1 DEF Moves, Custody!Restored
  <2>3. QED
    BY <2>2 DEF Custody!Next
<1>6. QED
  BY <1>2, <1>3, <1>4, <1>5

\* A holder dies, or writes, or dies while its write is under way.
LEMMA HolderMoves ==
  ASSUME AllInv, AllInv', NEW res \in Resource, OthersSame(res), KeepsBase(res),
         CustodyState(res)' = CustodyState(res), CustodyAlive(res) = TRUE,
         \/ UNCHANGED loop /\ CustodyAlive(res)' = FALSE
         \/ CustodyState(res) \in {"held", "recovering"}
  PROVE  Custody!Next
<1>1. UNCHANGED [y \in Resource |-> CustodyBase(y)]
  BY KeepBase DEF KeepsBase
<1>2. UNCHANGED [y \in Resource |-> CustodyState(y)]
  BY DEF OthersSame, Same
<1>3. CustodyAlive(res)' \in BOOLEAN
  BY DEF CustodyAlive
<1>4. \/ CustodyAlive(res)' = FALSE /\ [y \in Resource |-> CustodyAlive(y)]' =
              [[y \in Resource |-> CustodyAlive(y)] EXCEPT ![res] = FALSE]
      \/ CustodyAlive(res)' = TRUE /\ UNCHANGED [y \in Resource |-> CustodyAlive(y)]
  <2>1. CASE CustodyAlive(res)' = FALSE
    BY <2>1 DEF OthersSame, Same
  <2>2. CASE CustodyAlive(res)' = TRUE
    BY <2>2 DEF OthersSame, Same
  <2>3. QED
    BY <1>3, <2>1, <2>2
<1>5. CASE UNCHANGED loop /\ CustodyAlive(res)' = FALSE
  <2>1. Custody!Die(res)
    BY <1>1, <1>2, <1>4, <1>5 DEF Custody!Die
  <2>2. QED
    BY <2>1 DEF Custody!Next
<1>6. CASE CustodyState(res) \in {"held", "recovering"}
  <2>1. loop' = [loop EXCEPT ![res] = loop'[res]] /\ loop'[res] \in Owner \cup {None}
    BY DEF OthersSame, Same, AllInv, IInv, TypeOK
  <2>2. Custody!Write(res)
    BY <1>1, <1>2, <1>4, <1>6, <2>1 DEF Custody!Write
  <2>3. QED
    BY <2>2 DEF Custody!Next
<1>7. QED
  BY <1>5, <1>6

-----------------------------------------------------------------------------
(* Steps that leave the custody of loops alone.                              *)

\* The rows behind the custody of the loop y are as they were.
RowsSame(y) ==
    /\ claims'[y] = claims[y]
    /\ loop'[y] = loop[y]
    /\ claims[y] # None =>
          /\ owners'[claims[y]].state = "orphaned" <=> owners[claims[y]].state = "orphaned"
          /\ owners'[claims[y]].kind = "recovery" <=> owners[claims[y]].kind = "recovery"
          /\ owners'[claims[y]].intent = owners[claims[y]].intent
          /\ owners'[claims[y]].base = owners[claims[y]].base

LEMMA SameAt ==
  ASSUME AllInv, AllInv', NEW y \in Resource, RowsSame(y), GuardedOn(y)' = GuardedOn(y)
  PROVE  Same(y)
<1>1. CustodyAlive(y)' = CustodyAlive(y)
  BY AliveGuard, AliveGuardLater
<1>2. CustodyState(y)' = CustodyState(y)
  BY DEF RowsSame, CustodyState
<1>3. CustodyBase(y)' = CustodyBase(y)
  BY DEF RowsSame, CustodyBase
<1>4. QED
  BY <1>1, <1>2, <1>3 DEF Same, RowsSame

\* The process is under a guard on the loop.
Guards(w, y) == w.pc \in Guarded /\ w.res = y

LEMMA GuardStays ==
  ASSUME AllInv, NEW p \in Proc, NEW nw \in ProcRec, Go(p, nw), NEW y \in Resource,
         Guards(nw, y) <=> Guards(proc[p], y)
  PROVE  GuardedOn(y)' = GuardedOn(y)
<1>1. proc'[p] = nw /\ \A q \in Proc : q # p => proc'[q] = proc[q]
  BY GoEffect DEF AllInv, IInv
<1>2. GuardedOn(y) = \E q \in Proc : Guards(proc[q], y)
  BY DEF GuardedOn, Guards
<1>3. GuardedOn(y)' = \E q \in Proc : Guards(proc'[q], y)
  BY DEF GuardedOn, Guards
<1>4. \A q \in Proc : Guards(proc'[q], y) <=> Guards(proc[q], y)
  BY <1>1
<1>5. QED
  BY <1>2, <1>3, <1>4

\* Whoever holds the OS lock is alone in having a guard.
LEMMA GuardAlone ==
  ASSUME AllInv, NEW p \in Proc, proc[p].pc \in Locking, NEW y \in Resource
  PROVE  GuardedOn(y) <=> Guards(proc[p], y)
<1>1. \A q \in Proc : q # p => proc[q].pc \notin Locking
  BY Alone DEF AllInv, IInv
<1>2. \A q \in Proc : q # p => ~ Guards(proc[q], y)
  BY <1>1, GuardedLocks DEF Guards
<1>3. QED
  BY <1>2 DEF GuardedOn, Guards

LEMMA GuardLater ==
  ASSUME AllInv, NEW p \in Proc, proc[p].pc \in Locking, NEW nw \in ProcRec, Go(p, nw),
         NEW y \in Resource
  PROVE  GuardedOn(y)' <=> Guards(nw, y)
<1>1. proc'[p] = nw /\ \A q \in Proc : q # p => proc'[q] = proc[q]
  BY GoEffect DEF AllInv, IInv
<1>2. \A q \in Proc : q # p => proc[q].pc \notin Locking
  BY Alone DEF AllInv, IInv
<1>3. \A q \in Proc : q # p => ~ Guards(proc'[q], y)
  BY <1>1, <1>2, GuardedLocks DEF Guards
<1>4. GuardedOn(y)' <=> \E q \in Proc : Guards(proc'[q], y)
  BY DEF GuardedOn, Guards
<1>5. QED
  BY <1>1, <1>3, <1>4

\* What custody reads of the owner rows.
OwnersServe ==
    \A o \in Owner :
        /\ owners'[o].state = "orphaned" <=> owners[o].state = "orphaned"
        /\ owners'[o].kind = "recovery" <=> owners[o].kind = "recovery"
        /\ owners'[o].intent = owners[o].intent
        /\ owners'[o].base = owners[o].base

LEMMA QuietCustody ==
  ASSUME AllInv, AllInv', NEW p \in Proc, NEW nw \in ProcRec, Go(p, nw),
         UNCHANGED <<claims, loop>>, OwnersServe,
         nw.pc \in Guarded <=> proc[p].pc \in Guarded,
         nw.pc \in Guarded => nw.res = proc[p].res
  PROVE  UNCHANGED Custody!vars
<1> SUFFICES ASSUME NEW y \in Resource PROVE Same(y)
  BY StutterCustody
<1>1. RowsSame(y)
  BY DEF OwnersServe, RowsSame, AllInv, IInv, TypeOK
<1>2. Guards(nw, y) <=> Guards(proc[p], y)
  BY DEF Guards
<1>3. QED
  BY <1>1, <1>2, GuardStays, SameAt

\* The processes as they were.
LEMMA RowsCustody ==
  ASSUME AllInv, AllInv', UNCHANGED <<proc, claims, loop>>, OwnersServe
  PROVE  UNCHANGED Custody!vars
<1> SUFFICES ASSUME NEW y \in Resource PROVE Same(y)
  BY StutterCustody
<1>1. RowsSame(y)
  BY DEF OwnersServe, RowsSame, AllInv, IInv, TypeOK
<1>2. GuardedOn(y)' = GuardedOn(y)
  BY DEF GuardedOn
<1>3. QED
  BY <1>1, <1>2, SameAt

\* A process that is under no guard before or after its step.
LEMMA BystanderCustody ==
  ASSUME AllInv, AllInv', NEW p \in Proc, NEW nw, Go(p, nw),
         UNCHANGED <<owners, claims, loop>>,
         proc[p].pc \notin Guarded, nw.pc \notin Guarded
  PROVE  UNCHANGED Custody!vars
<1>1. proc'[p] = nw /\ \A q \in Proc : q # p => proc'[q] = proc[q]
  BY DEF Go, AllInv, IInv, TypeOK
<1>2. proc'[p] \in ProcRec
  BY DEF AllInv, IInv, TypeOK
<1>3. OwnersServe
  BY DEF OwnersServe
<1>4. QED
  BY <1>1, <1>2, <1>3, QuietCustody

\* Steps outside every guard: startup, locking and leaving.
LEMMA OutsideCustody ==
  ASSUME AllInv, AllInv', NEW p \in Proc,
         \/ StartupSkips(p) \/ StartupSweeps(p) \/ (\E o \in Owner : SweepExport(p, o))
         \/ SweepDone(p) \/ SweepStops(p) \/ PrepareFails(p) \/ LockForTune(p)
         \/ WriteRefused(p) \/ RecoveryRefused(p) \/ ExitProcess(p)
  PROVE  UNCHANGED Custody!vars
<1>1. UNCHANGED <<owners, claims, loop>> /\ proc[p] \in ProcRec
  BY DEF StartupSkips, StartupSweeps, SweepExport, SweepDone, SweepStops, PrepareFails,
         LockForTune, WriteRefused, RecoveryRefused, ExitProcess, AllInv, IInv, TypeOK
<1>2. proc[p].pc \notin Guarded
  BY DEF StartupSkips, StartupSweeps, SweepExport, SweepDone, SweepStops, PrepareFails,
         LockForTune, WriteRefused, RecoveryRefused, ExitProcess, Guarded
<1>3. CASE Go(p, NoOperation) \/ Go(p, ProcDown)
  BY <1>1, <1>2, <1>3, RestTypes, BystanderCustody DEF Guarded
<1>4. CASE StartupSweeps(p)
  <2> DEFINE nw == [NoOperation EXCEPT !.pc = "sweeping",
                                       !.todo = {o \in Owner : Stale(o)}]
  <2>1. Go(p, nw)
    BY <1>4 DEF StartupSweeps
  <2>2. nw.pc \notin Guarded
    BY DEF NoOperation, Guarded
  <2> HIDE DEF nw
  <2>3. QED
    BY <1>1, <1>2, <2>1, <2>2, BystanderCustody
<1>5. ASSUME NEW o \in Owner, SweepExport(p, o) PROVE UNCHANGED Custody!vars
  <2> DEFINE nw == [proc[p] EXCEPT !.pc = "exported", !.own = o, !.todo = @ \ {o}]
  <2>1. Go(p, nw)
    BY <1>5 DEF SweepExport
  <2>2. nw.pc \notin Guarded
    BY <1>1 DEF ProcRec, Guarded
  <2> HIDE DEF nw
  <2>3. QED
    BY <1>1, <1>2, <2>1, <2>2, BystanderCustody
<1>6. CASE LockForTune(p)
  <2> DEFINE nw == [proc[p] EXCEPT !.pc = "locked"]
  <2>1. Go(p, nw)
    BY <1>6 DEF LockForTune
  <2>2. nw.pc \notin Guarded
    BY <1>1 DEF ProcRec, Guarded
  <2> HIDE DEF nw
  <2>3. QED
    BY <1>1, <1>2, <2>1, <2>2, BystanderCustody
<1>7. \/ Go(p, NoOperation) \/ Go(p, ProcDown) \/ StartupSweeps(p) \/ LockForTune(p)
      \/ \E o \in Owner : SweepExport(p, o)
  BY DEF StartupSkips, SweepDone, SweepStops, PrepareFails, WriteRefused, RecoveryRefused,
         ExitProcess
<1>8. QED
  BY <1>3, <1>4, <1>5, <1>6, <1>7

\* A tune, a PID write or a recovery is prepared.
LEMMA PreparesCustody ==
  ASSUME AllInv, AllInv', NEW p \in Proc,
         \/ (\E r \in Run, res \in Resource : StartRun(p, r, res))
         \/ (\E r \in Run \cup {None}, res \in Resource : LockForWrite(p, r, res))
         \/ (\E r \in Run : RecoveryLock(p, r))
  PROVE  UNCHANGED Custody!vars
<1>1. UNCHANGED <<owners, claims, loop>> /\ proc[p].pc \notin Guarded
  BY DEF StartRun, LockForWrite, RecoveryLock, Guarded
<1>2. ASSUME NEW r \in Run, NEW res \in Resource, StartRun(p, r, res)
      PROVE  UNCHANGED Custody!vars
  <2> DEFINE nw == [NoOperation EXCEPT !.pc = "prepared", !.kind = "tune",
                                       !.run = r, !.res = res]
  <2>1. Go(p, nw)
    BY <1>2 DEF StartRun
  <2>2. nw.pc \notin Guarded
    BY DEF NoOperation, Guarded
  <2> HIDE DEF nw
  <2>3. QED
    BY <1>1, <2>1, <2>2, BystanderCustody
<1>3. ASSUME NEW r \in Run \cup {None}, NEW res \in Resource, LockForWrite(p, r, res)
      PROVE  UNCHANGED Custody!vars
  <2> DEFINE nw == [NoOperation EXCEPT !.pc = "locked", !.kind = "pid",
                                       !.run = r, !.res = res]
  <2>1. Go(p, nw)
    BY <1>3 DEF LockForWrite
  <2>2. nw.pc \notin Guarded
    BY DEF NoOperation, Guarded
  <2> HIDE DEF nw
  <2>3. QED
    BY <1>1, <2>1, <2>2, BystanderCustody
<1>4. ASSUME NEW r \in Run, RecoveryLock(p, r) PROVE UNCHANGED Custody!vars
  <2> DEFINE nw == [NoOperation EXCEPT !.pc = "rlocked", !.kind = "recovery",
                                       !.run = r, !.res = runs[r].res]
  <2>1. Go(p, nw)
    BY <1>4 DEF RecoveryLock
  <2>2. nw.pc \notin Guarded
    BY DEF NoOperation, Guarded
  <2> HIDE DEF nw
  <2>3. QED
    BY <1>1, <2>1, <2>2, BystanderCustody
<1>5. QED
  BY <1>2, <1>3, <1>4

\* A guard is kept on its loop, and the owner rows serve as before.
LEMMA InsideCustody ==
  ASSUME AllInv, AllInv', NEW p \in Proc, NEW nw \in ProcRec, Go(p, nw),
         UNCHANGED <<claims, loop>>, OwnersServe,
         proc[p].pc \in Guarded, nw.pc \in Guarded, nw.res = proc[p].res
  PROVE  UNCHANGED Custody!vars
  BY QuietCustody

LEMMA GuardGoesOn ==
  ASSUME AllInv, AllInv', NEW p \in Proc,
         SetupFails(p) \/ StopWithoutRestore(p) \/ HeartbeatFails(p) \/ FinishTune(p)
  PROVE  UNCHANGED Custody!vars
<1> DEFINE w == proc[p]
<1>1. /\ w \in ProcRec /\ w.pc \in Guarded /\ UNCHANGED <<owners, claims, loop>>
  BY DEF SetupFails, StopWithoutRestore, HeartbeatFails, FinishTune, Guarded,
         AllInv, IInv, TypeOK
<1>2. OwnersServe
  BY <1>1 DEF OwnersServe
<1>3. ASSUME NEW pc \in {"finishing", "completing"}, NEW back \in {TRUE, FALSE},
             Go(p, [w EXCEPT !.pc = pc, !.restored = back])
      PROVE  UNCHANGED Custody!vars
  <2> DEFINE nw == [w EXCEPT !.pc = pc, !.restored = back]
  <2>1. w.pc \in Guarded /\ Go(p, nw)
    BY <1>1, <1>3
  <2> HIDE DEF w
  <2>2. nw \in ProcRec /\ nw.pc \in Guarded /\ nw.res = w.res
    BY <1>1 DEF ProcRec, PCs, Locking, Guarded
  <2> HIDE DEF nw
  <2>3. QED
    BY <1>1, <1>2, <2>1, <2>2, InsideCustody DEF w
<1>4. CASE SetupFails(p)
  <2>1. Go(p, [w EXCEPT !.pc = "finishing", !.restored = TRUE])
    BY <1>4 DEF SetupFails
  <2>2. QED
    BY <1>3, <2>1
<1>5. CASE StopWithoutRestore(p)
  <2> DEFINE pc == IF w.kind = "tune" THEN "finishing" ELSE "completing"
  <2>1. Go(p, [w EXCEPT !.pc = pc, !.restored = FALSE]) /\ pc \in {"finishing", "completing"}
    BY <1>5 DEF StopWithoutRestore
  <2> HIDE DEF pc, w
  <2>2. QED
    BY <1>3, <2>1
<1>6. CASE HeartbeatFails(p)
  <2> DEFINE nw == [w EXCEPT !.healthy = FALSE]
  <2>1. w.pc \in Guarded /\ Go(p, nw)
    BY <1>6 DEF HeartbeatFails
  <2> HIDE DEF w
  <2>2. nw \in ProcRec /\ nw.pc = w.pc /\ nw.res = w.res
    BY <1>1 DEF ProcRec
  <2> HIDE DEF nw
  <2>3. QED
    BY <1>1, <1>2, <2>1, <2>2, InsideCustody DEF w
<1>7. CASE FinishTune(p)
  <2> DEFINE nw == [w EXCEPT !.pc = "releasing"]
  <2>1. w.pc \in Guarded /\ Go(p, nw)
    BY <1>1, <1>7 DEF FinishTune
  <2> HIDE DEF w
  <2>2. nw \in ProcRec /\ nw.pc \in Guarded /\ nw.res = w.res
    BY <1>1 DEF ProcRec, PCs, Locking, Guarded
  <2> HIDE DEF nw
  <2>3. QED
    BY <1>1, <1>2, <2>1, <2>2, InsideCustody DEF w
<1>8. QED
  BY <1>4, <1>5, <1>6, <1>7

\* The audit rows of a write are not custody.
LEMMA StepRowsServe ==
  ASSUME AllInv, NEW o \in Owner, NEW step \in {"intent", "finished"},
         owners' = [owners EXCEPT ![o].step = step]
  PROVE  OwnersServe
<1>1. owners \in [Owner -> OwnerRec]
  BY DEF AllInv, IInv, TypeOK
<1> DEFINE v == owners[o]
           nv == [v EXCEPT !.step = step]
<1>2. owners' = [owners EXCEPT ![o] = nv] /\ v \in OwnerRec
  BY <1>1
<1> HIDE DEF v
<1>3. nv.state = v.state /\ nv.kind = v.kind /\ nv.intent = v.intent /\ nv.base = v.base
  BY <1>2 DEF OwnerRec
<1> HIDE DEF nv
<1>4. \A q \in Owner : owners'[q] = IF q = o THEN nv ELSE owners[q]
  BY <1>1, <1>2
<1>5. QED
  BY <1>3, <1>4 DEF OwnersServe, v

\* Where a finished step leaves its process.
Later(w, next, back) ==
    [w EXCEPT !.pc = next, !.goal = "none", !.ok = FALSE, !.restored = back]

LEMMA LaterLocals ==
  ASSUME NEW u \in ProcRec, NEW n \in {"finishing", "completing", "releasing", "active"},
         NEW back \in {TRUE, FALSE}
  PROVE  Later(u, n, back) \in ProcRec
<1>1. CASE back
  BY <1>1 DEF ProcRec, PCs, Locking, Guarded, Later
<1>2. CASE ~ back
  BY <1>2 DEF ProcRec, PCs, Locking, Guarded, Later
<1>3. QED
  BY <1>1, <1>2

LEMMA AuditCustody ==
  ASSUME AllInv, AllInv', NEW p \in Proc,
         \/ (\E goal \in {"perturb", "restore", "pid"} : BeginWrite(p, goal))
         \/ FinishStep(p)
  PROVE  UNCHANGED Custody!vars
<1> DEFINE w == proc[p]
<1>1. /\ w \in ProcRec /\ w.pc \in Guarded /\ UNCHANGED <<claims, loop>>
  BY DEF BeginWrite, FinishStep, Goals, Guarded, AllInv, IInv, TypeOK
<1>2. w.own \in Owner
  BY <1>1, GuardOwn DEF AllInv
<1>3. ASSUME NEW goal \in {"perturb", "restore", "pid"}, BeginWrite(p, goal)
      PROVE  UNCHANGED Custody!vars
  <2> DEFINE nw == [w EXCEPT !.pc = "writing", !.goal = goal]
  <2>1. Go(p, nw) /\ owners' = [owners EXCEPT ![w.own].step = "intent"]
    BY <1>3 DEF BeginWrite
  <2>2. OwnersServe
    BY <1>2, <2>1, StepRowsServe
  <2> HIDE DEF w
  <2>3. nw \in ProcRec /\ nw.pc \in Guarded /\ nw.res = w.res
    BY <1>1 DEF ProcRec, PCs, Locking, Guarded
  <2> HIDE DEF nw
  <2>4. QED
    BY <1>1, <2>1, <2>2, <2>3, InsideCustody DEF w
<1>4. CASE FinishStep(p)
  <2> DEFINE next == AfterWrite(p)
  <2>1. PICK audited \in BOOLEAN :
        /\ owners' = IF audited THEN [owners EXCEPT ![w.own].step = "finished"] ELSE owners
        /\ Go(p, [w EXCEPT !.pc = next, !.goal = "none", !.ok = FALSE,
                    !.restored = IF w.goal = "restore" THEN audited /\ w.ok ELSE w.restored])
    BY <1>4 DEF FinishStep
  <2>2. PICK back \in {TRUE, FALSE} : Go(p, Later(w, next, back))
    BY <1>1, <2>1 DEF ProcRec, Later
  <2> DEFINE nw == Later(w, next, back)
  <2>3. Go(p, nw)
    BY <2>2
  <2>4. OwnersServe
    <3>1. CASE audited
      BY <1>2, <2>1, <3>1, StepRowsServe
    <3>2. CASE ~ audited
      BY <2>1, <3>2 DEF OwnersServe
    <3>3. QED
      BY <3>1, <3>2
  <2>5. next \in {"finishing", "completing", "releasing", "active"}
    BY DEF AfterWrite
  <2> HIDE DEF w, next
  <2>6. w \in ProcRec
    BY <1>1
  <2>7. nw \in ProcRec
    BY <2>6, <2>5, LaterLocals
  <2>8. nw.pc = next /\ nw.res = w.res
    BY <2>6 DEF ProcRec, Later
  <2> HIDE DEF nw
  <2>9. nw.pc \in Guarded
    BY <2>5, <2>8 DEF Guarded
  <2>10. QED
    BY <1>1, <2>4, <2>3, <2>7, <2>8, <2>9, InsideCustody DEF w
<1>5. QED
  BY <1>3, <1>4

\* The restore intent records what the loop carries: the base stays what it was.
LEMMA PersistIntentCustody ==
  ASSUME AllInv, AllInv', NEW p \in Proc, PersistIntent(p)
  PROVE  UNCHANGED Custody!vars
<1> DEFINE w == proc[p]
           o == w.own
           v == owners[o]
           b == loop[w.res]
           nv == [v EXCEPT !.intent = TRUE, !.base = b]
           nw == [w EXCEPT !.pc = "active"]
<1>1. /\ w \in ProcRec /\ w.pc = "owned" /\ w.kind = "tune"
      /\ Go(p, nw) /\ UNCHANGED <<claims, loop>>
      /\ owners' = [owners EXCEPT ![o] = nv]
  BY DEF PersistIntent, AllInv, IInv, TypeOK, LocalsOK, LocalsFit
<1>2. w.pc \in Guarded
  BY <1>1 DEF Guarded
<1>3. /\ o \in Owner /\ w.res \in Resource /\ v.res = w.res /\ claims[w.res] = o
      /\ v \in OwnerRec /\ owners \in [Owner -> OwnerRec]
  BY <1>1, <1>2, GuardOwn DEF AllInv, IInv, TypeOK
<1>4. ~ v.intent
  BY <1>1, <1>2 DEF AllInv, KInv, TuneGuards, TuneFits
<1> HIDE DEF v, b
<1>5. nv.state = v.state /\ nv.kind = v.kind /\ nv.res = v.res /\ nv.intent /\ nv.base = b
  BY <1>3 DEF OwnerRec
<1> HIDE DEF nv
<1>6. owners'[o] = nv /\ \A q \in Owner : q # o => owners'[q] = owners[q]
  BY <1>1, <1>3
<1>7. nw \in ProcRec /\ nw.pc \in Guarded /\ nw.res = w.res
  BY <1>1 DEF ProcRec, PCs, Locking, Guarded
<1> HIDE DEF nw
<1>8. \A y \in Resource : GuardedOn(y)' = GuardedOn(y)
  <2> SUFFICES ASSUME NEW y \in Resource PROVE GuardedOn(y)' = GuardedOn(y)
    OBVIOUS
  <2>1. Guards(nw, y) <=> Guards(proc[p], y)
    BY <1>2, <1>7 DEF Guards
  <2>2. QED
    BY <1>1, <1>7, <2>1, GuardStays
<1>9. PICK res \in Resource : res = w.res
  BY <1>3
<1>10. ASSUME NEW y \in Resource, y # res PROVE Same(y)
  <2>1. claims[y] # None => claims[y] \in Owner /\ claims[y] # o
    BY <1>3, <1>9, <1>10 DEF v, AllInv, IInv, TypeOK, CInv, RowInv, ClaimsFit
  <2>2. RowsSame(y)
    BY <1>1, <1>6, <2>1 DEF RowsSame
  <2>3. QED
    BY <1>8, <2>2, SameAt
<1>11. Same(res)
  <2>1. CustodyAlive(res)' = CustodyAlive(res)
    BY <1>8, AliveGuard, AliveGuardLater
  <2>2. o # None /\ claims[res] = o /\ claims'[res] = o /\ loop'[res] = loop[res]
    BY <1>1, <1>3, <1>9, ConstantsAssumption
  <2>3. CustodyState(res)' = CustodyState(res)
    BY <1>5, <1>6, <2>2 DEF CustodyState, v
  <2>4. CustodyBase(res)' = loop[res]
    BY <1>5, <1>6, <1>9, <2>2 DEF CustodyBase, b
  <2>5. CustodyBase(res) = loop[res]
    BY <1>4, <2>2 DEF CustodyBase, v
  <2>6. QED
    BY <2>1, <2>2, <2>3, <2>4, <2>5 DEF Same
<1>12. QED
  BY <1>10, <1>11, StutterCustody

\* What a tune says of its run, and the age of the owner rows, is not custody.
LEMMA RecordsCustody ==
  ASSUME AllInv, AllInv', NEW p \in Proc,
         PersistResults(p) \/ WriteBackErrors(p) \/ Heartbeat(p)
  PROVE  UNCHANGED Custody!vars
<1>1. UNCHANGED <<proc, claims, loop>>
  BY DEF PersistResults, WriteBackErrors, Heartbeat
<1>2. OwnersServe
  <2>1. CASE PersistResults(p) \/ WriteBackErrors(p)
    BY <2>1 DEF PersistResults, WriteBackErrors, OwnersServe
  <2>2. CASE Heartbeat(p)
    <3> DEFINE o == proc[p].own
               v == owners[o]
               nv == [v EXCEPT !.age = 0]
    <3>1. proc[p].pc \in Guarded /\ owners' = [owners EXCEPT ![o] = nv]
      BY <2>2 DEF Heartbeat
    <3>2. o \in Owner /\ v \in OwnerRec /\ owners \in [Owner -> OwnerRec]
      BY <3>1, GuardOwn DEF AllInv, IInv, TypeOK
    <3> HIDE DEF v, o
    <3>3. nv.state = v.state /\ nv.kind = v.kind /\ nv.intent = v.intent /\ nv.base = v.base
      BY <3>2 DEF OwnerRec
    <3> HIDE DEF nv
    <3>4. \A q \in Owner : owners'[q] = IF q = o THEN nv ELSE owners[q]
      BY <3>1, <3>2
    <3>5. QED
      BY <3>3, <3>4 DEF OwnersServe, v
  <2>3. QED
    BY <2>1, <2>2
<1>3. QED
  BY <1>1, <1>2, RowsCustody

LEMMA TickCustody ==
  ASSUME AllInv, AllInv', Tick
  PROVE  UNCHANGED Custody!vars
<1>1. UNCHANGED <<proc, claims, loop>>
  BY DEF Tick
<1>2. OwnersServe
  <2> SUFFICES ASSUME NEW o \in Owner
               PROVE  /\ owners'[o].state = owners[o].state
                      /\ owners'[o].kind = owners[o].kind
                      /\ owners'[o].intent = owners[o].intent
                      /\ owners'[o].base = owners[o].base
    BY DEF OwnersServe
  <2> DEFINE v == owners[o]
             nv == [v EXCEPT !.age = @ + 1]
  <2>1. owners'[o] \in {v, nv} /\ v \in OwnerRec
    BY DEF Tick, AllInv, IInv, TypeOK
  <2> HIDE DEF v
  <2>2. nv.state = v.state /\ nv.kind = v.kind /\ nv.intent = v.intent /\ nv.base = v.base
    BY <2>1 DEF OwnerRec
  <2> HIDE DEF nv
  <2>3. QED
    BY <2>1, <2>2 DEF v
<1>3. QED
  BY <1>1, <1>2, RowsCustody

-----------------------------------------------------------------------------
(* The holder of a loop writes, dies, or dies writing.                       *)

\* A guard's loop is held by a live operation.
LEMMA GuardHolds ==
  ASSUME AllInv, NEW p \in Proc, proc[p].pc \in Guarded, NEW res \in Resource,
         res = proc[p].res
  PROVE  /\ CustodyAlive(res) = TRUE
         /\ claims[res] = proc[p].own /\ claims[res] \in Owner /\ claims[res] # None
         /\ owners[claims[res]].state = "active"
         /\ CustodyState(res) = IF owners[claims[res]].kind = "recovery" THEN "recovering"
                                ELSE "held"
<1>1. GuardedOn(res)
  BY DEF GuardedOn
<1>2. CustodyAlive(res) = TRUE
  BY <1>1, AliveGuard DEF GuardedOn
<1>3. /\ claims[res] = proc[p].own /\ claims[res] \in Owner /\ claims[res] # None
      /\ owners[claims[res]].state = "active"
  BY GuardOwn, ConstantsAssumption DEF AllInv
<1>4. QED
  BY <1>2, <1>3 DEF CustodyState

LEMMA HolderCustody ==
  ASSUME AllInv, AllInv', NEW p \in Proc, NEW nw \in ProcRec, Go(p, nw),
         NEW res \in Resource, proc[p].pc \in Guarded, res = proc[p].res,
         nw.pc \in Guarded => nw.res = res, UNCHANGED <<owners, claims>>,
         \A y \in Resource : y # res => loop'[y] = loop[y],
         loop'[res] # loop[res] => owners[proc[p].own].intent
  PROVE  Custody!Next
<1>1. OthersSame(res)
  <2> SUFFICES ASSUME NEW y \in Resource, y # res PROVE Same(y)
    BY DEF OthersSame
  <2>1. Guards(nw, y) <=> Guards(proc[p], y)
    BY DEF Guards
  <2>2. RowsSame(y)
    BY DEF RowsSame
  <2>3. QED
    BY <2>1, <2>2, GuardStays, SameAt
<1>2. /\ CustodyAlive(res) = TRUE
      /\ claims[res] = proc[p].own /\ claims[res] # None
      /\ CustodyState(res) \in {"held", "recovering"}
  BY GuardHolds
<1>3. CustodyState(res)' = CustodyState(res)
  BY DEF CustodyState
<1>4. KeepsBase(res)
  BY <1>2 DEF KeepsBase, CustodyBase
<1>5. QED
  BY <1>1, <1>2, <1>3, <1>4, HolderMoves

LEMMA LostCustody ==
  ASSUME AllInv, AllInv', NEW p \in Proc,
         FinishTuneLost(p) \/ ReleaseLost(p) \/ RecoveryLost(p)
  PROVE  Custody!Next
<1>1. /\ Go(p, NoOperation) /\ UNCHANGED <<owners, claims, loop>> /\ proc[p].pc \in Guarded
  BY DEF FinishTuneLost, ReleaseLost, CanRelease, RecoveryLost, Guarded
<1>2. NoOperation \in ProcRec /\ NoOperation.pc \notin Guarded
  BY RestTypes DEF Guarded
<1>3. PICK res \in Resource : res = proc[p].res
  BY <1>1, GuardOwn DEF AllInv
<1>4. QED
  BY <1>1, <1>2, <1>3, HolderCustody

\* A driver call changes its own loop only, under a recorded intent.
LEMMA CallUnderIntent ==
  ASSUME AllInv, NEW p \in Proc, proc[p].pc = "writing", loop' \in {loop, Applied(p)}
  PROVE  /\ \A y \in Resource : y # proc[p].res => loop'[y] = loop[y]
         /\ loop'[proc[p].res] # loop[proc[p].res] => owners[proc[p].own].intent
<1> DEFINE w == proc[p]
           v == owners[w.own]
<1>1. w.pc \in Guarded /\ w.pc \in {"writing", "written"}
  BY DEF Guarded
<1>2. v.kind = w.kind
  BY <1>1, GuardOwn DEF AllInv
<1>3. w.kind = "tune" => v.intent
  BY <1>1 DEF AllInv, KInv, TuneGuards, TuneFits
<1>4. /\ \A y \in Resource : y # w.res => loop'[y] = loop[y]
      /\ \/ loop'[w.res] = loop[w.res]
         \/ /\ w.goal = "perturb" /\ v.kind = "tune" /\ loop'[w.res] = w.own
         \/ /\ w.goal = "restore" /\ v.intent /\ loop'[w.res] = v.base
  BY <1>1, LoopAfterCall DEF AllInv
<1>5. QED
  BY <1>2, <1>3, <1>4

LEMMA DriverReturnsCustody ==
  ASSUME AllInv, AllInv', NEW p \in Proc, DriverReturns(p)
  PROVE  Custody!Next
<1> DEFINE w == proc[p]
<1>1. PICK ok \in BOOLEAN : /\ Go(p, [w EXCEPT !.pc = "written", !.ok = ok])
                            /\ loop' \in IF ok THEN {Applied(p)} ELSE {loop, Applied(p)}
  BY DEF DriverReturns
<1> DEFINE nw == [w EXCEPT !.pc = "written", !.ok = ok]
<1>2. /\ w.pc = "writing" /\ w \in ProcRec /\ UNCHANGED <<owners, claims>>
      /\ loop' \in {loop, Applied(p)}
  BY <1>1 DEF DriverReturns, AllInv, IInv, TypeOK
<1>3. /\ \A y \in Resource : y # w.res => loop'[y] = loop[y]
      /\ loop'[w.res] # loop[w.res] => owners[w.own].intent
  BY <1>2, CallUnderIntent
<1>4. w.pc \in Guarded
  BY <1>2 DEF Guarded
<1>5. PICK res \in Resource : res = w.res
  BY <1>4, GuardOwn DEF AllInv
<1>6. Go(p, nw)
  BY <1>1
<1> HIDE DEF w
<1>7. nw \in ProcRec /\ nw.res = w.res
  BY <1>2 DEF ProcRec, PCs, Locking, Guarded
<1> HIDE DEF nw
<1>8. QED
  BY <1>2, <1>3, <1>4, <1>5, <1>6, <1>7, HolderCustody DEF w

LEMMA CrashCustody ==
  ASSUME AllInv, AllInv', NEW p \in Proc, Crash(p)
  PROVE  Custody!Next \/ UNCHANGED Custody!vars
<1>1. /\ Go(p, ProcDown) /\ UNCHANGED <<owners, claims>>
      /\ loop' \in IF proc[p].pc = "writing" THEN {loop, Applied(p)} ELSE {loop}
  BY DEF Crash
<1>2. ProcDown \in ProcRec /\ ProcDown.pc \notin Guarded
  BY RestTypes DEF Guarded
<1>3. CASE proc[p].pc \notin Guarded
  <2>1. UNCHANGED loop
    BY <1>1, <1>3 DEF Guarded
  <2>2. QED
    BY <1>1, <1>2, <1>3, <2>1, BystanderCustody
<1>4. CASE proc[p].pc \in Guarded
  <2>1. PICK res \in Resource : res = proc[p].res
    BY <1>4, GuardOwn DEF AllInv
  <2>2. /\ \A y \in Resource : y # proc[p].res => loop'[y] = loop[y]
        /\ loop'[proc[p].res] # loop[proc[p].res] => owners[proc[p].own].intent
    <3>1. CASE proc[p].pc = "writing"
      BY <1>1, <3>1, CallUnderIntent
    <3>2. CASE proc[p].pc # "writing"
      BY <1>1, <3>2
    <3>3. QED
      BY <3>1, <3>2
  <2>3. QED
    BY <1>1, <1>2, <1>4, <2>1, <2>2, HolderCustody
<1>5. QED
  BY <1>3, <1>4

-----------------------------------------------------------------------------
(* A claim is taken, given up, kept for recovery or handed over.             *)

\* The holder p of the OS lock goes on as nw and changes the rows of res only.
ClaimStep(p, nw, res) ==
    /\ proc[p].pc \in Locking
    /\ Go(p, nw)
    /\ proc[p].pc \in Guarded => proc[p].res = res
    /\ nw.pc \in Guarded => nw.res = res
    /\ UNCHANGED loop
    /\ \A y \in Resource : y # res => claims'[y] = claims[y]
    /\ \A q \in Owner :
         owners[q].res # res /\ owners[q].state # "absent" => owners'[q] = owners[q]

LEMMA ClaimStepViews ==
  ASSUME AllInv, AllInv', NEW p \in Proc, NEW nw \in ProcRec, NEW res \in Resource,
         ClaimStep(p, nw, res)
  PROVE  /\ OthersSame(res)
         /\ nw.pc \in Guarded => CustodyAlive(res)' = TRUE
         /\ nw.pc \notin Guarded => CustodyAlive(res)' = FALSE
         /\ proc[p].pc \notin Guarded => CustodyAlive(res) = FALSE
<1>1. OthersSame(res)
  <2> SUFFICES ASSUME NEW y \in Resource, y # res PROVE Same(y)
    BY DEF OthersSame
  <2>1. Guards(nw, y) <=> Guards(proc[p], y)
    BY DEF Guards, ClaimStep
  <2>2. claims[y] # None =>
          /\ claims[y] \in Owner
          /\ owners[claims[y]].res = y /\ owners[claims[y]].state # "absent"
    BY DEF AllInv, IInv, TypeOK, CInv, RowInv, ClaimsFit
  <2>3. RowsSame(y)
    BY <2>2 DEF RowsSame, ClaimStep
  <2>4. Go(p, nw)
    BY DEF ClaimStep
  <2>5. QED
    BY <2>1, <2>3, <2>4, GuardStays, SameAt
<1>2. CustodyAlive(res)' = GuardedOn(res)'
  BY AliveGuardLater
<1>3. GuardedOn(res)' <=> Guards(nw, res)
  BY GuardLater DEF ClaimStep
<1>4. nw.pc \in Guarded => CustodyAlive(res)' = TRUE
  BY <1>2, <1>3 DEF ClaimStep, Guards, GuardedOn
<1>5. nw.pc \notin Guarded => CustodyAlive(res)' = FALSE
  BY <1>2, <1>3 DEF Guards, GuardedOn
<1>6. proc[p].pc \notin Guarded => CustodyAlive(res) = FALSE
  BY AliveGuard, GuardAlone DEF ClaimStep, Guards, GuardedOn
<1>7. QED
  BY <1>1, <1>4, <1>5, <1>6

\* An active operation that is no recovery gives its loop up.
LEMMA FreedCustody ==
  ASSUME AllInv, AllInv', NEW p \in Proc, NEW nw \in ProcRec, NEW res \in Resource,
         ClaimStep(p, nw, res), nw.pc \notin Guarded,
         NEW o \in Owner, claims[res] = o, owners[o].state = "active",
         owners[o].kind # "recovery", claims'[res] = None
  PROVE  Custody!Next
<1>1. CustodyState(res) = "held"
  BY ConstantsAssumption DEF CustodyState
<1>2. CustodyState(res)' = "free"
  BY DEF CustodyState
<1>3. RenewsBase(res)
  BY DEF RenewsBase, CustodyBase, ClaimStep
<1>4. Moves(res, "held", "free", FALSE)
  BY <1>1, <1>2, ClaimStepViews DEF Moves, ClaimStep
<1>5. QED
  BY <1>3, <1>4, RenewingMoves

LEMMA SweptRecord ==
  ASSUME AllInv, NEW p \in Proc, proc[p].pc = "exported",
         Go(p, [proc[p] EXCEPT !.pc = "sweeping", !.own = None])
  PROVE  \E nw \in ProcRec : Go(p, nw) /\ nw.pc \notin Guarded
<1> DEFINE nw == [proc[p] EXCEPT !.pc = "sweeping", !.own = None]
<1>1. nw \in ProcRec /\ nw.pc = "sweeping"
  BY SweepNext DEF AllInv
<1>2. Go(p, nw)
  OBVIOUS
<1> HIDE DEF nw
<1>3. nw.pc \notin Guarded
  BY <1>1 DEF Guarded
<1>4. QED
  BY <1>1, <1>2, <1>3

LEMMA SweepRetireCustody ==
  ASSUME AllInv, AllInv', NEW p \in Proc, SweepRetire(p)
  PROVE  Custody!Next
<1> DEFINE o == proc[p].own
           v == owners[o]
<1>1. /\ proc[p].pc = "exported" /\ v.kind # "recovery" /\ Stale(o)
      /\ claims' = [claims EXCEPT ![v.res] = None] /\ UNCHANGED loop
      /\ owners' = [owners EXCEPT ![o] = [v EXCEPT !.state = "orphaned", !.eligible = FALSE]]
      /\ Go(p, [proc[p] EXCEPT !.pc = "sweeping", !.own = None])
  BY DEF SweepRetire, MarkOrphanedUnrecoverable, AllInv, IInv, TypeOK, LocalsOK, LocalsFit
<1>2. /\ o \in Owner /\ v.state = "active" /\ v \in OwnerRec /\ v.res # None
      /\ claims[v.res] = o
  BY <1>1 DEF AllInv, IInv, TypeOK, LocalsOK, LocalsFit, Stale, HoldsClaim
<1>3. PICK nw \in ProcRec : Go(p, nw) /\ nw.pc \notin Guarded
  BY <1>1, SweptRecord
<1>4. PICK res \in Resource : res = v.res
  BY <1>2 DEF OwnerRec
<1>5. /\ claims' = [claims EXCEPT ![res] = None] /\ claims[res] = o
      /\ \A q \in Owner : q # o => owners'[q] = owners[q]
  BY <1>1, <1>2, <1>4 DEF AllInv, IInv, TypeOK
<1>6. ClaimStep(p, nw, res)
  BY <1>1, <1>3, <1>4, <1>5 DEF ClaimStep, Guarded, Locking, AllInv, IInv, TypeOK
<1>7. claims'[res] = None
  BY <1>5 DEF AllInv, IInv, TypeOK
<1>8. QED
  BY <1>1, <1>2, <1>3, <1>5, <1>6, <1>7, FreedCustody

LEMMA ReleaseCustody ==
  ASSUME AllInv, AllInv', NEW p \in Proc, Release(p)
  PROVE  Custody!Next
<1> DEFINE o == proc[p].own
           v == owners[o]
<1>1. /\ CanRelease(p) /\ HoldsClaim(o)
      /\ claims' = [claims EXCEPT ![v.res] = None] /\ UNCHANGED loop
      /\ owners' = [owners EXCEPT ![o] = [v EXCEPT !.state = "released"]]
      /\ Go(p, NoOperation)
  BY DEF Release
<1>2. proc[p].pc \in Guarded /\ proc[p].kind \in {"tune", "pid"}
  BY <1>1 DEF CanRelease, Guarded, AllInv, IInv, LocalsOK, LocalsFit
<1>3. /\ o \in Owner /\ v.state = "active" /\ v.kind # "recovery" /\ v.res = proc[p].res
      /\ claims[v.res] = o
  BY <1>2, GuardOwn DEF AllInv
<1>4. PICK res \in Resource : res = v.res
  BY <1>2, <1>3, GuardOwn DEF AllInv
<1>5. NoOperation \in ProcRec /\ NoOperation.pc \notin Guarded
  BY RestTypes DEF Guarded
<1>6. /\ claims' = [claims EXCEPT ![res] = None] /\ claims[res] = o
      /\ \A q \in Owner : q # o => owners'[q] = owners[q]
  BY <1>1, <1>3, <1>4 DEF AllInv, IInv, TypeOK
<1>7. proc[p].pc \in Locking
  BY <1>2, GuardedLocks
<1>8. ClaimStep(p, NoOperation, res)
  BY <1>1, <1>3, <1>4, <1>5, <1>6, <1>7 DEF ClaimStep, AllInv, IInv, TypeOK
<1>9. claims'[res] = None
  BY <1>6 DEF AllInv, IInv, TypeOK
<1>10. QED
  BY <1>3, <1>5, <1>6, <1>8, <1>9, FreedCustody

\* An attempt that ends unconfirmed gives the loop back to its source.
LEMMA ReturnedCustody ==
  ASSUME AllInv, AllInv', NEW p \in Proc, NEW nw \in ProcRec, NEW res \in Resource,
         ClaimStep(p, nw, res), nw.pc \notin Guarded,
         NEW o \in Owner, claims[res] = o, owners[o].state = "active",
         owners[o].kind = "recovery",
         NEW src \in Owner, owners[o].source = src, claims'[res] = src,
         owners'[src].state = "orphaned",
         owners'[src].intent = owners[src].intent, owners'[src].base = owners[src].base
  PROVE  Custody!Next
<1>1. CustodyState(res) = "recovering"
  BY ConstantsAssumption DEF CustodyState
<1>2. src # None /\ o # None
  BY ConstantsAssumption
<1>3. CustodyState(res)' = "orphaned"
  BY <1>2 DEF CustodyState
<1>4. owners[src].base = owners[o].base /\ owners[src].intent = owners[o].intent
  BY DEF AllInv, CInv, RowInv, RecoveryRows
<1>5. KeepsBase(res)
  BY <1>2, <1>4 DEF KeepsBase, CustodyBase, ClaimStep
<1>6. Moves(res, "recovering", "orphaned", FALSE)
  BY <1>1, <1>3, ClaimStepViews, Zenon DEF Moves, ClaimStep
<1>7. QED
  BY <1>5, <1>6, KeepingMoves

LEMMA SweepOrphanCustody ==
  ASSUME AllInv, AllInv', NEW p \in Proc, SweepOrphan(p)
  PROVE  Custody!Next
<1> DEFINE o == proc[p].own
           v == owners[o]
           e == RecoveryEligible(o)
           nv == [v EXCEPT !.state = "orphaned", !.eligible = e]
<1>1. /\ proc[p].pc = "exported" /\ v.kind = "tune" /\ Stale(o)
      /\ claims' = IF e THEN claims ELSE [claims EXCEPT ![v.res] = None]
      /\ UNCHANGED loop
      /\ Go(p, [proc[p] EXCEPT !.pc = "sweeping", !.own = None])
  BY Zenon DEF SweepOrphan, MarkOrphaned
<1>2. /\ o \in Owner /\ v.state = "active" /\ v \in OwnerRec /\ v.res # None
      /\ claims[v.res] = o
  BY <1>1 DEF AllInv, IInv, TypeOK, LocalsOK, LocalsFit, Stale, HoldsClaim
<1>3. owners' = [owners EXCEPT ![o] = nv]
  <2>1. owners' = [owners EXCEPT ![o].state = "orphaned", ![o].eligible = e]
    BY Zenon DEF SweepOrphan, MarkOrphaned
  <2>2. QED
    BY <2>1
<1>4. PICK nw \in ProcRec : Go(p, nw) /\ nw.pc \notin Guarded
  BY <1>1, SweptRecord
<1>5. PICK res \in Resource : res = v.res
  BY <1>2 DEF OwnerRec
<1>6. e \in BOOLEAN
  BY DEF RecoveryEligible
<1> HIDE DEF v, e
<1>7. nv.state = "orphaned" /\ nv.kind = v.kind /\ nv.intent = v.intent /\ nv.base = v.base
  BY <1>2 DEF OwnerRec
<1> HIDE DEF nv, o
<1>8. owners'[o] = nv /\ \A q \in Owner : q # o => owners'[q] = owners[q]
  BY <1>2, <1>3 DEF AllInv, IInv, TypeOK
<1>9. \A y \in Resource : y # res => claims'[y] = claims[y]
  BY <1>1, <1>2, <1>5 DEF AllInv, IInv, TypeOK
<1>10. ClaimStep(p, nw, res)
  BY <1>1, <1>4, <1>5, <1>8, <1>9 DEF ClaimStep, Guarded, Locking, v
<1>11. v = owners[o] /\ claims[res] = o /\ o # None
  BY <1>2, <1>5, ConstantsAssumption DEF v
<1>12. CASE ~ e
  <2>1. claims'[res] = None
    BY <1>1, <1>2, <1>5, <1>12 DEF AllInv, IInv, TypeOK
  <2>2. QED
    BY <1>1, <1>2, <1>4, <1>10, <1>11, <2>1, FreedCustody
<1>13. CASE e
  <2>1. claims'[res] = o
    BY <1>1, <1>11, <1>13
  <2>2. CustodyState(res) = "held"
    BY <1>1, <1>2, <1>11 DEF CustodyState
  <2>3. CustodyState(res)' = "orphaned"
    BY <1>7, <1>8, <1>11, <2>1 DEF CustodyState
  <2>4. KeepsBase(res)
    BY <1>1, <1>7, <1>8, <1>11, <2>1 DEF KeepsBase, CustodyBase
  <2>5. proc[p].pc \notin Guarded
    BY <1>1 DEF Guarded
  <2>6. Moves(res, "held", "orphaned", FALSE) /\ CustodyAlive(res) = FALSE
    BY <1>4, <1>10, <2>2, <2>3, <2>5, ClaimStepViews DEF Moves, ClaimStep
  <2>7. QED
    BY <2>4, <2>6, KeepingMoves
<1>14. QED
  BY <1>12, <1>13

LEMMA SweepAbandonCustody ==
  ASSUME AllInv, AllInv', NEW p \in Proc, SweepAbandon(p)
  PROVE  Custody!Next
<1> DEFINE o == proc[p].own
           v == owners[o]
           nv == [v EXCEPT !.state = "released", !.attempt = "incomplete"]
<1>1. /\ proc[p].pc = "exported" /\ v.kind = "recovery" /\ Stale(o)
      /\ claims' = [claims EXCEPT ![v.res] = v.source]
      /\ UNCHANGED loop
      /\ Go(p, [proc[p] EXCEPT !.pc = "sweeping", !.own = None])
  BY Zenon DEF SweepAbandon, AbandonAfterRestart
<1>2. /\ o \in Owner /\ v.state = "active" /\ v \in OwnerRec /\ v.res # None
      /\ claims[v.res] = o
  BY <1>1, SMTT(30) DEF AllInv, IInv, TypeOK, LocalsOK, LocalsFit, Stale, HoldsClaim
<1>3. owners' = [owners EXCEPT ![o] = nv]
  BY <1>2 DEF SweepAbandon, AbandonAfterRestart, AllInv, IInv, TypeOK
<1>4. PICK nw \in ProcRec : Go(p, nw) /\ nw.pc \notin Guarded
  BY <1>1, SweptRecord
<1>5. PICK res \in Resource : res = v.res
  BY <1>2 DEF OwnerRec
<1>6. PICK src \in Owner : src = v.source
  BY <1>1, <1>2 DEF AllInv, CInv, RowInv, RecoveryRows
<1>7. owners[src].state = "orphaned"
  BY <1>1, <1>2, <1>6 DEF AllInv, CInv, RowInv, RecoveryRows, EligibleSource
<1>8. \A q \in Owner : q # o => owners'[q] = owners[q]
  BY <1>2, <1>3 DEF AllInv, IInv, TypeOK
<1>9. claims'[res] = src /\ \A y \in Resource : y # res => claims'[y] = claims[y]
  BY <1>1, <1>5, <1>6 DEF AllInv, IInv, TypeOK
<1>10. ClaimStep(p, nw, res)
  BY <1>1, <1>4, <1>5, <1>8, <1>9 DEF ClaimStep, Guarded, Locking
<1>11. src # o /\ owners'[src] = owners[src]
  BY <1>2, <1>7, <1>8
<1>12. claims[res] = o /\ owners[o].source = src /\ owners[o].state = "active"
       /\ owners[o].kind = "recovery"
  BY <1>1, <1>2, <1>5, <1>6
<1>13. /\ owners'[src].state = "orphaned" /\ owners'[src].intent = owners[src].intent
       /\ owners'[src].base = owners[src].base
  BY <1>7, <1>11
<1>14. o \in Owner /\ nw.pc \notin Guarded
  BY <1>2, <1>4
<1> HIDE DEF o, v, nv
<1>15. QED
  BY <1>9, <1>10, <1>12, <1>13, <1>14, ReturnedCustody

LEMMA CreateAndClaimCustody ==
  ASSUME AllInv, AllInv', NEW p \in Proc, NEW o \in Owner, CreateAndClaim(p, o)
  PROVE  Custody!Next
<1> DEFINE w == proc[p]
           next == IF w.kind = "tune" THEN "owned" ELSE "active"
           new == [NoOwnerRow EXCEPT !.state = "active", !.kind = w.kind, !.run = w.run,
                                     !.res = w.res]
           nw == [w EXCEPT !.own = o, !.pc = next]
<1>1. /\ w.pc = "locked" /\ owners[o].state = "absent" /\ claims[w.res] = None
      /\ owners' = [owners EXCEPT ![o] = new]
      /\ claims' = [claims EXCEPT ![w.res] = o]
      /\ Go(p, nw) /\ UNCHANGED loop
  BY DEF CreateAndClaim
<1>2. /\ w \in ProcRec /\ w.res \in Resource /\ next \in {"owned", "active"}
      /\ w.kind \in {"tune", "pid"}
  BY <1>1 DEF AllInv, IInv, TypeOK, LocalsOK, LocalsFit, CInv, StarterKinds
<1>3. new.state = "active" /\ new.kind = w.kind /\ ~ new.intent
  BY DEF NoOwnerRow
<1> HIDE DEF new
<1>4. owners'[o] = new /\ \A q \in Owner : q # o => owners'[q] = owners[q]
  BY <1>1 DEF AllInv, IInv, TypeOK
<1>5. PICK res \in Resource : res = w.res
  BY <1>2
<1>6. claims'[res] = o /\ \A y \in Resource : y # res => claims'[y] = claims[y]
  BY <1>1, <1>5 DEF AllInv, IInv, TypeOK
<1> HIDE DEF w, next
<1>7. nw \in ProcRec /\ nw.pc = next /\ nw.res = w.res
  BY <1>2 DEF ProcRec, PCs, Locking, Guarded
<1> HIDE DEF nw
<1>8. nw.pc \in Guarded /\ w.pc \in Locking /\ w.pc \notin Guarded
  BY <1>1, <1>2, <1>7 DEF Guarded, Locking
<1>9. ClaimStep(p, nw, res)
  BY <1>1, <1>4, <1>5, <1>6, <1>7, <1>8 DEF ClaimStep, w
<1>10. CustodyState(res) = "free"
  BY <1>1, <1>5 DEF CustodyState
<1>11. CustodyState(res)' = "held"
  BY <1>2, <1>3, <1>4, <1>6, ConstantsAssumption DEF CustodyState
<1>12. RenewsBase(res)
  BY <1>1, <1>3, <1>4, <1>6 DEF RenewsBase, CustodyBase
<1>13. Moves(res, "free", "held", TRUE)
  BY <1>1, <1>7, <1>8, <1>9, <1>10, <1>11, ClaimStepViews DEF Moves
<1>14. QED
  BY <1>12, <1>13, RenewingMoves

LEMMA RecoveryStartCustody ==
  ASSUME AllInv, AllInv', NEW p \in Proc, NEW src \in Owner, NEW o \in Owner,
         RecoveryStart(p, src, o)
  PROVE  Custody!Next
<1> DEFINE w == proc[p]
           s == owners[src]
           new == [NoOwnerRow EXCEPT
                  !.state = "active", !.kind = "recovery", !.run = w.run,
                  !.res = s.res, !.intent = s.intent,
                  !.base = s.base, !.source = src, !.attempt = "running"]
           nw == [w EXCEPT !.pc = "active", !.own = o]
<1>1. /\ w.pc = "rlocked" /\ owners[o].state = "absent" /\ claims[s.res] = src
      /\ EligibleSource(src, w.run) /\ s.res = w.res
      /\ owners' = [owners EXCEPT ![o] = new]
      /\ claims' = [claims EXCEPT ![s.res] = o]
      /\ Go(p, nw) /\ UNCHANGED loop
  BY DEF RecoveryStart, StartWithClaim
<1>2. w \in ProcRec /\ w.res \in Resource
  BY <1>1 DEF AllInv, IInv, TypeOK, LocalsOK, LocalsFit
<1>3. s.state = "orphaned"
  BY <1>1 DEF EligibleSource
<1> HIDE DEF s
<1>4. /\ new.state = "active" /\ new.kind = "recovery" /\ new.intent = s.intent
      /\ new.base = s.base
  BY DEF NoOwnerRow
<1> HIDE DEF new
<1>5. owners'[o] = new /\ \A q \in Owner : q # o => owners'[q] = owners[q]
  BY <1>1 DEF AllInv, IInv, TypeOK
<1>6. PICK res \in Resource : res = w.res
  BY <1>2
<1>7. claims'[res] = o /\ \A y \in Resource : y # res => claims'[y] = claims[y]
  BY <1>1, <1>6 DEF AllInv, IInv, TypeOK
<1> HIDE DEF w
<1>8. nw \in ProcRec /\ nw.pc = "active" /\ nw.res = w.res
  BY <1>2 DEF ProcRec, PCs, Locking, Guarded
<1> HIDE DEF nw
<1>9. nw.pc \in Guarded /\ w.pc \in Locking
  BY <1>1, <1>8 DEF Guarded, Locking
<1>10. ClaimStep(p, nw, res)
  BY <1>1, <1>5, <1>6, <1>7, <1>8, <1>9 DEF ClaimStep, w
<1>11. claims[res] = src /\ src # None /\ o # None
  BY <1>1, <1>6, ConstantsAssumption
<1>12. CustodyState(res) = "orphaned"
  BY <1>3, <1>11 DEF CustodyState, s
<1>13. CustodyState(res)' = "recovering"
  BY <1>4, <1>5, <1>7, <1>11 DEF CustodyState
<1>14. KeepsBase(res)
  BY <1>1, <1>4, <1>5, <1>7, <1>11 DEF KeepsBase, CustodyBase, s
<1>15. Moves(res, "orphaned", "recovering", TRUE)
  BY <1>1, <1>8, <1>9, <1>10, <1>12, <1>13, ClaimStepViews DEF Moves
<1>16. QED
  BY <1>14, <1>15, KeepingMoves

LEMMA CompleteAttemptCustody ==
  ASSUME AllInv, AllInv', NEW p \in Proc,
         NEW status \in {"failed", "incomplete", "confirmed"},
         proc[p].pc \in {"active", "completing"}, proc[p].kind = "recovery",
         status = "confirmed" => Wrote(proc[p]), CompleteAttempt(p, status)
  PROVE  Custody!Next
<1> DEFINE o == proc[p].own
           v == owners[o]
           src == v.source
           s == owners[src]
           nv == [v EXCEPT !.state = "released", !.attempt = status]
           over == IF status = "confirmed" THEN "recovered" ELSE s.state
           kept == status # "confirmed"
           ns == [s EXCEPT !.state = over, !.eligible = kept]
           heir == IF status = "confirmed" THEN None ELSE src
<1>1. /\ Go(p, NoOperation)
      /\ owners' = [owners EXCEPT ![o] = nv, ![src] = ns]
      /\ claims' = [claims EXCEPT ![v.res] = heir] /\ UNCHANGED loop
      /\ EligibleSource(src, proc[p].run)
  BY DEF CompleteAttempt
<1>2. proc[p].pc \in Guarded
  BY DEF Guarded
<1>3. /\ o \in Owner /\ v \in OwnerRec /\ v.state = "active" /\ v.kind = "recovery"
      /\ v.res = proc[p].res /\ v.res \in Resource /\ claims[v.res] = o
  BY <1>2, GuardOwn DEF AllInv, IInv, TypeOK
<1>4. /\ src \in Owner /\ src # o /\ s \in OwnerRec /\ s.state = "orphaned" /\ s.res = v.res
      /\ s.base = v.base /\ s.intent = v.intent
  BY <1>3, SMTT(30) DEF AllInv, CInv, RowInv, RecoveryRows, EligibleSource, IInv, TypeOK
<1>5. s.intent
  BY <1>1, <1>4, Zenon DEF AllInv, CInv, RowInv, SourceRows, EligibleSource, RecoveryEligible
<1>6. status = "confirmed" => loop[v.res] = v.base
  BY <1>3 DEF AllInv, CInv, RecoveryWrote
<1>7. PICK res \in Resource : res = v.res
  BY <1>3
<1>8. PICK q \in Owner : q = src
  BY <1>4
<1>9. status # "confirmed" => over = "orphaned" /\ heir = q
  BY <1>4, <1>8
<1>10. status = "confirmed" => heir = None
  OBVIOUS
<1>11. NoOperation \in ProcRec /\ NoOperation.pc \notin Guarded
  BY RestTypes DEF Guarded
<1>12. claims'[res] = heir /\ \A y \in Resource : y # res => claims'[y] = claims[y]
  BY <1>1, <1>7 DEF AllInv, IInv, TypeOK
<1> HIDE DEF s, over, kept, heir
<1>13. ns.state = over /\ ns.intent = s.intent /\ ns.base = s.base
  BY <1>4 DEF OwnerRec
<1> HIDE DEF ns, nv
<1>14. owners'[q] = ns /\ \A x \in Owner : x # o /\ x # q => owners'[x] = owners[x]
  BY <1>1, <1>3, <1>4, <1>8 DEF AllInv, IInv, TypeOK
<1>15. proc[p].pc \in Locking
  BY <1>2, GuardedLocks
<1>16. s = owners[q]
  BY <1>8 DEF s
<1>17. ClaimStep(p, NoOperation, res)
  BY <1>1, <1>3, <1>4, <1>7, <1>11, <1>12, <1>14, <1>15, <1>16 DEF ClaimStep
<1>18. /\ claims[res] = o /\ v.state = "active" /\ v.kind = "recovery" /\ v.source = q
       /\ o \in Owner
  BY <1>3, <1>7, <1>8
<1>19. CASE status # "confirmed"
  <2>1. claims'[res] = q
    BY <1>9, <1>12, <1>19
  <2>2. /\ owners'[q].state = "orphaned" /\ owners'[q].intent = owners[q].intent
        /\ owners'[q].base = owners[q].base
    BY <1>9, <1>13, <1>14, <1>16, <1>19
  <2>3. QED
    BY <1>11, <1>17, <1>18, <2>1, <2>2, ReturnedCustody
<1>20. CASE status = "confirmed"
  <2>1. claims'[res] = None
    BY <1>10, <1>12, <1>20
  <2>2. CustodyState(res) = "recovering" /\ CustodyState(res)' = "free"
    BY <1>18, <2>1, ConstantsAssumption DEF CustodyState
  <2>3. CustodyAlive(res) = TRUE
    BY <1>2, <1>3, <1>7, GuardHolds
  <2>4. CustodyBase(res) = v.base
    BY <1>4, <1>5, <1>18, ConstantsAssumption DEF CustodyBase
  <2>5. loop[res] = v.base
    BY <1>6, <1>7, <1>20
  <2>6. CustodyBase(res)' = loop[res]
    BY <1>1, <2>1 DEF CustodyBase
  <2>7. KeepsBase(res)
    BY <2>4, <2>5, <2>6 DEF KeepsBase
  <2>8. Moves(res, "recovering", "free", FALSE)
    BY <1>1, <1>11, <1>17, <2>2, ClaimStepViews DEF Moves
  <2>9. QED
    BY <2>3, <2>4, <2>5, <2>7, <2>8, KeepingMoves
<1>21. QED
  BY <1>19, <1>20

LEMMA RecoveryEndsCustody ==
  ASSUME AllInv, AllInv', NEW p \in Proc, RecoverySetupFails(p) \/ RecoveryComplete(p)
  PROVE  Custody!Next
<1>1. CASE RecoverySetupFails(p)
  BY <1>1, CompleteAttemptCustody DEF RecoverySetupFails
<1>2. CASE RecoveryComplete(p)
  <2> DEFINE status == IF proc[p].restored /\ proc[p].healthy THEN "confirmed"
                       ELSE "incomplete"
  <2>1. proc[p].pc = "completing" /\ CompleteAttempt(p, status)
    BY <1>2 DEF RecoveryComplete
  <2>2. proc[p].kind = "recovery"
    BY <2>1 DEF AllInv, IInv, LocalsOK, LocalsFit
  <2>3. /\ status \in {"failed", "incomplete", "confirmed"}
        /\ status = "confirmed" => Wrote(proc[p])
    BY <2>1, <2>2 DEF Wrote
  <2> HIDE DEF status
  <2>4. QED
    BY <2>1, <2>2, <2>3, CompleteAttemptCustody
<1>3. QED
  BY <1>1, <1>2

-----------------------------------------------------------------------------
(* The refinement.                                                           *)

LEMMA InitCustody == Init => Custody!Init
<1> SUFFICES ASSUME Init PROVE Custody!Init
  OBVIOUS
<1>1. \A res \in Resource : CustodyState(res) = "free"
  BY DEF Init, CustodyState
<1>2. \A res \in Resource : CustodyAlive(res) = FALSE
  BY DEF Init, CustodyAlive
<1>3. \A res \in Resource : CustodyBase(res) = loop[res]
  BY DEF Init, CustodyBase
<1>4. loop \in [Resource -> Owner \cup {None}]
  BY DEF Init
<1>5. QED
  BY <1>1, <1>2, <1>3, <1>4 DEF Custody!Init

LEMMA NextCustody ==
  ASSUME Deletions = {}
  PROVE  AllInv /\ AllInv' /\ [Next]_vars => [Custody!Next]_(Custody!vars)
<1> SUFFICES ASSUME AllInv, AllInv', [Next]_vars
             PROVE  Custody!Next \/ UNCHANGED Custody!vars
  OBVIOUS
<1>1. CASE UNCHANGED vars
  <2>1. UNCHANGED <<proc, claims, loop, owners>>
    BY <1>1 DEF vars
  <2>2. OwnersServe
    BY <2>1 DEF OwnersServe
  <2>3. QED
    BY <2>1, <2>2, RowsCustody
<1>2. ASSUME NEW p \in Proc, Sweep(p) PROVE Custody!Next \/ UNCHANGED Custody!vars
  BY <1>2, OutsideCustody, SweepOrphanCustody, SweepRetireCustody, SweepAbandonCustody
     DEF Sweep
<1>3. ASSUME NEW p \in Proc, Tune(p) PROVE Custody!Next \/ UNCHANGED Custody!vars
  BY <1>3, PreparesCustody, OutsideCustody, CreateAndClaimCustody, PersistIntentCustody,
     GuardGoesOn, RecordsCustody DEF Tune
<1>4. ASSUME NEW p \in Proc, Write(p) PROVE Custody!Next \/ UNCHANGED Custody!vars
  BY <1>4, AuditCustody, DriverReturnsCustody, GuardGoesOn DEF Write
<1>5. ASSUME NEW p \in Proc, Finish(p) PROVE Custody!Next \/ UNCHANGED Custody!vars
  BY <1>5, GuardGoesOn, LostCustody, RecordsCustody, ReleaseCustody DEF Finish
<1>6. ASSUME NEW p \in Proc, Recover(p) PROVE Custody!Next \/ UNCHANGED Custody!vars
  BY <1>6, PreparesCustody, OutsideCustody, RecoveryStartCustody, RecoveryEndsCustody,
     LostCustody DEF Recover
<1>7. ASSUME NEW p \in Proc, Environment(p) PROVE Custody!Next \/ UNCHANGED Custody!vars
  BY <1>7, OutsideCustody, RecordsCustody, GuardGoesOn, CrashCustody DEF Environment
<1>8. ~ Delete
  BY DEF Delete, HttpDelete, RetentionSweep
<1>9. QED
  BY <1>1, <1>2, <1>3, <1>4, <1>5, <1>6, <1>7, <1>8, TickCustody DEF Next

\* Unless history is deleted the ownership protocol, with its locks, rows,
\* heartbeats, sweeps and crashes, implements the custody of loops: a loop is
\* written only under a live holder, the loop of an interrupted tune passes from
\* hand to hand until a recovery has put back what it carried before, and no
\* other operation takes it meanwhile.
THEOREM OwnershipIsCustody ==
  ASSUME Deletions = {}
  PROVE  Spec => ImplementsCustody
<1>1. Init => AllInv
  BY InitIInv, InitCInv, InitGoalsFit, InitKInv DEF AllInv
<1>2. AllInv /\ [Next]_vars => AllInv'
  BY NextIInv, NextCInv, NextGoalsFit, NextKInv DEF AllInv
<1>3. Init => Custody!Init
  BY InitCustody
<1>4. AllInv /\ AllInv' /\ [Next]_vars => [Custody!Next]_(Custody!vars)
  BY NextCustody
<1>5. QED
  BY <1>1, <1>2, <1>3, <1>4, PTL DEF Spec, ImplementsCustody, Custody!Spec
=============================================================================
