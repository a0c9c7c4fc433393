-------------------------- MODULE WriteBackProofs ---------------------------
(***************************************************************************)
(* Safety of the write-back for any number of operations, response levels  *)
(* and faults, wherever an operation crashes.                              *)
(*                                                                         *)
(* An operation past the acquisition is the owner of the loop, so nobody   *)
(* else changes the constants, and what it has read of them stays true of  *)
(* those it has not written yet.  The invariant says for each step how far *)
(* the audit row has got (RowsFit), what the owner row holds (IntentOK),    *)
(* what the owner knows about each constant (PlantOK) and which write a     *)
(* revert has chosen (TargetOK).                                           *)
(***************************************************************************)
EXTENDS WriteBack, WellFoundedInduction, TLAPS

Running == {"acquire", "connect", "preread", "persist", "write", "verify",
            "rollback", "audit", "release"}

\* What a row says at each step of its operation.
RowFits(r) ==
    /\ r.pc \in Running \/ r.row # None => r.row \in TuneWriteRow /\ r.target \in Triple
    /\ r.pc \in {"acquire", "connect", "preread"} => r.row.previous = None
    /\ r.pc \in {"acquire", "connect", "preread", "persist"} =>
          r.row.written = 0 /\ r.row.readback = 0
    /\ r.pc \in Running \ {"audit", "release"} =>
          ~r.row.success /\ r.row.rollback = "none"
    /\ r.pc \in Running \ {"rollback", "audit", "release"} => r.back = 0 /\ ~r.bad
    /\ r.pc \in {"persist", "write", "verify", "rollback"} => r.row.previous \in Triple
    /\ r.pc = "write" => r.row.written = r.row.readback /\ r.row.readback < 3
    /\ r.pc = "verify" => r.row.written = r.row.readback + 1 /\ r.row.readback < 3
    /\ r.pc = "rollback" => r.back < r.row.readback /\ r.row.readback < r.row.written
    /\ r.pc = "audit" /\ r.row.success => r.row.rollback = "none"

RowsFit == \A o \in Op : RowFits(op[o])

\* Whoever is past the acquisition is the owner.
OwnerOK == \A o \in Op : op[o].pc \in Running \ {"acquire"} => owner = o

\* The readings are in the owner row from the first write on.
IntentOK ==
    \A o \in Op :
        \/ op[o].pc \in {"write", "verify", "rollback"}
        \/ op[o].row # None /\ op[o].row.written > 0
        => intent[o] = [previous |-> op[o].row.previous, target |-> op[o].target]

\* The operation has read the constants.
HasRead(r) ==
    \/ r.pc \in {"persist", "write", "verify", "rollback"}
    \/ /\ r.pc \in Running \/ r.row # None
       /\ r.row.written > 0 \/ r.row.previous # None

\* What the owner knows about the constants.
PlantFits(r) ==
    /\ HasRead(r) => \A c \in Const : c > r.row.written => plant[c] = r.row.previous[c]
    /\ r.pc \in {"write", "verify"} =>
          \A c \in Const : c <= r.row.readback => plant[c] = r.target[c]
    /\ r.pc = "audit" /\ r.row.success => \A c \in Const : plant[c] = r.target[c]
    /\ r.pc = "rollback" /\ ~r.bad =>
          \A c \in Const : c <= r.back => plant[c] = r.row.previous[c]
    /\ r.pc = "audit" /\ r.row.rollback = "succeeded" =>
          \A c \in Const : c <= r.row.readback => plant[c] = r.row.previous[c]

PlantOK == \A o \in Op : owner = o => PlantFits(op[o])

\* What a revert has chosen: the newest write, unless one landed since.
TargetFits(r) ==
    r.as = "pid_revert" =>
        /\ r.listed <= Len(rows)
        /\ \E i \in DOMAIN rows :
              /\ IsNewestWrite(i)
              /\ i <= r.listed =>
                    r.target = rows[i].previous /\ r.row.level = rows[i].level

TargetOK == \A o \in Op : TargetFits(op[o])

\* The inductive invariant.
IInv == TypeOK /\ RowsFit /\ OwnerOK /\ IntentOK /\ PlantOK /\ TargetOK

-----------------------------------------------------------------------------

LEMMA InitIInv == Init => IInv
<1> SUFFICES ASSUME Init PROVE IInv
  OBVIOUS
<1>1. TypeOK
  BY WriteBackConstants DEF Init, TypeOK, Triple, Value, OpRec, PCs, Outcomes, Fresh
<1>2. \A o \in Op : op[o] = Fresh
  BY DEF Init
<1>3. RowsFit
  BY <1>2 DEF RowsFit, RowFits, Running, Fresh
<1>4. OwnerOK /\ IntentOK /\ TargetOK
  BY <1>2 DEF OwnerOK, IntentOK, TargetOK, TargetFits, Running, Fresh
<1>5. PlantOK
  BY <1>2 DEF PlantOK, PlantFits, HasRead, Running, Fresh
<1> QED
  BY <1>1, <1>3, <1>4, <1>5 DEF IInv

\* A row is added to the audit trail: a revert's choice stays the newest
\* write, or the row is a write it has not listed.
LEMMA TargetFitsAppend ==
    ASSUME rows \in Seq(TuneWriteRow), NEW w \in TuneWriteRow, rows' = Append(rows, w),
           NEW r, TargetFits(r), r.as = "pid_revert", r.listed \in Nat
    PROVE  /\ r.listed <= Len(rows')
           /\ \E i \in DOMAIN rows' :
                /\ IsNewestWrite(i)'
                /\ i <= r.listed =>
                      r.target = rows'[i].previous /\ r.row.level = rows'[i].level
<1> PICK n \in Nat : n = Len(rows) + 1
  OBVIOUS
<1>1. /\ Len(rows) \in Nat /\ DOMAIN rows = 1..Len(rows)
      /\ Len(rows') = n /\ DOMAIN rows' = 1..n /\ rows'[n] = w
      /\ \A i \in DOMAIN rows : rows'[i] = rows[i]
  OBVIOUS
<1>2. PICK i \in DOMAIN rows :
         /\ IsNewestWrite(i)
         /\ i <= r.listed => r.target = rows[i].previous /\ r.row.level = rows[i].level
  BY DEF TargetFits
<1>3. r.listed <= Len(rows)
  BY DEF TargetFits
<1>4. CASE w.kind = "write"
  <2>1. IsNewestWrite(n)'
    BY <1>1, <1>4 DEF IsNewestWrite
  <2>2. n \in DOMAIN rows' /\ ~(n <= r.listed)
    BY <1>1, <1>3
  <2> QED
    BY <1>1, <1>3, <2>1, <2>2
<1>5. CASE w.kind # "write"
  <2>1. IsNewestWrite(i)'
    BY <1>1, <1>2, <1>5 DEF IsNewestWrite
  <2> QED
    BY <1>1, <1>2, <1>3, <2>1
<1> QED
  BY <1>4, <1>5

\* One operation moves: what it leaves alone keeps the invariant for the
\* others.
LEMMA StepIInv ==
    ASSUME IInv, NEW o \in Op, TypeOK',
           \A p \in Op \ {o} : op'[p] = op[p] /\ intent'[p] = intent[p],
           \A p \in Op \ {o} : (owner' = p) => owner = p /\ plant' = plant,
           \A p \in Op \ {o} : owner = p => owner' = p,
           \/ rows' = rows
           \/ \E w \in TuneWriteRow : rows' = Append(rows, w),
           RowFits(op[o])',
           op'[o].pc \in Running \ {"acquire"} => owner' = o,
           \/ op'[o].pc \in {"write", "verify", "rollback"}
           \/ op'[o].row # None /\ op'[o].row.written > 0
           => intent'[o] = [previous |-> op'[o].row.previous, target |-> op'[o].target],
           owner' = o => PlantFits(op[o])',
           \/ op'[o].as # "pid_revert"
           \/ /\ op'[o].as = op[o].as /\ op'[o].target = op[o].target
              /\ op'[o].listed = op[o].listed
              /\ op'[o].row.level = op[o].row.level
           \/ rows' = rows /\ TargetFits(op'[o])
    PROVE  IInv'
<1>1. RowsFit'
  BY DEF IInv, RowsFit
<1>2. OwnerOK'
  BY DEF IInv, OwnerOK
<1>3. IntentOK'
  BY DEF IInv, IntentOK
<1>4. PlantOK'
  BY DEF IInv, PlantOK, PlantFits
<1>5. TargetOK'
  <2> SUFFICES ASSUME NEW p \in Op PROVE TargetFits(op[p])'
    BY DEF TargetOK
  <2>1. \/ op'[p].as # "pid_revert"
        \/ /\ op'[p].as = op[p].as /\ op'[p].target = op[p].target
           /\ op'[p].listed = op[p].listed /\ op'[p].row.level = op[p].row.level
        \/ rows' = rows /\ TargetFits(op'[p])
    OBVIOUS
  <2>2. TargetFits(op[p]) /\ rows \in Seq(TuneWriteRow) /\ op[p].listed \in Nat
    BY DEF IInv, TargetOK, TypeOK, OpRec
  <2>3. CASE rows' = rows
    BY <2>1, <2>2, <2>3 DEF TargetFits, IsNewestWrite
  <2>4. CASE \E w \in TuneWriteRow : rows' = Append(rows, w)
    <3>1. CASE op'[p].as = "pid_revert" /\ op'[p].as = op[p].as
               /\ op'[p].target = op[p].target /\ op'[p].listed = op[p].listed
               /\ op'[p].row.level = op[p].row.level
      BY <2>2, <2>4, <3>1, TargetFitsAppend DEF TargetFits
    <3> QED
      BY <2>1, <2>3, <3>1 DEF TargetFits
  <2> QED
    BY <2>3, <2>4
<1> QED
  BY <1>1, <1>2, <1>3, <1>4, <1>5 DEF IInv

LEMMA FreshIsTyped == Fresh \in OpRec
  BY DEF Fresh, OpRec, PCs, Outcomes

\* An operation that ends has nothing left to say.
LEMMA EndsFits ==
    ASSUME IInv, NEW o \in Op, NEW result \in Outcomes, Ends(o, result)
    PROVE  /\ op' \in [Op -> OpRec]
           /\ \A p \in Op \ {o} : op'[p] = op[p]
           /\ op'[o].pc = "done" /\ op'[o].row = None /\ op'[o].as = "tune"
           /\ RowFits(op[o])' /\ PlantFits(op[o])'
<1> DEFINE r1 == [Fresh EXCEPT !.pc = "done"]
           r2 == [r1 EXCEPT !.outcome = result]
<1>1. r1 \in OpRec /\ r1.pc = "done" /\ r1.row = None /\ r1.as = "tune"
  BY FreshIsTyped DEF Fresh, OpRec, PCs
<1>2. op' = [op EXCEPT ![o] = r2]
  BY DEF Ends
<1> HIDE DEF r1
<1>3. r2 \in OpRec /\ r2.pc = "done" /\ r2.row = None /\ r2.as = "tune"
  BY <1>1 DEF OpRec
<1> HIDE DEF r2
<1>4. /\ op' \in [Op -> OpRec]
      /\ \A p \in Op \ {o} : op'[p] = op[p]
      /\ op'[o] = r2
  BY <1>2, <1>3 DEF IInv, TypeOK
<1>5. RowFits(op[o])' /\ PlantFits(op[o])'
  BY <1>3, <1>4 DEF RowFits, PlantFits, HasRead, Running
<1> QED
  BY <1>3, <1>4, <1>5

\* An operation that sets out has read and written nothing.
LEMMA ProceedsFits ==
    ASSUME IInv, NEW o \in Op, NEW as \in {"tune", "pid_write", "pid_revert"},
           NEW k \in Kind, NEW l \in Level, NEW t \in Triple,
           NEW pc \in {"acquire", "preread"}, NEW n \in Nat,
           Proceeds(o, as, k, l, t, pc, n)
    PROVE  /\ op' \in [Op -> OpRec]
           /\ \A p \in Op \ {o} : op'[p] = op[p]
           /\ op'[o].pc = pc /\ op'[o].as = as /\ op'[o].target = t
           /\ op'[o].listed = n /\ op'[o].row.level = l /\ op'[o].row.written = 0
           /\ RowFits(op[o])' /\ PlantFits(op[o])'
<1> DEFINE w  == NewTuneWrite(k, l)
           r1 == [Fresh EXCEPT !.pc = pc]
           r2 == [r1 EXCEPT !.as = as]
           r3 == [r2 EXCEPT !.target = t]
           r4 == [r3 EXCEPT !.row = w]
           r5 == [r4 EXCEPT !.listed = n]
<1>1. w \in TuneWriteRow
  BY DEF NewTuneWrite, TuneWriteRow
<1>2. op' = [op EXCEPT ![o] = r5]
  BY DEF Proceeds
<1> HIDE DEF w
<1>3. r1 \in OpRec /\ r1.pc = pc /\ r1.back = 0 /\ r1.bad = FALSE
  BY FreshIsTyped DEF Fresh, OpRec, PCs
<1> HIDE DEF r1
<1>4. r2 \in OpRec /\ r2.pc = pc /\ r2.as = as /\ r2.back = 0 /\ r2.bad = FALSE
  BY <1>3 DEF OpRec
<1> HIDE DEF r2
<1>5. /\ r3 \in OpRec /\ r3.pc = pc /\ r3.as = as /\ r3.target = t
      /\ r3.back = 0 /\ r3.bad = FALSE
  BY <1>4 DEF OpRec
<1> HIDE DEF r3
<1>6. /\ r4 \in OpRec /\ r4.pc = pc /\ r4.as = as /\ r4.target = t /\ r4.row = w
      /\ r4.back = 0 /\ r4.bad = FALSE
  BY <1>1, <1>5 DEF OpRec
<1> HIDE DEF r4
<1>7. /\ r5 \in OpRec /\ r5.pc = pc /\ r5.as = as /\ r5.target = t /\ r5.row = w
       /\ r5.back = 0 /\ r5.bad = FALSE /\ r5.listed = n
  BY <1>6 DEF OpRec
<1> HIDE DEF r5
<1>8. /\ op' \in [Op -> OpRec]
      /\ \A p \in Op \ {o} : op'[p] = op[p]
      /\ op'[o] = r5
  BY <1>2, <1>7 DEF IInv, TypeOK
<1>9. /\ w.level = l /\ w.written = 0 /\ w.readback = 0 /\ w.previous = None
      /\ w.success = FALSE /\ w.rollback = "none"
  BY DEF w, NewTuneWrite
<1>10. RowFits(op[o])' /\ PlantFits(op[o])'
  BY <1>1, <1>7, <1>8, <1>9 DEF RowFits, PlantFits, HasRead
<1> QED
  BY <1>7, <1>8, <1>9, <1>10

-----------------------------------------------------------------------------
(* Steps of an operation that is under way.                                *)

\* Operation o becomes the record with these fields.
Becomes(o, pc, w, b, x) ==
    /\ op' \in [Op -> OpRec]
    /\ \A p \in Op \ {o} : op'[p] = op[p]
    /\ op'[o].pc = pc /\ op'[o].row = w /\ op'[o].back = b /\ op'[o].bad = x
    /\ op'[o].target = op[o].target /\ op'[o].as = op[o].as
    /\ op'[o].listed = op[o].listed

\* It only changes its step.
Moved(o, pc) == Becomes(o, pc, op[o].row, op[o].back, op[o].bad)

HasFields(r, a, pc, w, b, x) ==
    /\ r \in OpRec
    /\ r.pc = pc /\ r.row = w /\ r.back = b /\ r.bad = x
    /\ r.target = a.target /\ r.as = a.as /\ r.listed = a.listed

LEMMA SetPc ==
    ASSUME NEW r, NEW a, NEW pc, NEW w, NEW b, NEW x, HasFields(r, a, pc, w, b, x),
           NEW pc2 \in PCs
    PROVE  HasFields([r EXCEPT !.pc = pc2], a, pc2, w, b, x)
BY DEF OpRec, HasFields

LEMMA SetOutcome ==
    ASSUME NEW r, NEW a, NEW pc, NEW w, NEW b, NEW x, HasFields(r, a, pc, w, b, x),
           NEW u \in Outcomes
    PROVE  HasFields([r EXCEPT !.outcome = u], a, pc, w, b, x)
BY DEF OpRec, HasFields

LEMMA SetRow ==
    ASSUME NEW r, NEW a, NEW pc, NEW w, NEW b, NEW x, HasFields(r, a, pc, w, b, x),
           NEW w2 \in TuneWriteRow
    PROVE  HasFields([r EXCEPT !.row = w2], a, pc, w2, b, x)
BY DEF OpRec, HasFields

LEMMA SetBack ==
    ASSUME NEW r, NEW a, NEW pc, NEW w, NEW b, NEW x, HasFields(r, a, pc, w, b, x),
           NEW b2 \in 0..3
    PROVE  HasFields([r EXCEPT !.back = b2], a, pc, w, b2, x)
BY DEF OpRec, HasFields

LEMMA SetBad ==
    ASSUME NEW r, NEW a, NEW pc, NEW w, NEW b, NEW x, HasFields(r, a, pc, w, b, x),
           NEW x2 \in BOOLEAN
    PROVE  HasFields([r EXCEPT !.bad = x2], a, pc, w, b, x2)
BY DEF OpRec, HasFields

LEMMA SetOp ==
    ASSUME IInv, NEW o \in Op, NEW r, NEW pc, NEW w, NEW b, NEW x,
           HasFields(r, op[o], pc, w, b, x), op' = [op EXCEPT ![o] = r]
    PROVE  Becomes(o, pc, w, b, x)
BY DEF HasFields, Becomes, IInv, TypeOK

\* What an operation is before it moves.
LEMMA OpHasFields ==
    ASSUME IInv, NEW o \in Op
    PROVE  HasFields(op[o], op[o], op[o].pc, op[o].row, op[o].back, op[o].bad)
BY DEF HasFields, IInv, TypeOK

LEMMA MovesTo ==
    ASSUME IInv, NEW o \in Op, NEW pc \in PCs, op' = [op EXCEPT ![o].pc = pc]
    PROVE  Moved(o, pc)
<1>1. op' = [op EXCEPT ![o] = [op[o] EXCEPT !.pc = pc]]
  BY DEF IInv
<1> QED
  BY OpHasFields, SetPc, SetOp DEF Moved

LEMMA MovesWith ==
    ASSUME IInv, NEW o \in Op, NEW pc \in PCs, NEW u \in Outcomes,
           op' = [op EXCEPT ![o].pc = pc, ![o].outcome = u]
    PROVE  Moved(o, pc)
<1> DEFINE r == [op[o] EXCEPT !.pc = pc]
<1>1. op' = [op EXCEPT ![o] = [r EXCEPT !.outcome = u]]
  BY DEF IInv
<1>2. HasFields(r, op[o], pc, op[o].row, op[o].back, op[o].bad)
  BY OpHasFields, SetPc
<1> HIDE DEF r
<1>3. HasFields([r EXCEPT !.outcome = u], op[o], pc, op[o].row, op[o].back, op[o].bad)
  BY <1>2, SetOutcome
<1> QED
  BY <1>1, <1>3, SetOp DEF Moved

\* The two ways to stop early.
LEMMA MovesToRelease ==
    ASSUME IInv, NEW o \in Op,
           op' = [op EXCEPT ![o].pc = "release", ![o].outcome = "error"]
    PROVE  Moved(o, "release")
<1>1. "release" \in PCs /\ "error" \in Outcomes
  BY DEF PCs, Outcomes
<1> QED
  BY <1>1, MovesWith

LEMMA MovesToAudit ==
    ASSUME IInv, NEW o \in Op,
           op' = [op EXCEPT ![o].pc = "audit", ![o].outcome = "failed"]
    PROVE  Moved(o, "audit")
<1>1. "audit" \in PCs /\ "failed" \in Outcomes
  BY DEF PCs, Outcomes
<1> QED
  BY <1>1, MovesWith

-----------------------------------------------------------------------------

LEMMA InRunWriteBackIInv ==
    ASSUME IInv, NEW o \in Op, InRunWriteBack(o)
    PROVE  IInv'
<1>1. owner = None /\ UNCHANGED <<plant, rows, intent, faults>>
  BY DEF InRunWriteBack, Fine
<1>2. CASE (Ends(o, "skipped") \/ Ends(o, "failed")) /\ UNCHANGED owner
  <2>1. /\ op' \in [Op -> OpRec]
        /\ \A p \in Op \ {o} : op'[p] = op[p]
        /\ op'[o].pc = "done" /\ op'[o].row = None /\ op'[o].as = "tune"
        /\ RowFits(op[o])' /\ PlantFits(op[o])'
    BY <1>2, EndsFits DEF Outcomes
  <2> QED
    BY <1>1, <1>2, <2>1, StepIInv DEF IInv, TypeOK, Running
<1>3. CASE \E l \in Level :
               Proceeds(o, "tune", "write", l, Target(l), "preread", 0) /\ owner' = o
  <2>1. PICK l \in Level :
               Proceeds(o, "tune", "write", l, Target(l), "preread", 0) /\ owner' = o
    BY <1>3
  <2>2. Target(l) \in Triple
    BY DEF Target, Triple, Value
  <2>3. /\ op' \in [Op -> OpRec]
        /\ \A p \in Op \ {o} : op'[p] = op[p]
        /\ op'[o].pc = "preread" /\ op'[o].as = "tune"
        /\ op'[o].row.written = 0
        /\ RowFits(op[o])' /\ PlantFits(op[o])'
    BY <2>1, <2>2, ProceedsFits DEF Kind
  <2> QED
    BY <1>1, <2>1, <2>3, WriteBackConstants, StepIInv DEF IInv, TypeOK
<1> QED
  BY <1>2, <1>3 DEF InRunWriteBack

LEMMA WriteRunIInv ==
    ASSUME IInv, NEW o \in Op, WriteRun(o)
    PROVE  IInv'
<1>1. UNCHANGED <<plant, rows, owner, intent, faults>>
  BY DEF WriteRun, Fine
<1>2. CASE Ends(o, "refused")
  <2>1. /\ op' \in [Op -> OpRec]
        /\ \A p \in Op \ {o} : op'[p] = op[p]
        /\ op'[o].pc = "done" /\ op'[o].row = None /\ op'[o].as = "tune"
        /\ RowFits(op[o])' /\ PlantFits(op[o])'
    BY <1>2, EndsFits DEF Outcomes
  <2> QED
    BY <1>1, <2>1, StepIInv DEF IInv, TypeOK, Running
<1>3. CASE \E l \in Level : Proceeds(o, "pid_write", "write", l, Target(l), "acquire", 0)
  <2>1. PICK l \in Level : Proceeds(o, "pid_write", "write", l, Target(l), "acquire", 0)
    BY <1>3
  <2>2. Target(l) \in Triple
    BY DEF Target, Triple, Value
  <2>3. /\ op' \in [Op -> OpRec]
        /\ \A p \in Op \ {o} : op'[p] = op[p]
        /\ op'[o].pc = "acquire" /\ op'[o].as = "pid_write"
        /\ op'[o].row.written = 0
        /\ RowFits(op[o])' /\ PlantFits(op[o])'
    BY <2>1, <2>2, ProceedsFits DEF Kind
  <2> QED
    BY <1>1, <2>3, StepIInv DEF IInv, TypeOK
<1> QED
  BY <1>2, <1>3 DEF WriteRun

\* A set of numbers below a bound has a largest element.
LEMMA MaxBelow ==
    ASSUME NEW n \in Nat, NEW I, I \subseteq 1..n, I # {}
    PROVE  Max(I) \in I /\ \A i \in I : Max(I) >= i
<1> DEFINE T == {k \in Nat : n - k \in I}
<1>1. \A i \in I : n - i \in T
  OBVIOUS
<1>2. T \subseteq Nat /\ T # {}
  BY <1>1
<1> HIDE DEF T
<1>3. PICK x \in T : \A y \in T : <<y, x>> \notin OpToRel(<, Nat)
  BY <1>2, NatLessThanWellFounded, WFMin
<1>4. \A y \in T : ~(y < x)
  BY <1>2, <1>3 DEF OpToRel
<1>5. n - x \in I
  BY DEF T
<1>6. \A j \in I : n - x >= j
  BY <1>1, <1>2, <1>4
<1> QED
  BY <1>5, <1>6 DEF Max

\* SelectLastInSeq finds the newest write.
LEMMA LastWriteIsWrite ==
    ASSUME rows \in Seq(TuneWriteRow), LastWrite # 0
    PROVE  LastWrite \in DOMAIN rows /\ IsNewestWrite(LastWrite)
<1> DEFINE I == {i \in 1..Len(rows) : rows[i].kind = "write"}
<1>1. Len(rows) \in Nat /\ DOMAIN rows = 1..Len(rows)
  OBVIOUS
<1>2. I # {} /\ LastWrite = Max(I)
  BY DEF LastWrite, SelectLastInSeq
<1>3. I \subseteq 1..Len(rows)
  OBVIOUS
<1>4. LastWrite \in I /\ \A i \in I : LastWrite >= i
  BY <1>1, <1>2, MaxBelow
<1>5. \A j \in DOMAIN rows : rows[j].kind = "write" => j <= LastWrite
  BY <1>1, <1>4
<1> QED
  BY <1>4, <1>5 DEF IsNewestWrite

LEMMA RevertRunIInv ==
    ASSUME IInv, NEW o \in Op, NEW confirmed, NEW flag, RevertRun(o, confirmed, flag)
    PROVE  IInv'
<1>1. UNCHANGED <<plant, rows, owner, intent, faults>>
  BY DEF RevertRun, Fine
<1>2. CASE Ends(o, "refused")
  <2>1. /\ op' \in [Op -> OpRec]
        /\ \A p \in Op \ {o} : op'[p] = op[p]
        /\ op'[o].pc = "done" /\ op'[o].row = None /\ op'[o].as = "tune"
        /\ RowFits(op[o])' /\ PlantFits(op[o])'
    BY <1>2, EndsFits DEF Outcomes
  <2> QED
    BY <1>1, <2>1, StepIInv DEF IInv, TypeOK, Running
<1>3. CASE /\ LastWrite # 0
           /\ rows[LastWrite].previous # None
           /\ Proceeds(o, "pid_revert", "revert", rows[LastWrite].level,
                       rows[LastWrite].previous, "acquire", Len(rows))
  <2> DEFINE r == rows[LastWrite]
  <2>1. rows \in Seq(TuneWriteRow)
    BY DEF IInv, TypeOK
  <2>2. LastWrite \in DOMAIN rows /\ IsNewestWrite(LastWrite)
    BY <1>3, <2>1, LastWriteIsWrite
  <2>3. r \in TuneWriteRow
    BY <2>1, <2>2
  <2>4. r.level \in Level /\ r.previous \in Triple /\ Len(rows) \in Nat
    BY <1>3, <2>1, <2>3 DEF TuneWriteRow
  <2>5. /\ op' \in [Op -> OpRec]
        /\ \A p \in Op \ {o} : op'[p] = op[p]
        /\ op'[o].pc = "acquire" /\ op'[o].as = "pid_revert" /\ op'[o].target = r.previous
        /\ op'[o].row.level = r.level /\ op'[o].row.written = 0
        /\ op'[o].listed = Len(rows)
        /\ RowFits(op[o])' /\ PlantFits(op[o])'
    BY <1>3, <2>4, ProceedsFits DEF Kind
  <2>6. TargetFits(op'[o])
    BY <2>2, <2>4, <2>5 DEF TargetFits
  <2> QED
    BY <1>1, <2>5, <2>6, StepIInv DEF IInv, TypeOK
<1> QED
  BY <1>2, <1>3 DEF RevertRun

LEMMA AcquireIInv ==
    ASSUME IInv, NEW o \in Op, Acquire(o)
    PROVE  IInv'
<1>1. op[o].pc = "acquire" /\ UNCHANGED <<plant, rows, intent, faults>>
  BY DEF Acquire, Fine
<1>2. CASE owner = None /\ owner' = o /\ op' = [op EXCEPT ![o].pc = "connect"]
  <2>1. Moved(o, "connect")
    BY <1>2, MovesTo DEF PCs
  <2>2. RowFits(op[o])'
    BY <1>1, <2>1 DEF Moved, Becomes, IInv, RowsFit, RowFits, Running
  <2>3. PlantFits(op[o])' /\ op[o].row.written = 0
    BY <1>1, <2>1, <2>2 DEF Moved, Becomes, RowFits, PlantFits, HasRead
  <2> QED
    BY <1>1, <1>2, <2>1, <2>2, <2>3, WriteBackConstants, StepIInv
    DEF Moved, Becomes, IInv, TypeOK
<1>3. CASE Ends(o, "conflict") /\ UNCHANGED owner
  <2>1. /\ op' \in [Op -> OpRec]
        /\ \A p \in Op \ {o} : op'[p] = op[p]
        /\ op'[o].pc = "done" /\ op'[o].row = None /\ op'[o].as = "tune"
        /\ RowFits(op[o])' /\ PlantFits(op[o])'
    BY <1>3, EndsFits DEF Outcomes
  <2> QED
    BY <1>1, <1>3, <2>1, StepIInv DEF IInv, TypeOK, Running
<1> QED
  BY <1>2, <1>3 DEF Acquire

LEMMA ConnectIInv ==
    ASSUME IInv, NEW o \in Op, Connect(o)
    PROVE  IInv'
<1>1. /\ op[o].pc = "connect" /\ owner = o
      /\ UNCHANGED <<plant, rows, owner, intent>> /\ faults' \in 0..MaxFaults
  BY WriteBackConstants DEF Connect, Fine, Fault, IInv, TypeOK, OwnerOK, Running
<1>2. Moved(o, "preread") \/ Moved(o, "release")
  <2>1. CASE op' = [op EXCEPT ![o].pc = "preread"]
    BY <2>1, MovesTo DEF PCs
  <2> QED
    BY <2>1, MovesToRelease DEF Connect
<1>3. RowFits(op[o])'
  BY <1>1, <1>2 DEF Moved, Becomes, IInv, RowsFit, RowFits, Running
<1>4. PlantFits(op[o])' /\ op[o].row.written = 0
  BY <1>1, <1>2 DEF Moved, Becomes, PlantFits, HasRead, IInv, RowsFit, RowFits
<1> QED
  BY <1>1, <1>2, <1>3, <1>4, StepIInv DEF Moved, Becomes, IInv, TypeOK

LEMMA PreReadIInv ==
    ASSUME IInv, NEW o \in Op, PreRead(o)
    PROVE  IInv'
<1>1. /\ op[o].pc = "preread" /\ owner = o
      /\ UNCHANGED <<plant, rows, owner, intent>> /\ faults' \in 0..MaxFaults
  BY WriteBackConstants DEF PreRead, Fine, Fault, IInv, TypeOK, OwnerOK, Running
<1>2. CASE \/ op' = [op EXCEPT ![o].pc = "release", ![o].outcome = "error"]
           \/ op' = [op EXCEPT ![o].pc = "audit", ![o].outcome = "failed"]
  <2>1. Moved(o, "release") \/ Moved(o, "audit")
    BY <1>2, MovesToRelease, MovesToAudit
  <2>2. RowFits(op[o])'
    BY <1>1, <2>1 DEF Moved, Becomes, IInv, RowsFit, RowFits, Running
  <2>3. PlantFits(op[o])' /\ op[o].row.written = 0
    BY <1>1, <2>1 DEF Moved, Becomes, PlantFits, HasRead, IInv, RowsFit, RowFits, Running
  <2> QED
    BY <1>1, <2>1, <2>2, <2>3, StepIInv DEF Moved, Becomes, IInv, TypeOK
<1>3. CASE op' = [op EXCEPT ![o].pc = "persist", ![o].row.previous = plant]
  <2> DEFINE w == [op[o].row EXCEPT !.previous = plant]
             r == [op[o] EXCEPT !.pc = "persist"]
  <2>1. op[o] \in OpRec /\ op[o].row \in TuneWriteRow
    BY <1>1 DEF IInv, TypeOK, RowsFit, RowFits, Running
  <2>2. /\ w \in TuneWriteRow /\ w.previous = plant
        /\ w.level = op[o].row.level /\ w.written = op[o].row.written
        /\ w.readback = op[o].row.readback
        /\ w.success = op[o].row.success /\ w.rollback = op[o].row.rollback
    BY <2>1 DEF TuneWriteRow, IInv, TypeOK
  <2>3. HasFields(r, op[o], "persist", op[o].row, op[o].back, op[o].bad)
    BY OpHasFields, SetPc DEF PCs
  <2>4. op' = [op EXCEPT ![o] = [r EXCEPT !.row = w]]
    BY <1>3
  <2> HIDE DEF w, r
  <2>5. Becomes(o, "persist", w, op[o].back, op[o].bad)
    BY <2>2, <2>3, <2>4, SetRow, SetOp
  <2>6. RowFits(op[o])'
    BY <1>1, <2>2, <2>5 DEF Becomes, IInv, TypeOK, RowsFit, RowFits, Running
  <2>7. PlantFits(op[o])' /\ op'[o].row.written = 0
    BY <1>1, <2>2, <2>5, <2>6 DEF Becomes, PlantFits, RowFits
  <2> QED
    BY <1>1, <2>2, <2>5, <2>6, <2>7, StepIInv DEF Becomes, IInv, TypeOK
<1> QED
  BY <1>2, <1>3 DEF PreRead

LEMMA PersistIntentIInv ==
    ASSUME IInv, NEW o \in Op, PersistIntent(o)
    PROVE  IInv'
<1>1. /\ op[o].pc = "persist" /\ owner = o
      /\ UNCHANGED <<plant, rows, owner>> /\ faults' \in 0..MaxFaults
  BY WriteBackConstants DEF PersistIntent, Fine, Fault, IInv, TypeOK, OwnerOK, Running
<1>2. op[o].row.written = 0 /\ op[o].row.readback = 0 /\ PlantFits(op[o])
  BY <1>1 DEF IInv, RowsFit, RowFits, PlantOK
<1>3. CASE /\ op' = [op EXCEPT ![o].pc = "write"]
           /\ intent' = [intent EXCEPT ![o] = [previous |-> op[o].row.previous,
                                               target   |-> op[o].target]]
  <2>1. Moved(o, "write")
    BY <1>3, MovesTo DEF PCs
  <2>2. RowFits(op[o])'
    BY <1>1, <2>1 DEF Moved, Becomes, IInv, RowsFit, RowFits, Running
  <2>3. PlantFits(op[o])'
    BY <1>1, <1>2, <2>1 DEF Moved, Becomes, PlantFits, HasRead, Const
  <2>4. op[o].row.previous \in Triple /\ op[o].target \in Triple
    BY <1>1 DEF IInv, RowsFit, RowFits, Running
  <2>5. /\ intent' \in [Op -> {None} \cup [previous: Triple, target: Triple]]
        /\ \A p \in Op \ {o} : intent'[p] = intent[p]
        /\ intent'[o] = [previous |-> op[o].row.previous, target |-> op[o].target]
    BY <1>3, <2>4 DEF IInv, TypeOK
  <2> QED
    BY <1>1, <2>1, <2>2, <2>3, <2>5, StepIInv DEF Moved, Becomes, IInv, TypeOK
<1>4. CASE /\ op' = [op EXCEPT ![o].pc = "release", ![o].outcome = "error"]
           /\ UNCHANGED intent
  <2>1. Moved(o, "release")
    BY <1>4, MovesToRelease
  <2>2. RowFits(op[o])'
    BY <1>1, <2>1 DEF Moved, Becomes, IInv, RowsFit, RowFits, Running
  <2>3. PlantFits(op[o])'
    BY <1>1, <1>2, <2>1 DEF Moved, Becomes, PlantFits, HasRead
  <2> QED
    BY <1>1, <1>2, <1>4, <2>1, <2>2, <2>3, StepIInv DEF Moved, Becomes, IInv, TypeOK
<1> QED
  BY <1>3, <1>4 DEF PersistIntent

\* StepFails, as a record.
LEMMA StepFailsFields ==
    ASSUME IInv, NEW o \in Op
    PROVE  \/ /\ op[o].row.kind = "write" /\ op[o].row.readback > 0
              /\ HasFields(StepFails(o), op[o], "rollback", op[o].row, op[o].back, op[o].bad)
           \/ HasFields(StepFails(o), op[o], "audit", op[o].row, op[o].back, op[o].bad)
<1> DEFINE r(pc) == [op[o] EXCEPT !.pc = pc]
<1>1. ASSUME NEW pc \in PCs
      PROVE  HasFields([r(pc) EXCEPT !.outcome = "failed"], op[o], pc, op[o].row,
                       op[o].back, op[o].bad)
  <2>1. HasFields(r(pc), op[o], pc, op[o].row, op[o].back, op[o].bad)
    BY OpHasFields, SetPc
  <2> HIDE DEF r
  <2>2. "failed" \in Outcomes
    BY DEF Outcomes
  <2> QED
    BY <2>1, <2>2, SetOutcome
<1>2. \/ /\ op[o].row.kind = "write" /\ op[o].row.readback > 0
         /\ StepFails(o) = [r("rollback") EXCEPT !.outcome = "failed"]
      \/ StepFails(o) = [r("audit") EXCEPT !.outcome = "failed"]
  BY DEF StepFails
<1>3. "rollback" \in PCs /\ "audit" \in PCs
  BY DEF PCs
<1> HIDE DEF r
<1> QED
  BY <1>1, <1>2, <1>3

LEMMA WriteConstantIInv ==
    ASSUME IInv, NEW o \in Op, WriteConstant(o)
    PROVE  IInv'
<1> DEFINE c == Current(o)
           w == [op[o].row EXCEPT !.written = c]
<1>1. /\ op[o].pc = "write" /\ owner = o
      /\ UNCHANGED <<rows, owner, intent>>
  BY DEF WriteConstant, IInv, OwnerOK, Running
<1>2. /\ op[o] \in OpRec /\ op[o].row \in TuneWriteRow /\ op[o].target \in Triple
      /\ op[o].row.previous \in Triple
      /\ op[o].row.written = op[o].row.readback /\ op[o].row.readback < 3
      /\ ~op[o].row.success /\ op[o].row.rollback = "none"
      /\ op[o].back = 0 /\ ~op[o].bad
  BY <1>1 DEF IInv, TypeOK, RowsFit, RowFits, Running
<1>3. op[o].row.readback \in 0..3 /\ c \in Const /\ c = op[o].row.readback + 1
  BY <1>2 DEF TuneWriteRow, Current, Const
<1>4. /\ w \in TuneWriteRow /\ w.previous = op[o].row.previous
      /\ w.level = op[o].row.level /\ w.written = c
      /\ w.readback = op[o].row.readback
      /\ w.success = op[o].row.success /\ w.rollback = op[o].row.rollback
  BY <1>2, <1>3 DEF TuneWriteRow
<1>5. /\ op[o].target[c] \in Value /\ Clamped \in Value
      /\ plant \in Triple
  BY <1>2, <1>3 DEF Triple, Value, IInv, TypeOK
<1> HIDE DEF c
<1>6. /\ plant' \in Triple /\ \A d \in Const \ {c} : plant'[d] = plant[d]
      /\ faults' \in 0..MaxFaults
  BY <1>5, WriteBackConstants
  DEF WriteConstant, Accepts, Refuses, Takes, Fault, Fine, Triple, IInv, TypeOK, c
<1>7. \/ Becomes(o, "verify", w, op[o].back, op[o].bad)
      \/ op[o].row.readback > 0 /\ Becomes(o, "rollback", w, op[o].back, op[o].bad)
      \/ Becomes(o, "audit", w, op[o].back, op[o].bad)
  <2>1. CASE op' = [[op EXCEPT ![o].row.written = c] EXCEPT ![o].pc = "verify"]
    <3> DEFINE r == [op[o] EXCEPT !.row = w]
    <3>1. op' = [op EXCEPT ![o] = [r EXCEPT !.pc = "verify"]]
      BY <2>1
    <3> HIDE DEF w
    <3>2. HasFields(r, op[o], op[o].pc, w, op[o].back, op[o].bad)
      BY <1>4, OpHasFields, SetRow
    <3>3. "verify" \in PCs
      BY DEF PCs
    <3> HIDE DEF r
    <3>4. HasFields([r EXCEPT !.pc = "verify"], op[o], "verify", w, op[o].back, op[o].bad)
      BY <3>2, <3>3, SetPc
    <3> QED
      BY <3>1, <3>4, SetOp
  <2>2. CASE op' = [[op EXCEPT ![o].row.written = c]
                       EXCEPT ![o] = [StepFails(o) EXCEPT !.row.written = c]]
    <3> DEFINE r == StepFails(o)
    <3>1. r \in OpRec /\ r.row = op[o].row
      BY StepFailsFields DEF HasFields
    <3> HIDE DEF r
    <3>2. [r EXCEPT !.row.written = c] = [r EXCEPT !.row = w]
      BY <3>1
    <3>3. op' = [op EXCEPT ![o] = [r EXCEPT !.row = w]]
      BY <2>2, <3>2 DEF r
    <3> HIDE DEF w
    <3>4. \/ op[o].row.readback > 0
             /\ HasFields(r, op[o], "rollback", op[o].row, op[o].back, op[o].bad)
          \/ HasFields(r, op[o], "audit", op[o].row, op[o].back, op[o].bad)
      BY StepFailsFields DEF r
    <3>5. \/ op[o].row.readback > 0
             /\ HasFields([r EXCEPT !.row = w], op[o], "rollback", w, op[o].back, op[o].bad)
          \/ HasFields([r EXCEPT !.row = w], op[o], "audit", w, op[o].back, op[o].bad)
      BY <1>4, <3>4, SetRow
    <3> QED
      BY <3>3, <3>5, SetOp
  <2> QED
    BY <2>1, <2>2 DEF WriteConstant, c
<1> HIDE DEF w
<1>8. RowFits(op[o])'
  BY <1>2, <1>3, <1>4, <1>7 DEF Becomes, RowFits
<1>9. PlantFits(op[o])
  BY <1>1 DEF IInv, PlantOK
<1>10. PlantFits(op[o])'
  BY <1>1, <1>2, <1>3, <1>4, <1>6, <1>7, <1>9 DEF Becomes, PlantFits, HasRead, Const
<1>11. intent'[o] = [previous |-> op'[o].row.previous, target |-> op'[o].target]
  BY <1>1, <1>4, <1>7 DEF Becomes, IInv, IntentOK
<1> QED
  BY <1>1, <1>4, <1>6, <1>7, <1>8, <1>10, <1>11, StepIInv DEF Becomes, IInv, TypeOK

LEMMA VerifyConstantIInv ==
    ASSUME IInv, NEW o \in Op, VerifyConstant(o)
    PROVE  IInv'
<1> DEFINE c  == Current(o)
           w  == [op[o].row EXCEPT !.readback = c]
           w2 == [w EXCEPT !.success = TRUE]
<1>1. /\ op[o].pc = "verify" /\ owner = o
      /\ UNCHANGED <<plant, rows, owner, intent>> /\ faults' \in 0..MaxFaults
  BY WriteBackConstants DEF VerifyConstant, Fine, Fault, IInv, TypeOK, OwnerOK, Running
<1>2. /\ op[o] \in OpRec /\ op[o].row \in TuneWriteRow
      /\ op[o].row.previous \in Triple
      /\ op[o].row.written = op[o].row.readback + 1 /\ op[o].row.readback < 3
      /\ ~op[o].row.success /\ op[o].row.rollback = "none"
      /\ op[o].back = 0 /\ ~op[o].bad
  BY <1>1 DEF IInv, TypeOK, RowsFit, RowFits, Running
<1>3. op[o].row.readback \in 0..3 /\ c \in Const /\ c = op[o].row.readback + 1
  BY <1>2 DEF TuneWriteRow, Current, Const
<1>4. PlantFits(op[o])
  BY <1>1 DEF IInv, PlantOK
<1>5. CASE op' = [op EXCEPT ![o] = StepFails(o)]
  <2>1. \/ op[o].row.readback > 0 /\ Moved(o, "rollback")
        \/ Moved(o, "audit")
    BY <1>5, StepFailsFields, SetOp DEF Moved
  <2>2. RowFits(op[o])'
    BY <1>1, <1>3, <2>1 DEF Moved, Becomes, RowFits, Running, IInv, RowsFit
  <2>3. PlantFits(op[o])'
    BY <1>1, <1>2, <1>4, <2>1 DEF Moved, Becomes, PlantFits, HasRead, Const
  <2>4. intent'[o] = [previous |-> op'[o].row.previous, target |-> op'[o].target]
    BY <1>1, <2>1 DEF Moved, Becomes, IInv, IntentOK
  <2> QED
    BY <1>1, <2>1, <2>2, <2>3, <2>4, StepIInv DEF Moved, Becomes, IInv, TypeOK
<1>6. CASE /\ plant[c] = op[o].target[c]
           /\ op' = [op EXCEPT ![o] =
                 IF c = 3
                 THEN [[op[o] EXCEPT !.row.readback = c]
                          EXCEPT !.pc = "audit", !.outcome = "written",
                          !.row.success = TRUE]
                 ELSE [[op[o] EXCEPT !.row.readback = c] EXCEPT !.pc = "write"]]
  <2> DEFINE r1 == [op[o] EXCEPT !.row = w]
             r2 == [r1 EXCEPT !.pc = "audit"]
             r3 == [r2 EXCEPT !.outcome = "written"]
  <2>1. /\ w \in TuneWriteRow /\ w.previous = op[o].row.previous
        /\ w.level = op[o].row.level /\ w.written = op[o].row.written
        /\ w.readback = c
        /\ w.success = op[o].row.success /\ w.rollback = op[o].row.rollback
    BY <1>2, <1>3 DEF TuneWriteRow
  <2>2. [op[o] EXCEPT !.row.readback = c] = r1
    OBVIOUS
  <2> HIDE DEF w, c
  <2>3. HasFields(r1, op[o], op[o].pc, w, op[o].back, op[o].bad)
    BY <2>1, OpHasFields, SetRow
  <2> HIDE DEF r1
  <2>4. CASE c = 3
    <3>1. /\ w2 \in TuneWriteRow /\ w2.previous = w.previous
          /\ w2.level = w.level /\ w2.written = w.written
          /\ w2.readback = c /\ w2.success = TRUE /\ w2.rollback = w.rollback
      BY <2>1 DEF TuneWriteRow
    <3>2. "audit" \in PCs /\ "written" \in Outcomes
      BY DEF PCs, Outcomes
    <3>3. HasFields(r2, op[o], "audit", w, op[o].back, op[o].bad)
      BY <2>3, <3>2, SetPc
    <3>4. op' = [op EXCEPT ![o] = [r2 EXCEPT !.outcome = "written", !.row.success = TRUE]]
      BY <1>6, <2>2, <2>4
    <3> HIDE DEF r2
    <3>5. HasFields(r3, op[o], "audit", w, op[o].back, op[o].bad)
      BY <3>2, <3>3, SetOutcome
    <3>6. op' = [op EXCEPT ![o] = [r3 EXCEPT !.row = w2]]
      BY <3>4, <3>5 DEF HasFields
    <3> HIDE DEF r3, w2
    <3>7. HasFields([r3 EXCEPT !.row = w2], op[o], "audit", w2, op[o].back, op[o].bad)
      BY <3>1, <3>5, SetRow
    <3>8. Becomes(o, "audit", w2, op[o].back, op[o].bad)
      BY <3>6, <3>7, SetOp
    <3>9. RowFits(op[o])'
      BY <1>1, <2>1, <3>1, <3>8 DEF Becomes, RowFits, Running, IInv, RowsFit
    <3>10. PlantFits(op[o])'
      <4>1. \A d \in Const : d > op[o].row.written => plant[d] = op[o].row.previous[d]
        BY <1>1, <1>4 DEF PlantFits, HasRead
      <4>2. \A d \in Const : plant[d] = op[o].target[d]
        BY <1>1, <1>3, <1>4, <1>6, <2>4 DEF PlantFits, Const
      <4> QED
        BY <1>1, <1>2, <2>1, <3>1, <3>8, <4>1, <4>2 DEF Becomes, PlantFits
    <3>11. intent'[o] = [previous |-> op'[o].row.previous, target |-> op'[o].target]
      BY <1>1, <2>1, <3>1, <3>8 DEF Becomes, IInv, IntentOK
    <3> QED
      BY <1>1, <2>1, <3>1, <3>8, <3>9, <3>10, <3>11, StepIInv DEF Becomes, IInv, TypeOK
  <2>5. CASE c # 3
    <3>1. op' = [op EXCEPT ![o] = [r1 EXCEPT !.pc = "write"]]
      BY <1>6, <2>2, <2>5
    <3>2. Becomes(o, "write", w, op[o].back, op[o].bad)
      BY <2>3, <3>1, SetPc, SetOp DEF PCs
    <3>3. RowFits(op[o])'
      BY <1>1, <1>3, <2>1, <2>5, <3>2 DEF Becomes, RowFits, Running, IInv, RowsFit
    <3>4. PlantFits(op[o])'
      <4>1. \A d \in Const : d > op[o].row.written => plant[d] = op[o].row.previous[d]
        BY <1>1, <1>4 DEF PlantFits, HasRead
      <4>2. \A d \in Const : d <= c => plant[d] = op[o].target[d]
        BY <1>1, <1>3, <1>4, <1>6 DEF PlantFits, Const
      <4> QED
        BY <1>1, <2>1, <3>2, <4>1, <4>2 DEF Becomes, PlantFits
    <3>5. intent'[o] = [previous |-> op'[o].row.previous, target |-> op'[o].target]
      BY <1>1, <2>1, <3>2 DEF Becomes, IInv, IntentOK
    <3> QED
      BY <1>1, <2>1, <3>2, <3>3, <3>4, <3>5, StepIInv DEF Becomes, IInv, TypeOK
  <2> QED
    BY <2>4, <2>5
<1> QED
  BY <1>5, <1>6 DEF VerifyConstant

\* One constant has been tried, and the attempt has this result so far.
RolledBack(o, pc, c, x, status) ==
    \E w \in TuneWriteRow :
        /\ Becomes(o, pc, w, c, x)
        /\ w.previous = op[o].row.previous /\ w.level = op[o].row.level
        /\ w.written = op[o].row.written /\ w.readback = op[o].row.readback
        /\ w.success = op[o].row.success /\ w.rollback = status

LEMMA RollBackMoves ==
    ASSUME IInv, NEW o \in Op, op[o].row \in TuneWriteRow,
           NEW pc \in PCs, NEW c \in 0..3, NEW x \in BOOLEAN,
           NEW status \in {"none", "succeeded", "failed"},
           op' = [op EXCEPT ![o].back = c, ![o].bad = x, ![o].pc = pc,
                            ![o].row.rollback = status]
    PROVE  RolledBack(o, pc, c, x, status)
<1> DEFINE w  == [op[o].row EXCEPT !.rollback = status]
           r1 == [op[o] EXCEPT !.back = c]
           r2 == [r1 EXCEPT !.bad = x]
           r3 == [r2 EXCEPT !.pc = pc]
<1>1. /\ w \in TuneWriteRow /\ w.previous = op[o].row.previous
      /\ w.level = op[o].row.level /\ w.written = op[o].row.written
      /\ w.readback = op[o].row.readback
      /\ w.success = op[o].row.success /\ w.rollback = status
  BY DEF TuneWriteRow
<1>2. op' = [op EXCEPT ![o] = [r3 EXCEPT !.row.rollback = status]]
  <2> DEFINE f1 == [op EXCEPT ![o] = r1]
             f2 == [op EXCEPT ![o] = r2]
  <2>1. [op EXCEPT ![o].back = c] = f1
    BY DEF IInv
  <2>2. [f1 EXCEPT ![o].bad = x] = f2
    BY DEF IInv
  <2>3. op' = [f2 EXCEPT ![o].pc = pc, ![o].row.rollback = status]
    BY <2>2
  <2> QED
    BY <2>3
<1>3. HasFields(r1, op[o], op[o].pc, op[o].row, c, op[o].bad)
  BY OpHasFields, SetBack
<1> HIDE DEF r1
<1>4. HasFields(r2, op[o], op[o].pc, op[o].row, c, x)
  BY <1>3, SetBad
<1> HIDE DEF r2
<1>5. HasFields(r3, op[o], pc, op[o].row, c, x)
  BY <1>4, SetPc
<1> HIDE DEF r3
<1>6. op' = [op EXCEPT ![o] = [r3 EXCEPT !.row = w]]
  BY <1>2, <1>5 DEF HasFields
<1> HIDE DEF w
<1>7. HasFields([r3 EXCEPT !.row = w], op[o], pc, w, c, x)
  BY <1>1, <1>5, SetRow
<1>8. Becomes(o, pc, w, c, x)
  BY <1>6, <1>7, SetOp
<1> QED
  BY <1>1, <1>8 DEF RolledBack


LEMMA RollBackConstantIInv ==
    ASSUME IInv, NEW o \in Op, RollBackConstant(o)
    PROVE  IInv'
<1> DEFINE c == op[o].back + 1
           v == op[o].row.previous[c]
           pc == IF c = op[o].row.readback THEN "audit" ELSE "rollback"
           bad(b) == op[o].bad \/ b
           status(x) == IF c < op[o].row.readback THEN "none"
                        ELSE IF x THEN "failed" ELSE "succeeded"
           next(x) == op' = [op EXCEPT ![o].back = c, ![o].bad = x, ![o].pc = pc,
                                       ![o].row.rollback = status(x)]
<1>1. /\ op[o].pc = "rollback" /\ owner = o
      /\ UNCHANGED <<rows, owner, intent>>
  BY DEF RollBackConstant, IInv, OwnerOK, Running
<1>2. /\ op[o] \in OpRec /\ op[o].row \in TuneWriteRow
      /\ op[o].row.previous \in Triple
      /\ op[o].back < op[o].row.readback /\ op[o].row.readback < op[o].row.written
      /\ ~op[o].row.success
  BY <1>1 DEF IInv, TypeOK, RowsFit, RowFits, Running
<1>3. /\ op[o].back \in 0..3 /\ op[o].bad \in BOOLEAN
      /\ op[o].row.readback \in 0..3 /\ op[o].row.written \in 0..3
  BY <1>2 DEF OpRec, TuneWriteRow
<1>4. c \in Const /\ c \in 0..3
  BY <1>2, <1>3 DEF Const
<1>5. v \in Value /\ plant \in Triple
  BY <1>2, <1>4 DEF Triple, IInv, TypeOK
<1>6. \/ Takes(c, v) /\ Fine /\ next(bad(FALSE))
      \/ Refuses(c, v) /\ next(bad(TRUE))
  BY Zenon DEF RollBackConstant
<1>7. pc \in PCs /\ \A x \in BOOLEAN : status(x) \in {"none", "succeeded", "failed"}
  BY DEF PCs
<1> HIDE DEF pc, status
<1>8. PICK x \in BOOLEAN :
         /\ \/ Takes(c, v) /\ Fine /\ (op[o].bad => x)
            \/ Refuses(c, v) /\ x
         /\ RolledBack(o, pc, c, x, status(x))
  <2>1. ASSUME NEW x \in BOOLEAN, next(x)
        PROVE  RolledBack(o, pc, c, x, status(x))
    <3>1. status(x) \in {"none", "succeeded", "failed"}
      BY <1>7
    <3> HIDE DEF c
    <3> QED
      BY <1>2, <1>4, <1>7, <2>1, <3>1, RollBackMoves
  <2>2. bad(FALSE) \in BOOLEAN /\ bad(TRUE) \in BOOLEAN /\ bad(TRUE) /\ (op[o].bad => bad(FALSE))
    BY Zenon
  <2> HIDE DEF bad, next, c, v
  <2>3. CASE Takes(c, v) /\ Fine /\ next(bad(FALSE))
    <3>1. RolledBack(o, pc, c, bad(FALSE), status(bad(FALSE)))
      BY <2>1, <2>2, <2>3, Zenon
    <3> QED
      BY <2>2, <2>3, <3>1, Zenon
  <2>4. CASE Refuses(c, v) /\ next(bad(TRUE))
    <3>1. RolledBack(o, pc, c, bad(TRUE), status(bad(TRUE)))
      BY <2>1, <2>2, <2>4, Zenon
    <3> QED
      BY <2>2, <2>4, <3>1, Zenon
  <2> QED
    BY <1>6, <2>3, <2>4, Zenon
<1>9. /\ plant' \in Triple /\ \A d \in Const \ {c} : plant'[d] = plant[d]
      /\ faults' \in 0..MaxFaults
      /\ ~x => plant'[c] = v /\ ~op[o].bad
  BY <1>4, <1>5, <1>8, WriteBackConstants
  DEF Refuses, Takes, Fault, Fine, Triple, IInv, TypeOK
<1>10. PICK w \in TuneWriteRow :
         /\ Becomes(o, pc, w, c, x)
         /\ w.previous = op[o].row.previous /\ w.level = op[o].row.level
         /\ w.written = op[o].row.written /\ w.readback = op[o].row.readback
         /\ w.success = op[o].row.success /\ w.rollback = status(x)
  BY <1>8 DEF RolledBack
<1>11. PlantFits(op[o])
  BY <1>1 DEF IInv, PlantOK
<1>12. \/ pc = "rollback" /\ status(x) = "none" /\ c < op[o].row.readback
       \/ pc = "audit" /\ c = op[o].row.readback /\ (status(x) = "succeeded" => ~x)
  BY <1>2, <1>3 DEF pc, status
<1>13. RowFits(op[o])'
  BY <1>1, <1>10, <1>12 DEF Becomes, RowFits, Running, IInv, RowsFit
<1>14. PlantFits(op[o])'
  BY <1>1, <1>2, <1>3, <1>9, <1>10, <1>11, <1>12 DEF Becomes, PlantFits, HasRead, Const
<1>15. intent'[o] = [previous |-> op'[o].row.previous, target |-> op'[o].target]
  BY <1>1, <1>10 DEF Becomes, IInv, IntentOK
<1> QED
  BY <1>1, <1>9, <1>10, <1>13, <1>14, <1>15, StepIInv DEF Becomes, IInv, TypeOK

LEMMA InsertRowIInv ==
    ASSUME IInv, NEW o \in Op, InsertRow(o)
    PROVE  IInv'
<1>1. /\ op[o].pc = "audit" /\ owner = o
      /\ UNCHANGED <<plant, owner, intent>> /\ faults' \in 0..MaxFaults
  BY WriteBackConstants DEF InsertRow, Fine, Fault, IInv, TypeOK, OwnerOK, Running
<1>2. Moved(o, "release")
  <2>1. CASE op' = [op EXCEPT ![o].pc = "release"]
    BY <2>1, MovesTo DEF PCs
  <2> QED
    BY <2>1, MovesToRelease DEF InsertRow
<1>3. op[o].row \in TuneWriteRow /\ rows \in Seq(TuneWriteRow)
  BY <1>1 DEF IInv, TypeOK, RowsFit, RowFits, Running
<1>4. /\ rows' \in Seq(TuneWriteRow)
      /\ rows' = rows \/ \E w \in TuneWriteRow : rows' = Append(rows, w)
  <2>1. CASE rows' = Append(rows, op[o].row)
    BY <1>3, <2>1
  <2>2. CASE UNCHANGED rows
    BY <1>3, <2>2
  <2> QED
    BY <2>1, <2>2 DEF InsertRow
<1>5. RowFits(op[o])'
  BY <1>1, <1>2 DEF Moved, Becomes, IInv, RowsFit, RowFits, Running
<1>6. PlantFits(op[o])'
  BY <1>1, <1>2 DEF Moved, Becomes, PlantFits, HasRead, Running, IInv, PlantOK
<1>7. op[o].row # None /\ op[o].row.written > 0 =>
          intent'[o] = [previous |-> op'[o].row.previous, target |-> op'[o].target]
  BY <1>1, <1>2 DEF Moved, Becomes, IInv, IntentOK
<1> QED
  BY <1>1, <1>2, <1>4, <1>5, <1>6, <1>7, StepIInv DEF Moved, Becomes, IInv, TypeOK

LEMMA ReleaseIInv ==
    ASSUME IInv, NEW o \in Op, Release(o)
    PROVE  IInv'
<1>1. /\ op[o].pc = "release" /\ owner = o
      /\ UNCHANGED <<plant, rows>> /\ faults' \in 0..MaxFaults
  BY WriteBackConstants DEF Release, Fine, Fault, IInv, TypeOK, OwnerOK, Running
<1>2. \/ owner' = None /\ intent' = [intent EXCEPT ![o] = None]
      \/ UNCHANGED <<owner, intent>>
  BY DEF Release
<1>3. /\ op' \in [Op -> OpRec]
      /\ \A p \in Op \ {o} : op'[p] = op[p]
      /\ op'[o].pc = "done" /\ op'[o].row = None /\ op'[o].as = "tune"
      /\ RowFits(op[o])' /\ PlantFits(op[o])'
  <2>1. op[o].outcome \in Outcomes /\ "error" \in Outcomes
    BY DEF IInv, TypeOK, OpRec, Outcomes
  <2> QED
    BY <2>1, EndsFits DEF Release
<1>4. /\ intent' \in [Op -> {None} \cup [previous: Triple, target: Triple]]
      /\ \A p \in Op \ {o} : intent'[p] = intent[p]
  BY <1>2 DEF IInv, TypeOK
<1>5. \/ owner' = None /\ \A p \in Op : p # None
      \/ owner' = owner
  BY <1>2, WriteBackConstants
<1> QED
  BY <1>1, <1>3, <1>4, <1>5, StepIInv DEF IInv, TypeOK, Running

LEMMA CrashIInv ==
    ASSUME IInv, NEW o \in Op, Crash(o)
    PROVE  IInv'
<1>1. UNCHANGED <<plant, rows, owner, intent>> /\ faults' \in 0..MaxFaults
  BY WriteBackConstants DEF Crash, Fault, IInv, TypeOK
<1>2. Moved(o, "crashed")
  BY MovesTo DEF Crash, PCs
<1>3. RowFits(op[o])'
  BY <1>2 DEF Moved, Becomes, IInv, RowsFit, RowFits, Running
<1>4. owner = o => PlantFits(op[o])'
  BY <1>1, <1>2 DEF Moved, Becomes, PlantFits, HasRead, Running, IInv, PlantOK
<1>5. op[o].row # None /\ op[o].row.written > 0 =>
          intent'[o] = [previous |-> op'[o].row.previous, target |-> op'[o].target]
  BY <1>1, <1>2 DEF Moved, Becomes, IInv, IntentOK
<1> QED
  BY <1>1, <1>2, <1>3, <1>4, <1>5, StepIInv DEF Moved, Becomes, IInv, TypeOK, Running

LEMMA SweepIInv ==
    ASSUME IInv, Sweep
    PROVE  IInv'
<1>1. /\ owner \in Op /\ owner' = None /\ op[owner].pc \in {"done", "crashed"}
      /\ UNCHANGED <<plant, rows, intent, op, faults>>
  BY DEF Sweep, Fine, IInv, TypeOK
<1>2. TypeOK' /\ RowsFit' /\ IntentOK' /\ TargetOK'
  BY <1>1 DEF IInv, TypeOK, RowsFit, IntentOK, TargetOK, TargetFits, IsNewestWrite
<1>3. OwnerOK'
  BY <1>1 DEF IInv, OwnerOK, Running
<1>4. PlantOK'
  BY <1>1, WriteBackConstants DEF PlantOK
<1> QED
  BY <1>2, <1>3, <1>4 DEF IInv

LEMMA StutterIInv ==
    ASSUME IInv, UNCHANGED vars
    PROVE  IInv'
BY DEF vars, IInv, TypeOK, RowsFit, OwnerOK, IntentOK, PlantOK, PlantFits, TargetOK,
       TargetFits, IsNewestWrite

-----------------------------------------------------------------------------
(* The theorems.                                                           *)

LEMMA NextIInv == IInv /\ [Next]_vars => IInv'
<1> SUFFICES ASSUME IInv, [Next]_vars PROVE IInv'
  OBVIOUS
<1>1. CASE Sweep
  BY <1>1, SweepIInv
<1>2. ASSUME NEW o \in Op,
             \/ InRunWriteBack(o) \/ WriteRun(o) \/ RevertRoute(o) \/ HistoryRevert(o)
             \/ Acquire(o) \/ Connect(o) \/ PreRead(o) \/ PersistIntent(o)
             \/ WriteConstant(o) \/ VerifyConstant(o) \/ RollBackConstant(o)
             \/ InsertRow(o) \/ Release(o) \/ Crash(o)
      PROVE  IInv'
  <2>1. RevertRoute(o) \/ HistoryRevert(o) => IInv'
    BY RevertRunIInv DEF RevertRoute, HistoryRevert
  <2> QED
    BY <1>2, <2>1, InRunWriteBackIInv, WriteRunIInv, AcquireIInv, ConnectIInv, PreReadIInv,
       PersistIntentIInv, WriteConstantIInv, VerifyConstantIInv, RollBackConstantIInv,
       InsertRowIInv, ReleaseIInv, CrashIInv
<1>3. CASE UNCHANGED vars
  BY <1>3, StutterIInv
<1> QED
  BY <1>1, <1>2, <1>3 DEF Next

\* The invariant of write_pid_values_inner and its callers holds throughout.
THEOREM Inductive == Spec => []IInv
<1>1. Init => IInv
  BY InitIInv
<1>2. IInv /\ [Next]_vars => IInv'
  BY NextIInv
<1> QED
  BY <1>1, <1>2, PTL DEF Spec

\* Type correctness: the rows, intents and locals of the write-back stay what
\* NewTuneWrite, the restore intent and write_pid_values_inner declare.
THEOREM TypeCorrect == Spec => []TypeOK
<1>1. IInv => TypeOK
  BY DEF IInv
<1> QED
  BY <1>1, Inductive, PTL

\* Whatever happens to an operation after its first write, a crash included,
\* its owner row says what it found (persist_pid_restore_intent), and what it
\* has not written yet is still as it found it.
THEOREM IntentsAreWrittenAhead == Spec => []IntentPrecedesWrite
<1>1. IInv => IntentPrecedesWrite
  BY DEF IInv, IntentOK, PlantOK, PlantFits, HasRead, IntentPrecedesWrite
<1> QED
  BY <1>1, Inductive, PTL

\* The row that is added is the one of the operation at its audit.
LEMMA InsertedRow ==
    ASSUME IInv, [Next]_vars, NEW o \in Op,
           rows' # rows, op[o].pc = "audit"
    PROVE  Last(rows') = op[o].row
<1>1. PICK p \in Op : op[p].pc = "audit" /\ rows' = Append(rows, op[p].row)
  <2>1. ASSUME NEW p \in Op, InsertRow(p)
        PROVE  op[p].pc = "audit" /\ rows' = Append(rows, op[p].row)
    BY <2>1 DEF InsertRow
  <2>2. ASSUME NEW p \in Op,
               \/ InRunWriteBack(p) \/ WriteRun(p) \/ RevertRoute(p) \/ HistoryRevert(p)
               \/ Acquire(p) \/ Connect(p) \/ PreRead(p) \/ PersistIntent(p)
        PROVE  UNCHANGED rows
    BY <2>2 DEF InRunWriteBack, WriteRun, RevertRoute, HistoryRevert, RevertRun, Acquire,
       Connect, PreRead, PersistIntent
  <2>3. ASSUME NEW p \in Op,
               \/ WriteConstant(p) \/ VerifyConstant(p) \/ RollBackConstant(p)
               \/ Release(p) \/ Crash(p)
        PROVE  UNCHANGED rows
    BY <2>3 DEF WriteConstant, VerifyConstant, RollBackConstant, Release, Crash
  <2>4. Sweep \/ UNCHANGED vars => UNCHANGED rows
    BY DEF Sweep, vars
  <2> QED
    BY <2>1, <2>2, <2>3, <2>4 DEF Next
<1>2. p = o
  BY <1>1 DEF IInv, OwnerOK, Running
<1>3. Last(rows') = op[o].row
  <2>1. rows \in Seq(TuneWriteRow) /\ op[o].row \in TuneWriteRow
    BY DEF IInv, TypeOK, RowsFit, RowFits, Running
  <2>2. Len(rows') = Len(rows) + 1 /\ rows'[Len(rows) + 1] = op[o].row
    BY <1>1, <1>2
  <2> QED
    BY <2>2 DEF Last
<1> QED
  BY <1>3

LEMMA RowTellsPlantStep ==
    ASSUME IInv, [Next]_vars, NEW o \in Op,
           rows' # rows, op[o].pc = "audit"
    PROVE  LET r == Last(rows') IN
           /\ r.success => plant = op[o].target /\ r.rollback = "none"
           /\ r.rollback = "succeeded" =>
                  \A c \in 1..r.readback : plant[c] = r.previous[c]
           /\ r.previous # None =>
                  \A c \in (r.written + 1)..3 : plant[c] = r.previous[c]
<1>1. Last(rows') = op[o].row
  BY InsertedRow
<1>2. /\ PlantFits(op[o]) /\ op[o].row \in TuneWriteRow
      /\ op[o].target \in Triple /\ plant \in Triple
      /\ op[o].row.success => op[o].row.rollback = "none"
  BY DEF IInv, TypeOK, OwnerOK, PlantOK, RowsFit, RowFits, Running
<1>3. op[o].row.written \in 0..3 /\ op[o].row.readback \in 0..3
  BY <1>2 DEF TuneWriteRow
<1>4. op[o].row.success => plant = op[o].target
  BY <1>2 DEF PlantFits, Triple
<1>5. op[o].row.rollback = "succeeded" =>
          \A c \in 1..op[o].row.readback : plant[c] = op[o].row.previous[c]
  BY <1>2, <1>3 DEF PlantFits, Const
<1>6. ASSUME op[o].row.previous # None, NEW c \in (op[o].row.written + 1)..3
      PROVE  plant[c] = op[o].row.previous[c]
  <2>1. HasRead(op[o])
    BY <1>6 DEF HasRead, Running
  <2> QED
    BY <1>2, <1>3, <2>1 DEF PlantFits, Const
<1> QED
  BY <1>1, <1>2, <1>4, <1>5, <1>6

\* The audit row (TuneWriteRow::insert) tells the truth about the controller
\* when it is inserted: a success, a rollback, and constants left alone.
THEOREM RowsTellThePlant == Spec => RowTellsPlant
<1>1. IInv /\ [Next]_vars =>
         [\A o \in Op :
           rows' # rows /\ op[o].pc = "audit" /\ op'[o].pc = "release" =>
            LET r == Last(rows') IN
            /\ r.success => plant = op[o].target /\ r.rollback = "none"
            /\ r.rollback = "succeeded" =>
                   \A c \in 1..r.readback : plant[c] = r.previous[c]
            /\ r.previous # None =>
                   \A c \in (r.written + 1)..3 : plant[c] = r.previous[c]]_vars
  BY RowTellsPlantStep
<1> QED
  BY <1>1, Inductive, PTL DEF Spec, RowTellsPlant

\* What revert_run_with_progress chose is what it restores: a revert that says
\* success has put back what the newest write of the run found, unless a write
\* landed between its reading of the audit trail and its ownership.
THEOREM RevertsGoBack == Spec => RevertGoesBack
<1>1. IInv /\ [Next]_vars =>
         [\A o \in Op :
           InsertsRevert(o) =>
            \E i \in DOMAIN rows :
                /\ IsNewestWrite(i)
                /\ i <= op[o].listed =>
                      /\ Last(rows').level = rows[i].level
                      /\ Last(rows').success => plant = rows[i].previous]_vars
  <2> SUFFICES ASSUME IInv, [Next]_vars, NEW o \in Op, InsertsRevert(o)
               PROVE  \E i \in DOMAIN rows :
                         /\ IsNewestWrite(i)
                         /\ i <= op[o].listed =>
                               /\ Last(rows').level = rows[i].level
                               /\ Last(rows').success => plant = rows[i].previous
    OBVIOUS
  <2>1. rows' # rows /\ op[o].pc = "audit" /\ op[o].as = "pid_revert"
    BY DEF InsertsRevert
  <2>2. Last(rows') = op[o].row
    BY <2>1, InsertedRow
  <2>3. Last(rows').success => plant = op[o].target
    BY <2>1, RowTellsPlantStep
  <2>4. TargetFits(op[o])
    BY DEF IInv, TargetOK
  <2> QED
    BY <2>1, <2>2, <2>3, <2>4 DEF TargetFits
<1> QED
  BY <1>1, Inductive, PTL DEF Spec, RevertGoesBack
=============================================================================
