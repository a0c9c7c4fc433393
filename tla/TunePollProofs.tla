--------------------------- MODULE TunePollProofs ---------------------------
(***************************************************************************)
(* Safety of the polling loop for any deadlines, latencies and numbers of  *)
(* switches, whatever the driver, the plant and the operator do.           *)
(*                                                                         *)
(* The engine, the audit rows, the tracker and the plant are four counts   *)
(* of the same commands.  The invariant says how far apart they may be at  *)
(* each point of the loop: the engine is one ahead while the MV is being   *)
(* written, level with the rows otherwise (CountsOK); what is on its way   *)
(* to the plant is the pending command and nothing else (PlantOK); and the *)
(* age of a pending command is bounded by what is left of the call that    *)
(* the loop waits for (AgesOK).                                            *)
(***************************************************************************)
EXTENDS TunePoll, FiniteSetTheorems, TLAPS

\* The loop goes on: neither in a write nor past a failed MV check.
Live == /\ pc \in {"select", "reading", "verifying", "tick"}
        /\ pc = "tick" => tick.abort = "none"

AllConfirmed == \A i \in DOMAIN rows : rows[i] = "confirmed"
AllButLastConfirmed == \A i \in DOMAIN rows : i < Len(rows) => rows[i] = "confirmed"

\* The MV of the engine is the initial one before the first and after the
\* last switch.
EngineOK ==
    /\ eng.n = 0 => eng.mv = "ini"
    /\ eng.n > 0 => (eng.mv = "ini" <=> Completed)

\* One row for each switch, of which only the newest may be unconfirmed.
CountsOK ==
    /\ AllButLastConfirmed
    /\ pend.on => rows # <<>> /\ rows[Len(rows)] = "pending"
    /\ Live => eng.n = Len(rows)
    /\ Live /\ ~ pend.on => AllConfirmed
    /\ pc = "tick" /\ tick.abort # "none" => eng.n = Len(rows)
    /\ pc = "writing" => eng.n = Len(rows) + 1 /\ AllConfirmed
    /\ eng.n = Len(rows) \/ (eng.n = Len(rows) + 1 /\ AllConfirmed)

\* The value v has reached the plant or is the only one on its way to it.
OnItsWay(v) ==
    \/ plant.flight = {v} /\ plant.mv # v
    \/ plant.flight = {} /\ plant.mv = v

\* What the tracker believes of the plant.
PlantOK ==
    /\ pend.on => OnItsWay(commanded) /\ commanded = eng.mv /\ eng.n > 0
    /\ Live /\ ~ pend.on => /\ plant.mv = commanded /\ plant.flight = {}
                            /\ commanded = eng.mv
                            /\ eng.n > 0 => confirmed = commanded
    /\ pc = "writing" => ~ pend.on /\ OnItsWay(eng.mv) /\ eng.n > 0
    /\ confirmed = "ini" => /\ plant.mv = "ini" /\ plant.flight = {}
                            /\ Completed

\* How old a pending command can be, and how old it can get in a call.
AgesOK ==
    /\ pc \in {"select", "tick"} /\ pend.on => pend.age <= Confirm
    /\ pc \in InCall => call.age + call.left <= OpTimeout
    /\ pc = "reading" /\ pend.on => pend.age + call.left <= Confirm + OpTimeout
    /\ pc = "verifying" =>
          /\ pend.on
          /\ call.limit = "confirmation" => pend.age + call.left = Confirm
          /\ call.limit = "deadline" => pend.age + call.left <= Confirm + DeadlineRead
          /\ call.limit = "op" => pend.age + call.left <= Confirm + OpTimeout

\* A command that is still pending after a read has been seen by it.
TickOK == pc = "tick" /\ pend.on => tick.evidence /\ tick.abort = "none"

\* The inductive invariant.
IInv ==
    /\ TypeOK
    /\ EngineOK
    /\ CountsOK
    /\ PlantOK
    /\ AgesOK
    /\ TickOK
    /\ UnconfirmedIsBounded
    /\ AssertionsHold
    /\ HandOff

-----------------------------------------------------------------------------
(* Types *)

PendRec == [on: BOOLEAN, age: Nat, check: 0..Confirm, seen: BOOLEAN]
CallRec == [age: 0..OpTimeout, left: 0..OpTimeout,
            limit: {"op", "confirmation", "deadline"}, trigger: {"scheduled", "deadline"}]

EngRec == [n: 0..Switches, hold: 0..Noise, mv: MV]
TickRec == [pv: {"good", "bad", "error"}, abort: Aborts \cup {"none"}, evidence: BOOLEAN]

LEMMA Times ==
    /\ PollInterval \in Nat /\ PollInterval > 0 /\ OpTimeout \in Nat /\ OpTimeout > 0
    /\ RunTimeout \in Nat /\ RunTimeout > 0 /\ Confirm \in Nat /\ Confirm > 0
    /\ Headroom \in Nat /\ Headroom > 0 /\ Headroom <= Confirm
    /\ DeadlineRead \in Nat /\ DeadlineRead > 0
    /\ Noise \in Nat /\ Delay \in Nat /\ MinLatency \in Nat /\ MaxLatency \in Nat
    /\ Switches \in Nat /\ Switches >= 3
  BY TimesAssumption, SwitchesAssumption

LEMMA Typed ==
    ASSUME TypeOK
    PROVE  /\ call \in CallRec /\ call.age \in Nat /\ call.left \in Nat
           /\ call.age <= OpTimeout /\ call.left <= OpTimeout
           /\ pend \in PendRec /\ pend.on \in BOOLEAN /\ pend.seen \in BOOLEAN
           /\ pend.age \in Nat /\ pend.check \in Nat /\ pend.check <= Confirm
           /\ rows \in Seq(Status) /\ Len(rows) \in Nat
           /\ eng.n \in Nat /\ eng.n <= Switches /\ eng.hold \in Nat /\ eng.hold <= Noise
           /\ toPoll \in Nat /\ toPoll <= PollInterval
           /\ toTimeout \in Nat /\ toTimeout <= RunTimeout
           /\ pre \in Nat /\ pre <= Delay /\ post \in Nat /\ post <= Delay
  BY Times DEF TypeOK, CallRec, PendRec

\* A step that leaves the clocks alone has these types to account for.
LEMMA StillTyped ==
    ASSUME TypeOK, UNCHANGED time,
           pc' \in {"select", "tick", "done"} \cup InCall,
           result' \in Results, signal' \in BOOLEAN,
           call' \in CallRec, eng' \in EngRec, tick' \in TickRec,
           pend' \in PendRec, commanded' \in MV, confirmed' \in MV \cup {"none"},
           rows' \in Seq(Status), plant' \in [mv: MV, flight: SUBSET MV]
    PROVE  TypeOK'
  BY DEF TypeOK, CallRec, EngRec, TickRec, PendRec, time

\* A step that only moves the loop on, or ends it.
LEMMA StepTyped ==
    ASSUME TypeOK, UNCHANGED <<time, call, eng, tick, tracker, plant>>,
           pc' \in {"select", "tick", "done"} \cup InCall,
           result' \in Results, signal' \in BOOLEAN
    PROVE  TypeOK'
<1>1. /\ call' \in CallRec /\ eng' \in EngRec /\ tick' \in TickRec /\ pend' \in PendRec
      /\ commanded' \in MV /\ confirmed' \in MV \cup {"none"}
      /\ rows' \in Seq(Status) /\ plant' \in [mv: MV, flight: SUBSET MV]
  BY DEF TypeOK, CallRec, EngRec, TickRec, PendRec, tracker
<1> QED
  BY <1>1, StillTyped

LEMMA DownTyped ==
    ASSUME NEW n \in Nat, NEW m \in Nat, n <= m
    PROVE  Down(n) \in 0..m /\ (n > 0 => Down(n) = n - 1)
  BY DEF Down

LEMMA NewCallTyped ==
    ASSUME NEW limit \in {"op", "confirmation", "deadline"},
           NEW left \in 0..OpTimeout, NEW trigger \in {"scheduled", "deadline"},
           NewCall(limit, left, trigger)
    PROVE  /\ call' \in CallRec
           /\ call'.age = 0 /\ call'.left = left /\ call'.limit = limit
  BY Times DEF NewCall, CallRec

-----------------------------------------------------------------------------
(* What follows from the counts *)

ConfirmedRows == {i \in DOMAIN rows : rows[i] = "confirmed"}

LEMMA IntervalSize ==
    ASSUME NEW n \in Nat PROVE IsFiniteSet(1..n) /\ Cardinality(1..n) = n
  BY FS_Interval

\* If all rows but the newest are confirmed, the confirmed ones can be counted.
LEMMA CountConfirmed ==
    ASSUME rows \in Seq(Status), AllButLastConfirmed
    PROVE  /\ Cardinality(ConfirmedRows) \in Nat
           /\ Len(rows) <= Cardinality(ConfirmedRows) + 1
           /\ AllConfirmed => Cardinality(ConfirmedRows) = Len(rows)
<1>1. Len(rows) \in Nat /\ DOMAIN rows = 1..Len(rows)
  OBVIOUS
<1>2. IsFiniteSet(1..Len(rows)) /\ Cardinality(1..Len(rows)) = Len(rows)
  BY <1>1, IntervalSize
<1>3. ConfirmedRows \subseteq 1..Len(rows)
  BY <1>1 DEF ConfirmedRows
<1>4. IsFiniteSet(ConfirmedRows) /\ Cardinality(ConfirmedRows) \in Nat
  BY <1>2, <1>3, FS_Subset, FS_CardinalityType
<1>5. Len(rows) <= Cardinality(ConfirmedRows) + 1
  <2>1. CASE Len(rows) = 0
    BY <1>4, <2>1
  <2>2. CASE Len(rows) # 0
    <3> DEFINE n == Len(rows) - 1
    <3>1. n \in Nat /\ Len(rows) = n + 1
      BY <1>1, <2>2
    <3>2. 1..n \subseteq ConfirmedRows
      BY <1>1, <3>1 DEF ConfirmedRows, AllButLastConfirmed
    <3> HIDE DEF n
    <3>3. n <= Cardinality(ConfirmedRows)
      BY <3>1, <3>2, <1>4, FS_Subset, IntervalSize
    <3> QED
      BY <3>1, <3>3, <1>4
  <2> QED
    BY <2>1, <2>2
<1>7. AllConfirmed => ConfirmedRows = 1..Len(rows)
  BY <1>1 DEF ConfirmedRows, AllConfirmed
<1> QED
  BY <1>1, <1>2, <1>4, <1>5, <1>7

LEMMA EngineIsBehind == ASSUME TypeOK, CountsOK PROVE EngineBehindPlant
<1>1. rows \in Seq(Status) /\ Len(rows) \in Nat /\ eng.n \in Nat
  BY Typed
<1>2. eng.n <= Cardinality(ConfirmedRows) + 1
  BY <1>1, CountConfirmed DEF CountsOK
<1> QED
  BY <1>2 DEF EngineBehindPlant, ConfirmedRows

-----------------------------------------------------------------------------
(* What a check may do to the tracker *)

GivesUp(o) ==
    /\ o.pend = NoPending /\ o.confirmed = confirmed
    /\ o.row \in {"failed", "unverified", "pending"}
    /\ o.reason \in Aborts \cup {"error"}

Confirms(o) ==
    /\ o.pend = NoPending /\ o.confirmed = commanded
    /\ o.row = "confirmed" /\ o.reason = "none"
    /\ plant.mv = commanded /\ pend.age <= Confirm

KeepsWaiting(o) ==
    /\ o.pend \in PendRec /\ o.pend.on /\ o.pend.age = pend.age
    /\ o.confirmed = confirmed
    /\ o.row = "pending" /\ o.reason \in {"none", "error"}
    /\ pend.age <= Confirm

LEMMA NoPendingIsTyped == NoPending \in PendRec /\ ~ NoPending.on
  BY Times DEF NoPending, PendRec

LEMMA GiveUpGivesUp ==
    ASSUME NEW status \in {"failed", "unverified"}, NEW reason \in Aborts \cup {"error"},
           NEW o \in GiveUp(status, reason)
    PROVE  GivesUp(o) /\ o.reason = reason
  BY DEF GiveUp, GivesUp, Outcome

\* Every check gives the command up, confirms it or lets it wait; it waits
\* only after a reading.
LEMMA ResolveOutcomes ==
    ASSUME TypeOK, pend.on, NEW read \in {"error", "bad", "value"}, NEW trigger,
           NEW o \in Resolve(read, trigger)
    PROVE  /\ GivesUp(o) \/ Confirms(o) \/ KeepsWaiting(o)
           /\ KeepsWaiting(o) => read = "value"
<1>1. pend \in PendRec /\ pend.age \in Nat /\ Confirm \in Nat
  BY Times, Typed
<1>2. CASE read = "error"
  BY <1>2, GiveUpGivesUp, NoPendingIsTyped DEF Resolve, GivesUp, KeepsWaiting
<1>3. CASE read = "bad"
  BY <1>3, GiveUpGivesUp, NoPendingIsTyped DEF Resolve, GivesUp, KeepsWaiting, Aborts
<1>4. CASE read = "value"
  <2>1. o \in Finalize(plant.mv = commanded, trigger)
    BY <1>4 DEF Resolve
  <2>2. "unconfirmed" \in Aborts \cup {"error"}
    BY DEF Aborts
  <2>3. CASE o \in GiveUp("failed", "unconfirmed")
    BY <2>2, <2>3, <1>4, GiveUpGivesUp
  <2>4. CASE o = Outcome(NoPending, commanded, "confirmed", "none")
             /\ plant.mv = commanded /\ ~ (pend.age > Confirm)
    BY <1>1, <1>4, <2>4 DEF Outcome, Confirms
  <2>5. CASE o = Outcome(pend, confirmed, "pending", "error") /\ ~ (pend.age > Confirm)
    BY <1>1, <1>4, <2>5 DEF Outcome, KeepsWaiting
  <2>6. CASE o = Outcome([pend EXCEPT !.seen = TRUE], confirmed, "pending", "none")
             /\ ~ (pend.age > Confirm)
    <3>1. [pend EXCEPT !.seen = TRUE] \in PendRec
      BY <1>1 DEF PendRec
    <3>2. /\ [pend EXCEPT !.seen = TRUE].on
          /\ [pend EXCEPT !.seen = TRUE].age = pend.age
      BY <1>1 DEF PendRec
    <3> DEFINE p == [pend EXCEPT !.seen = TRUE]
    <3> HIDE DEF p
    <3>3. p \in PendRec /\ p.on /\ p.age = pend.age
      BY <1>1, <3>1, <3>2 DEF p
    <3>4. o = Outcome(p, confirmed, "pending", "none")
      BY <2>6 DEF p
    <3>5. pend.age <= Confirm
      BY <1>1, <2>6
    <3> QED
      BY <1>4, <3>3, <3>4, <3>5 DEF Outcome, KeepsWaiting
  <2>7. CASE o = Outcome(NoPending, confirmed, "pending", "error")
    BY <1>4, <2>7 DEF Outcome, GivesUp
  <2> QED
    BY <2>1, <2>3, <2>4, <2>5, <2>6, <2>7 DEF Finalize
<1> QED
  BY <1>2, <1>3, <1>4

\* Storing the outcome touches only the row of the pending command.
LEMMA TrackRows ==
    ASSUME rows \in Seq(Status), rows # <<>>, AllButLastConfirmed,
           NEW o, o.row \in Status, Track(o)
    PROVE  /\ rows' \in Seq(Status) /\ Len(rows') = Len(rows) /\ rows' # <<>>
           /\ rows'[Len(rows')] = o.row
           /\ AllButLastConfirmed'
           /\ o.row = "confirmed" => AllConfirmed'
<1>1. Len(rows) \in Nat \ {0} /\ DOMAIN rows = 1..Len(rows)
  OBVIOUS
<1>2. rows' = [rows EXCEPT ![Len(rows)] = o.row]
  BY DEF Track
<1>3. rows' \in Seq(Status) /\ Len(rows') = Len(rows) /\ DOMAIN rows' = 1..Len(rows)
  BY <1>1, <1>2
<1>4. \A i \in DOMAIN rows : i # Len(rows) => rows'[i] = rows[i]
  BY <1>2
<1>5. rows'[Len(rows')] = o.row
  BY <1>1, <1>2, <1>3
<1>6. \A i \in DOMAIN rows : i < Len(rows) => rows'[i] = "confirmed"
  BY <1>1, <1>4 DEF AllButLastConfirmed
<1>7. o.row = "confirmed" => \A i \in DOMAIN rows : rows'[i] = "confirmed"
  BY <1>1, <1>3, <1>4, <1>5, <1>6
<1>8. rows' # <<>>
  BY <1>1, <1>3
<1> QED
  BY <1>1, <1>3, <1>5, <1>6, <1>7, <1>8 DEF AllButLastConfirmed, AllConfirmed

\* The types that a step which stores an outcome has to account for.
LEMMA TrackTypes ==
    ASSUME TypeOK, NEW o, GivesUp(o) \/ Confirms(o) \/ KeepsWaiting(o), Track(o)
    PROVE  /\ o.row \in Status
           /\ pend' \in PendRec /\ confirmed' \in MV \cup {"none"} /\ commanded' = commanded
           /\ o.reason \in Aborts \cup {"none", "error"}
  BY NoPendingIsTyped DEF TypeOK, Track, GivesUp, Confirms, KeepsWaiting, Status, PendRec









-----------------------------------------------------------------------------
(* One lemma for each action *)

\* A poll starts: a command that needs no wakeup yet is younger than its window.
LEMMA SelectPollKeeps == ASSUME IInv, SelectPoll PROVE IInv'
<1>1. /\ pc = "select" /\ pc' = "reading" /\ toPoll' = PollInterval
      /\ UNCHANGED <<toTimeout, pre, post, signal, eng, tracker, plant, tick, result>>
  BY DEF SelectPoll
<1>2. TypeOK /\ EngineOK /\ CountsOK /\ PlantOK /\ AgesOK /\ UnconfirmedIsBounded
      /\ AssertionsHold
  BY DEF IInv
<1>3. call' \in CallRec /\ call'.age = 0 /\ call'.left = OpTimeout
  BY Times, NewCallTyped DEF SelectPoll
<1>4. TypeOK'
  BY <1>1, <1>2, <1>3, Times DEF TypeOK, InCall, CallRec, tracker
<1>5. EngineOK' /\ CountsOK' /\ PlantOK' /\ UnconfirmedIsBounded'
  BY <1>1, <1>2 DEF EngineOK, CountsOK, PlantOK, Live, Completed, AllConfirmed,
                    AllButLastConfirmed, OnItsWay, UnconfirmedIsBounded, tracker
<1>6. AgesOK'
  <2>1. pend' = pend /\ pend.age \in Nat /\ OpTimeout \in Nat /\ Confirm \in Nat
    BY <1>1, <1>2, Typed, Times DEF tracker
  <2> QED
    BY <1>1, <1>2, <1>3, <2>1 DEF AgesOK, InCall
<1>7. TickOK' /\ AssertionsHold' /\ HandOff'
  BY <1>1, <1>2 DEF TickOK, AssertionsHold, HandOff
<1> QED
  BY <1>4, <1>5, <1>6, <1>7 DEF IInv

\* A written value reaches the plant: it is the one the tracker knows of.
LEMMA LandKeeps == ASSUME IInv, Land PROVE IInv'
<1>1. PICK v \in plant.flight : plant' = [mv |-> v, flight |-> plant.flight \ {v}]
  BY DEF Land
<1>2. UNCHANGED <<pc, call, time, signal, eng, tracker, tick, result>>
  BY DEF Land
<1>3. TypeOK /\ EngineOK /\ CountsOK /\ PlantOK /\ AgesOK /\ TickOK /\ UnconfirmedIsBounded
      /\ AssertionsHold /\ HandOff
  BY DEF IInv
<1>4. TypeOK'
  BY <1>1, <1>2, <1>3 DEF TypeOK, time, tracker
<1>5. EngineOK' /\ CountsOK' /\ UnconfirmedIsBounded'
  BY <1>2, <1>3 DEF EngineOK, CountsOK, Live, Completed, AllConfirmed,
                    AllButLastConfirmed, UnconfirmedIsBounded, tracker
<1>6. PlantOK'
  BY <1>1, <1>2, <1>3 DEF PlantOK, Live, OnItsWay, Completed, tracker
<1>7. AgesOK' /\ TickOK' /\ AssertionsHold' /\ HandOff'
  BY <1>1, <1>2, <1>3 DEF AgesOK, TickOK, InCall, AssertionsHold, HandOff, Completed, tracker
<1> QED
  BY <1>4, <1>5, <1>6, <1>7 DEF IInv

\* The operator presses Ctrl+C.
LEMMA PressKeeps == ASSUME IInv, PressCtrlC PROVE IInv'
<1>1. UNCHANGED <<pc, call, time, eng, tracker, plant, tick, result>> /\ signal' \in BOOLEAN
  BY DEF PressCtrlC
<1>2. TypeOK'
  BY <1>1, StepTyped DEF IInv, TypeOK
<1>3. EngineOK' /\ CountsOK' /\ PlantOK' /\ UnconfirmedIsBounded'
  BY <1>1 DEF IInv, EngineOK, CountsOK, PlantOK, Live, Completed, AllConfirmed,
              AllButLastConfirmed, OnItsWay, UnconfirmedIsBounded, tracker
<1>4. AgesOK' /\ TickOK' /\ AssertionsHold' /\ HandOff'
  BY <1>1 DEF IInv, AgesOK, TickOK, InCall, AssertionsHold, HandOff, Completed, tracker
<1> QED
  BY <1>2, <1>3, <1>4 DEF IInv

\* Time passes: a pending command ages with the call, and a command that ages
\* while the loop waits is still younger than its window.
LEMMA AdvanceKeeps == ASSUME IInv, Advance PROVE IInv'
<1>1. /\ OpTimeout \in Nat /\ Confirm \in Nat /\ DeadlineRead \in Nat /\ Headroom \in Nat
      /\ Headroom > 0 /\ Noise \in Nat /\ Delay \in Nat
      /\ PollInterval \in Nat /\ RunTimeout \in Nat
  BY Times
<1>2. TypeOK /\ AgesOK /\ CountsOK /\ PlantOK /\ EngineOK /\ UnconfirmedIsBounded /\ TickOK
      /\ AssertionsHold /\ HandOff
  BY DEF IInv
<1>3. /\ call \in CallRec /\ call.age \in Nat /\ call.left \in Nat
      /\ pend \in PendRec /\ pend.on \in BOOLEAN /\ pend.age \in Nat /\ pend.check \in Nat
      /\ pend.check <= Confirm
      /\ toPoll \in Nat /\ toPoll <= PollInterval
      /\ toTimeout \in Nat /\ toTimeout <= RunTimeout
      /\ pre \in Nat /\ pre <= Delay /\ post \in Nat /\ post <= Delay
      /\ eng.hold \in Nat /\ eng.hold <= Noise
  BY <1>2, Typed
<1>4. /\ UNCHANGED <<pc, signal, commanded, confirmed, rows, plant, tick, result>>
      /\ toPoll' = Down(toPoll) /\ toTimeout' = Down(toTimeout) /\ pre' = Down(pre)
      /\ post' = IF Completed THEN Down(post) ELSE post
      /\ eng' = [eng EXCEPT !.hold = Down(@)]
  BY DEF Advance
<1>5. pc = "select" \/ (pc \in InCall /\ call.left > 0)
  BY DEF Advance, Waiting
<1>6. pc # "done" /\ pc # "tick"
  BY <1>5 DEF InCall
<1>7. /\ pend' \in PendRec /\ pend'.on = pend.on /\ pend'.seen = pend.seen
      /\ pend.on => pend'.age = pend.age + 1
      /\ ~ pend.on => pend'.age = pend.age
  BY <1>3 DEF Advance, PendRec
<1>8. /\ call' \in CallRec
      /\ pc \in InCall => /\ call'.age = call.age + 1 /\ call'.left = call.left - 1
                          /\ call'.limit = call.limit /\ call.left > 0
  <2>1. CASE pc \in InCall
    <3>1. call.left > 0 /\ call' = [call EXCEPT !.age = @ + 1, !.left = @ - 1]
      BY <1>5, <2>1 DEF Advance, InCall
    <3>2. call.age + call.left <= OpTimeout
      BY <1>2, <2>1 DEF AgesOK
    <3>3. call.age + 1 \in 0..OpTimeout /\ call.left - 1 \in 0..OpTimeout
      BY <1>1, <1>3, <3>1, <3>2
    <3> QED
      BY <1>3, <3>1, <3>3 DEF CallRec
  <2>2. CASE pc \notin InCall
    BY <1>3, <2>2 DEF Advance
  <2> QED
    BY <2>1, <2>2
<1>9. eng' \in EngRec /\ eng'.n = eng.n /\ eng'.mv = eng.mv
  <2>1. Down(eng.hold) \in 0..Noise
    BY <1>1, <1>3, DownTyped
  <2> QED
    BY <1>2, <1>4, <2>1 DEF TypeOK, EngRec
<1>10. TypeOK'
  <2>1. toPoll' \in 0..PollInterval /\ toTimeout' \in 0..RunTimeout
    BY <1>1, <1>3, <1>4, DownTyped
  <2>2. pre' \in 0..Delay
    BY <1>1, <1>3, <1>4, DownTyped
  <2>3. post' \in 0..Delay
    <3>1. Down(post) \in 0..Delay /\ post \in 0..Delay
      BY <1>1, <1>3, DownTyped
    <3> QED
      BY <1>4, <3>1
  <2> QED
    BY <1>2, <1>4, <1>7, <1>8, <1>9, <2>1, <2>2, <2>3
    DEF TypeOK, CallRec, PendRec, EngRec
<1>11. EngineOK' /\ PlantOK'
  BY <1>2, <1>4, <1>6, <1>7, <1>9 DEF EngineOK, PlantOK, Live, OnItsWay, Completed
<1>12. CountsOK'
  BY <1>2, <1>4, <1>6, <1>7, <1>9
  DEF CountsOK, Live, AllConfirmed, AllButLastConfirmed
<1>13. CASE pc = "select"
  <2>1. pend.on => pend.age + 1 <= Confirm
    <3>1. ~ WakeupDue(pend)
      BY <1>5, <1>13 DEF Advance, Waiting, InCall
    <3>2. pend.on => ~ (pend.age >= Confirm)
      BY <1>1, <1>3, <3>1 DEF WakeupDue, Most
    <3> QED
      BY <1>1, <1>3, <3>2
  <2>2. AgesOK'
    BY <1>1, <1>3, <1>4, <1>7, <1>13, <2>1 DEF AgesOK, InCall
  <2>3. UnconfirmedIsBounded'
    BY <1>1, <1>3, <1>4, <1>7, <1>13, <2>1 DEF UnconfirmedIsBounded, Most
  <2> QED
    BY <1>2, <1>4, <1>6, <1>10, <1>11, <1>12, <2>2, <2>3
    DEF IInv, TickOK, AssertionsHold, HandOff
<1>14. CASE pc \in InCall
  <2>1. AgesOK'
    BY <1>1, <1>2, <1>3, <1>4, <1>7, <1>8, <1>14 DEF AgesOK, InCall
  <2>2. UnconfirmedIsBounded'
    <3>1. pend.on => pc # "writing"
      BY <1>2 DEF PlantOK
    <3>2. pend.on => pend.age + call.left <= Confirm + Most(OpTimeout, DeadlineRead)
      BY <1>1, <1>2, <1>3, <1>14, <3>1 DEF AgesOK, InCall, CallRec, Most
    <3>3. Most(OpTimeout, DeadlineRead) \in Nat
      BY <1>1 DEF Most
    <3> QED
      BY <1>1, <1>3, <1>7, <1>8, <1>14, <3>2, <3>3 DEF UnconfirmedIsBounded
  <2> QED
    BY <1>2, <1>4, <1>6, <1>10, <1>11, <1>12, <2>1, <2>2
    DEF IInv, TickOK, AssertionsHold, HandOff
<1> QED
  BY <1>5, <1>13, <1>14

\* What a check leaves behind, whatever its outcome.
LEMMA Checked ==
    ASSUME IInv, pend.on, Live, NEW o, GivesUp(o) \/ Confirms(o) \/ KeepsWaiting(o),
           Track(o), UNCHANGED <<eng, plant>>
    PROVE  /\ pend' \in PendRec /\ commanded' \in MV /\ confirmed' \in MV \cup {"none"}
           /\ rows' \in Seq(Status) /\ AllButLastConfirmed'
           /\ eng.n = Len(rows') /\ eng.n > 0
           /\ commanded' = commanded /\ commanded = eng.mv
           /\ pend' = o.pend
           /\ pend'.on => /\ rows' # <<>> /\ rows'[Len(rows')] = "pending"
                          /\ OnItsWay(commanded)'
                          /\ pend'.age <= Confirm
           /\ Confirms(o) => /\ AllConfirmed' /\ ~ pend'.on
                             /\ plant.mv = commanded /\ plant.flight = {}
                             /\ confirmed' = commanded
           /\ GivesUp(o) => ~ pend'.on
           /\ KeepsWaiting(o) => pend'.on
           /\ confirmed' = "ini" => plant.mv = "ini" /\ plant.flight = {} /\ Completed
<1>1. TypeOK /\ EngineOK /\ CountsOK /\ PlantOK
  BY DEF IInv
<1>2. /\ o.row \in Status /\ pend' \in PendRec /\ commanded' = commanded
      /\ commanded' \in MV /\ confirmed' \in MV \cup {"none"}
  BY <1>1, TrackTypes DEF TypeOK
<1>3. rows \in Seq(Status) /\ rows # <<>> /\ AllButLastConfirmed /\ eng.n = Len(rows)
  BY <1>1, Typed DEF CountsOK
<1>4. /\ rows' \in Seq(Status) /\ Len(rows') = Len(rows) /\ rows' # <<>>
      /\ rows'[Len(rows')] = o.row /\ AllButLastConfirmed'
      /\ o.row = "confirmed" => AllConfirmed'
  BY <1>2, <1>3, TrackRows
<1>5. OnItsWay(commanded) /\ commanded = eng.mv /\ eng.n > 0
  BY <1>1 DEF PlantOK
<1>6. pend' = o.pend /\ confirmed' = o.confirmed
  BY DEF Track
<1>7. CASE GivesUp(o)
  <2>1. ~ pend'.on /\ confirmed' = confirmed
    BY <1>6, <1>7, NoPendingIsTyped DEF GivesUp
  <2>2. ~ Confirms(o) /\ ~ KeepsWaiting(o)
    BY <1>7, NoPendingIsTyped DEF GivesUp, Confirms, KeepsWaiting, Aborts
  <2> QED
    BY <1>1, <1>2, <1>3, <1>4, <1>5, <1>6, <2>1, <2>2 DEF PlantOK
<1>8. CASE Confirms(o)
  <2>1. ~ pend'.on /\ confirmed' = commanded /\ plant.mv = commanded /\ o.row = "confirmed"
    BY <1>6, <1>8, NoPendingIsTyped DEF Confirms
  <2>2. plant.flight = {}
    BY <1>5, <2>1 DEF OnItsWay
  <2>3. ~ GivesUp(o) /\ ~ KeepsWaiting(o)
    BY <1>8, NoPendingIsTyped DEF GivesUp, Confirms, KeepsWaiting, Aborts
  <2>4. commanded = "ini" => Completed
    BY <1>1, <1>5 DEF EngineOK
  <2> QED
    BY <1>2, <1>3, <1>4, <1>5, <1>6, <2>1, <2>2, <2>3, <2>4
<1>9. CASE KeepsWaiting(o)
  <2>1. /\ pend'.on /\ pend'.age = pend.age /\ pend.age <= Confirm
        /\ confirmed' = confirmed /\ o.row = "pending"
    BY <1>6, <1>9 DEF KeepsWaiting
  <2>2. ~ GivesUp(o) /\ ~ Confirms(o)
    BY <1>9, NoPendingIsTyped DEF GivesUp, Confirms, KeepsWaiting
  <2>3. OnItsWay(commanded)'
    BY <1>2, <1>5 DEF OnItsWay
  <2> QED
    BY <1>1, <1>2, <1>3, <1>4, <1>5, <1>6, <2>1, <2>2, <2>3 DEF PlantOK
<1> QED
  BY <1>7, <1>8, <1>9

\* A check after which the loop returns.
LEMMA CheckEnds ==
    ASSUME IInv, pend.on, Live, NEW o, GivesUp(o) \/ KeepsWaiting(o),
           Track(o), UNCHANGED <<eng, plant, time, tick, call>>, signal' \in BOOLEAN,
           pc' = "done", result' \in Aborts \cup {"error"}
    PROVE  IInv'
<1>1. TypeOK /\ EngineOK
  BY DEF IInv
<1>2. /\ pend' \in PendRec /\ commanded' \in MV /\ confirmed' \in MV \cup {"none"}
      /\ rows' \in Seq(Status) /\ AllButLastConfirmed'
      /\ eng.n = Len(rows') /\ eng.n > 0
      /\ commanded' = commanded /\ commanded = eng.mv
      /\ pend'.on => /\ rows' # <<>> /\ rows'[Len(rows')] = "pending"
                     /\ OnItsWay(commanded)'
                     /\ pend'.age <= Confirm
      /\ confirmed' = "ini" => plant.mv = "ini" /\ plant.flight = {} /\ Completed
  BY Checked
<1>3. TypeOK'
  <2>1. call' \in CallRec /\ eng' \in EngRec /\ tick' \in TickRec
        /\ plant' \in [mv: MV, flight: SUBSET MV]
    BY <1>1 DEF TypeOK, CallRec, EngRec, TickRec
  <2>2. result' \in Results
    BY DEF Results
  <2> QED
    BY <1>1, <1>2, <2>1, <2>2, StillTyped
<1>4. EngineOK' /\ CountsOK' /\ PlantOK'
  BY <1>1, <1>2 DEF EngineOK, CountsOK, PlantOK, Live, Completed
<1>5. AgesOK' /\ TickOK'
  BY DEF AgesOK, TickOK, InCall
<1>6. UnconfirmedIsBounded'
  BY <1>2, Times DEF UnconfirmedIsBounded, Most, PendRec
<1>7. AssertionsHold' /\ HandOff'
  BY <1>1, <1>2 DEF AssertionsHold, HandOff, OnItsWay, EngineOK, Completed, Aborts
<1> QED
  BY <1>3, <1>4, <1>5, <1>6, <1>7 DEF IInv

\* A check after which the loop goes on, at once or with the tick it is part of.
LEMMA CheckGoesOn ==
    ASSUME IInv, pend.on, Live, NEW o, Confirms(o) \/ KeepsWaiting(o),
           Track(o), UNCHANGED <<eng, plant, time, call, signal, result>>,
           pc' \in {"select", "tick"}, tick' \in TickRec,
           pc' = "tick" => tick'.abort = "none",
           pc' = "tick" /\ KeepsWaiting(o) => tick'.evidence
    PROVE  IInv'
<1>1. TypeOK /\ EngineOK /\ AssertionsHold
  BY DEF IInv
<1>2. /\ pend' \in PendRec /\ commanded' \in MV /\ confirmed' \in MV \cup {"none"}
      /\ rows' \in Seq(Status) /\ AllButLastConfirmed'
      /\ eng.n = Len(rows') /\ eng.n > 0
      /\ commanded' = commanded /\ commanded = eng.mv
      /\ pend'.on => /\ rows' # <<>> /\ rows'[Len(rows')] = "pending"
                     /\ OnItsWay(commanded)'
                     /\ pend'.age <= Confirm
      /\ confirmed' = "ini" => plant.mv = "ini" /\ plant.flight = {} /\ Completed
  BY Checked
<1>3. ~ pend'.on => /\ AllConfirmed' /\ plant.mv = commanded /\ plant.flight = {}
                    /\ confirmed' = commanded
  BY Checked
<1>4. pend'.on => KeepsWaiting(o)
  BY Checked
<1>5. TypeOK'
  <2>1. call' \in CallRec /\ eng' \in EngRec /\ plant' \in [mv: MV, flight: SUBSET MV]
        /\ result' \in Results /\ signal' \in BOOLEAN
    BY <1>1 DEF TypeOK, CallRec, EngRec
  <2> QED
    BY <1>1, <1>2, <2>1, StillTyped
<1>6. EngineOK' /\ CountsOK' /\ PlantOK'
  BY <1>1, <1>2, <1>3 DEF EngineOK, CountsOK, PlantOK, Live, Completed
<1>7. AgesOK' /\ TickOK'
  BY <1>2, <1>4 DEF AgesOK, TickOK, InCall
<1>8. UnconfirmedIsBounded'
  BY <1>2, Times DEF UnconfirmedIsBounded, Most, PendRec
<1>9. AssertionsHold' /\ HandOff'
  BY <1>1 DEF AssertionsHold, HandOff
<1> QED
  BY <1>5, <1>6, <1>7, <1>8, <1>9 DEF IInv

\* A check that the tick will end the run for, once its sample is recorded.
LEMMA CheckAborts ==
    ASSUME IInv, pend.on, Live, NEW o, GivesUp(o),
           Track(o), UNCHANGED <<eng, plant, time, call, signal, result>>,
           pc' = "tick", tick' \in TickRec, tick'.abort # "none"
    PROVE  IInv'
<1>1. TypeOK /\ EngineOK /\ AssertionsHold
  BY DEF IInv
<1>2. /\ pend' \in PendRec /\ commanded' \in MV /\ confirmed' \in MV \cup {"none"}
      /\ rows' \in Seq(Status) /\ AllButLastConfirmed'
      /\ eng.n = Len(rows') /\ ~ pend'.on
      /\ confirmed' = "ini" => plant.mv = "ini" /\ plant.flight = {} /\ Completed
  BY Checked
<1>3. TypeOK'
  <2>1. call' \in CallRec /\ eng' \in EngRec /\ plant' \in [mv: MV, flight: SUBSET MV]
        /\ result' \in Results /\ signal' \in BOOLEAN
    BY <1>1 DEF TypeOK, CallRec, EngRec
  <2> QED
    BY <1>1, <1>2, <2>1, StillTyped
<1>4. EngineOK' /\ CountsOK' /\ PlantOK'
  BY <1>1, <1>2 DEF EngineOK, CountsOK, PlantOK, Live, Completed
<1>5. AgesOK' /\ TickOK' /\ UnconfirmedIsBounded'
  BY <1>2 DEF AgesOK, TickOK, InCall, UnconfirmedIsBounded
<1>6. AssertionsHold' /\ HandOff'
  BY <1>1 DEF AssertionsHold, HandOff
<1> QED
  BY <1>3, <1>4, <1>5, <1>6 DEF IInv

\* The loop returns and leaves everything else as it is.
LEMMA LoopEnds ==
    ASSUME IInv, UNCHANGED <<eng, plant, time, tick, call, tracker>>, signal' \in BOOLEAN,
           pc' = "done", result' \in Results \ {"invariant"},
           result' = "completed" => commanded = "ini" /\ (pend.on \/ confirmed = "ini")
    PROVE  IInv'
<1>1. TypeOK /\ EngineOK /\ CountsOK /\ PlantOK /\ UnconfirmedIsBounded
  BY DEF IInv
<1>2. TypeOK'
  BY <1>1, StepTyped
<1>3. EngineOK' /\ CountsOK' /\ PlantOK' /\ UnconfirmedIsBounded'
  BY <1>1 DEF EngineOK, CountsOK, PlantOK, Live, Completed, AllConfirmed,
              AllButLastConfirmed, OnItsWay, UnconfirmedIsBounded, tracker
<1>4. AgesOK' /\ TickOK' /\ AssertionsHold'
  BY DEF AgesOK, TickOK, InCall, AssertionsHold
<1>5. HandOff'
  BY <1>1 DEF HandOff, PlantOK, EngineOK, OnItsWay, Completed, tracker
<1> QED
  BY <1>2, <1>3, <1>4, <1>5 DEF IInv

\* A tick that changes nothing sends the loop back to its select.
LEMMA TickGoesOn ==
    ASSUME IInv, pc = "tick", Live, pc' = "select",
           UNCHANGED <<signal, result, eng, plant, time, tick, call, tracker>>
    PROVE  IInv'
<1>1. TypeOK /\ EngineOK /\ CountsOK /\ PlantOK /\ UnconfirmedIsBounded /\ AgesOK
      /\ AssertionsHold
  BY DEF IInv
<1>2. TypeOK'
  BY <1>1, StepTyped DEF TypeOK
<1>3. EngineOK' /\ CountsOK' /\ PlantOK' /\ UnconfirmedIsBounded'
  BY <1>1 DEF EngineOK, CountsOK, PlantOK, Live, Completed, AllConfirmed,
              AllButLastConfirmed, OnItsWay, UnconfirmedIsBounded, tracker
<1>4. AgesOK' /\ TickOK' /\ AssertionsHold' /\ HandOff'
  BY <1>1 DEF AgesOK, TickOK, InCall, AssertionsHold, HandOff, tracker
<1> QED
  BY <1>2, <1>3, <1>4 DEF IInv

\* The limit of a verification read, from its start on.
LEMMA ReadStarts ==
    ASSUME TypeOK, NEW trigger \in {"scheduled", "deadline"}, StartRead(trigger),
           pend.age <= Confirm
    PROVE  /\ call' \in CallRec /\ call'.age = 0
           /\ call'.age + call'.left <= OpTimeout
           /\ call'.limit = "confirmation" => pend.age + call'.left = Confirm
           /\ call'.limit = "deadline" => call'.left <= DeadlineRead
           /\ call'.limit = "op" => call'.left <= OpTimeout
<1>1. /\ OpTimeout \in Nat /\ Confirm \in Nat /\ DeadlineRead \in Nat /\ pend.age \in Nat
  BY Times, Typed
<1>2. Confirm - pend.age \in Nat
  BY <1>1
<1>3. ASSUME NEW kind \in {"confirmation", "deadline"}, NEW d \in Nat, Bounded(kind, d, trigger)
      PROVE  /\ call' \in CallRec /\ call'.age = 0
             /\ call'.left <= OpTimeout
             /\ \/ call'.limit = kind /\ call'.left = d
                \/ call'.limit = "op"
  <2>1. CASE d <= OpTimeout /\ NewCall(kind, d, trigger)
    BY <1>1, <1>3, <2>1, NewCallTyped
  <2>2. CASE NewCall("op", OpTimeout, trigger)
    BY <1>1, <2>2, NewCallTyped
  <2> QED
    BY <1>3, <2>1, <2>2 DEF Bounded
<1>4. CASE trigger = "deadline"
  <2>1. Bounded("deadline", DeadlineRead, trigger)
    BY <1>4 DEF StartRead
  <2>2. /\ call' \in CallRec /\ call'.age = 0 /\ call'.left <= OpTimeout
        /\ \/ call'.limit = "deadline" /\ call'.left = DeadlineRead
           \/ call'.limit = "op"
    BY <1>1, <1>3, <2>1
  <2> QED
    BY <1>1, <2>2 DEF CallRec
<1>5. CASE trigger = "scheduled"
  <2>1. Bounded("confirmation", Confirm - pend.age, trigger)
    BY <1>5 DEF StartRead
  <2>2. /\ call' \in CallRec /\ call'.age = 0 /\ call'.left <= OpTimeout
        /\ \/ call'.limit = "confirmation" /\ call'.left = Confirm - pend.age
           \/ call'.limit = "op"
    BY <1>2, <1>3, <2>1
  <2> QED
    BY <1>1, <2>2 DEF CallRec
<1> QED
  BY <1>4, <1>5

\* A read to verify the pending command starts.
LEMMA VerificationStarts ==
    ASSUME IInv, pc \in {"select", "verifying"}, pend.on, pend.age <= Confirm,
           NEW trigger \in {"scheduled", "deadline"}, StartRead(trigger), pc' = "verifying",
           UNCHANGED <<time, signal, eng, tracker, plant, tick, result>>
    PROVE  IInv'
<1>1. TypeOK /\ EngineOK /\ CountsOK /\ PlantOK /\ UnconfirmedIsBounded /\ AssertionsHold
  BY DEF IInv
<1>2. /\ call' \in CallRec /\ call'.age = 0
      /\ call'.age + call'.left <= OpTimeout
      /\ call'.limit = "confirmation" => pend.age + call'.left = Confirm
      /\ call'.limit = "deadline" => call'.left <= DeadlineRead
      /\ call'.limit = "op" => call'.left <= OpTimeout
  BY <1>1, ReadStarts
<1>3. TypeOK'
  <2>1. /\ eng' \in EngRec /\ tick' \in TickRec /\ plant' \in [mv: MV, flight: SUBSET MV]
        /\ pend' \in PendRec /\ commanded' \in MV /\ confirmed' \in MV \cup {"none"}
        /\ rows' \in Seq(Status) /\ result' \in Results /\ signal' \in BOOLEAN
    BY <1>1 DEF TypeOK, EngRec, TickRec, PendRec, tracker
  <2> QED
    BY <1>1, <1>2, <2>1, StillTyped DEF InCall
<1>4. EngineOK' /\ CountsOK' /\ PlantOK' /\ UnconfirmedIsBounded'
  BY <1>1 DEF EngineOK, CountsOK, PlantOK, Live, Completed, AllConfirmed,
              AllButLastConfirmed, OnItsWay, UnconfirmedIsBounded, tracker
<1>5. AgesOK'
  <2>1. /\ OpTimeout \in Nat /\ Confirm \in Nat /\ DeadlineRead \in Nat /\ pend.age \in Nat
        /\ call'.left \in Nat /\ pend' = pend
    BY <1>1, <1>2, Times, Typed DEF CallRec, tracker
  <2> QED
    BY <1>2, <2>1 DEF AgesOK, InCall
<1>6. TickOK' /\ AssertionsHold' /\ HandOff'
  BY <1>1 DEF TickOK, AssertionsHold, HandOff
<1> QED
  BY <1>3, <1>4, <1>5, <1>6 DEF IInv

\* The wakeup for a pending command always finds a reason to look at it.
LEMMA SelectVerificationKeeps == ASSUME IInv, SelectVerification PROVE IInv'
<1>1. TypeOK /\ AgesOK /\ pc = "select" /\ WakeupDue(pend)
  BY DEF IInv, SelectVerification
<1>2. /\ Confirm \in Nat /\ Headroom \in Nat /\ pend.on \in BOOLEAN /\ pend.seen \in BOOLEAN
      /\ pend.age \in Nat /\ pend.check \in Nat
  BY <1>1, Times, Typed
<1>3. pend.on /\ pend.age <= Confirm
  BY <1>1 DEF WakeupDue, AgesOK
<1>4. Trigger(pend) \in {"scheduled", "deadline"}
  BY <1>1, <1>2 DEF WakeupDue, Trigger, Most
<1>5. /\ StartRead(Trigger(pend)) /\ pc' = "verifying"
      /\ UNCHANGED <<time, signal, eng, tracker, plant, tick, result>>
  BY <1>4 DEF SelectVerification
<1> QED
  BY <1>1, <1>3, <1>4, <1>5, VerificationStarts

\* The verification read returns: the command is confirmed, goes on waiting,
\* or ends the run.
LEMMA VerifyReturnsKeeps == ASSUME IInv, VerifyReturns PROVE IInv'
<1>1. TypeOK /\ AgesOK /\ pc = "verifying" /\ UNCHANGED <<call, time, signal, eng, plant, tick>>
  BY DEF IInv, VerifyReturns
<1>2. pend.on /\ Live
  BY <1>1 DEF AgesOK, Live
<1>3. PICK read \in {"error", "bad", "value"} :
        \E o \in Resolve(read, call.trigger) : Track(o) /\ GoOnUnless(o.reason)
  BY DEF VerifyReturns
<1>4. PICK o \in Resolve(read, call.trigger) : Track(o) /\ GoOnUnless(o.reason)
  BY <1>3
<1>5. GivesUp(o) \/ Confirms(o) \/ KeepsWaiting(o)
  BY <1>1, <1>2, <1>4, ResolveOutcomes
<1>6. signal' \in BOOLEAN /\ tick' \in TickRec
  BY <1>1 DEF TypeOK, TickRec
<1>7. CASE o.reason = "none"
  <2>1. pc' = "select" /\ UNCHANGED result
    BY <1>4, <1>7 DEF GoOnUnless
  <2>2. Confirms(o) \/ KeepsWaiting(o)
    BY <1>5, <1>7 DEF GivesUp, Aborts
  <2> QED
    BY <1>1, <1>2, <1>4, <1>6, <2>1, <2>2, CheckGoesOn
<1>8. CASE o.reason # "none"
  <2>1. pc' = "done" /\ result' = o.reason
    BY <1>4, <1>8 DEF GoOnUnless, Return
  <2>2. GivesUp(o) \/ KeepsWaiting(o)
    BY <1>5, <1>8 DEF Confirms
  <2>3. o.reason \in Aborts \cup {"error"}
    BY <1>8, <2>2 DEF GivesUp, KeepsWaiting
  <2> QED
    BY <1>1, <1>2, <1>4, <1>6, <2>1, <2>2, <2>3, CheckEnds
<1> QED
  BY <1>7, <1>8

\* The command is given up and the loop returns.
LEMMA GiveUpEnds ==
    ASSUME IInv, pend.on, Live, NEW status \in {"failed", "unverified"},
           NEW reason \in Aborts, NEW o \in GiveUp(status, reason), Track(o),
           UNCHANGED <<eng, plant, time, tick, call>>, signal' \in BOOLEAN,
           pc' = "done", result' \in {reason, "error"}
    PROVE  IInv'
<1>1. GivesUp(o)
  BY GiveUpGivesUp
<1> QED
  BY <1>1, CheckEnds

LEMMA VerifyCancelledKeeps == ASSUME IInv, VerifyCancelled PROVE IInv'
<1>1. /\ pc = "verifying" /\ signal' = FALSE /\ AgesOK
      /\ UNCHANGED <<call, time, eng, plant, tick>>
  BY DEF IInv, VerifyCancelled
<1>2. pend.on /\ Live
  BY <1>1 DEF AgesOK, Live
<1>3. PICK o \in GiveUp("unverified", "interrupt") : Track(o) /\ Return(o.reason)
  BY DEF VerifyCancelled
<1>4. pc' = "done" /\ result' = "interrupt" /\ "interrupt" \in Aborts
  BY <1>3, GiveUpGivesUp DEF Return, Aborts
<1> QED
  BY <1>1, <1>2, <1>3, <1>4, GiveUpEnds

\* A limit of the verification read passed; the confirmation deadline makes
\* the loop read once more.
LEMMA VerifyLimitKeeps == ASSUME IInv, VerifyLimit PROVE IInv'
<1>1. /\ pc = "verifying" /\ call.left = 0 /\ TypeOK /\ AgesOK
      /\ UNCHANGED <<time, signal, eng, plant, tick>>
  BY DEF IInv, VerifyLimit
<1>2. pend.on /\ Live
  BY <1>1 DEF AgesOK, Live
<1>3. CASE call.limit = "confirmation" /\ StartRead("deadline") /\ UNCHANGED <<pc, tracker, result>>
  <2>1. pend.age <= Confirm
    BY <1>1, <1>3, Typed, Times DEF AgesOK
  <2> QED
    BY <1>1, <1>2, <1>3, <2>1, VerificationStarts
<1>4. CASE /\ call.limit \in {"op", "deadline"} /\ UNCHANGED call
           /\ \E o \in GiveUp("unverified", IF call.limit = "op" THEN "op_timeout"
                                            ELSE "unconfirmed") :
                Track(o) /\ Return(o.reason)
  <2> DEFINE reason == IF call.limit = "op" THEN "op_timeout" ELSE "unconfirmed"
  <2>1. reason \in Aborts
    BY DEF Aborts
  <2>2. PICK o \in GiveUp("unverified", reason) : Track(o) /\ Return(o.reason)
    BY <1>4
  <2> HIDE DEF reason
  <2>3. pc' = "done" /\ result' = reason
    BY <2>1, <2>2, GiveUpGivesUp DEF Return
  <2>4. signal' \in BOOLEAN
    BY <1>1 DEF TypeOK
  <2> QED
    BY <1>1, <1>2, <1>4, <2>1, <2>2, <2>3, <2>4, GiveUpEnds
<1> QED
  BY <1>3, <1>4 DEF VerifyLimit

\* A Ctrl+C or the whole-run timeout ends the loop at its select.
LEMMA SelectEndsKeeps == ASSUME IInv, SelectCtrlC \/ SelectTimeout PROVE IInv'
<1>1. UNCHANGED <<eng, plant, time, tick, call, tracker>>
  BY DEF SelectCtrlC, SelectTimeout
<1>2. signal' \in BOOLEAN
  BY DEF IInv, TypeOK, SelectCtrlC, SelectTimeout
<1>3. pc' = "done" /\ result' \in Results \ {"invariant"} /\ result' # "completed"
  BY DEF SelectCtrlC, SelectTimeout, Return, Results, Aborts
<1> QED
  BY <1>1, <1>2, <1>3, LoopEnds

\* The batched read fails.
LEMMA ReadFailsKeeps == ASSUME IInv, ReadFails PROVE IInv'
<1>1. UNCHANGED <<eng, plant, time, tick, call, tracker>> /\ signal' \in BOOLEAN
  BY DEF IInv, TypeOK, ReadFails
<1>2. pc' = "done" /\ result' \in Results \ {"invariant"} /\ result' # "completed"
  BY DEF ReadFails, Return, Results
<1> QED
  BY <1>1, <1>2, LoopEnds

\* The batched read returns: with no command pending the tick just follows,
\* otherwise the same read is a check of that command.
LEMMA ReadReturnsKeeps == ASSUME IInv, ReadReturns PROVE IInv'
<1>1. /\ pc = "reading" /\ UNCHANGED <<call, time, signal, eng, plant>> /\ Live
      /\ TypeOK /\ signal' \in BOOLEAN
  BY DEF IInv, ReadReturns, Live, TypeOK
<1>2. PICK pv \in {"good", "bad", "error"} :
         \/ /\ ~ pend.on
            /\ tick' = [NoTick EXCEPT !.pv = pv]
            /\ pc' = "tick"
            /\ UNCHANGED <<tracker, result>>
         \/ /\ pend.on
            /\ \E read \in {"error", "bad", "value"} :
                 \E o \in Resolve(read, "scheduled") :
                   /\ Track(o)
                   /\ IF o.reason = "error" THEN Return("error") /\ UNCHANGED tick
                      ELSE /\ tick' = [pv |-> pv, abort |-> o.reason,
                                       evidence |-> read = "value"]
                           /\ pc' = "tick"
                           /\ UNCHANGED result
  BY DEF ReadReturns
<1>3. CASE /\ ~ pend.on
           /\ tick' = [NoTick EXCEPT !.pv = pv]
           /\ pc' = "tick"
           /\ UNCHANGED <<tracker, result>>
  <2>1. /\ EngineOK /\ CountsOK /\ PlantOK /\ UnconfirmedIsBounded /\ AssertionsHold
    BY DEF IInv
  <2>2. tick' \in TickRec /\ tick'.abort = "none"
    BY <1>3 DEF NoTick, TickRec, Aborts
  <2>3. TypeOK'
    <3>1. /\ eng' \in EngRec /\ call' \in CallRec /\ plant' \in [mv: MV, flight: SUBSET MV]
          /\ pend' \in PendRec /\ commanded' \in MV /\ confirmed' \in MV \cup {"none"}
          /\ rows' \in Seq(Status) /\ result' \in Results
      BY <1>1, <1>3 DEF TypeOK, EngRec, CallRec, PendRec, tracker
    <3> QED
      BY <1>1, <1>3, <2>2, <3>1, StillTyped
  <2>4. EngineOK' /\ CountsOK' /\ PlantOK'
    BY <1>1, <1>3, <2>1, <2>2
    DEF EngineOK, CountsOK, PlantOK, Live, Completed, AllConfirmed,
                              AllButLastConfirmed, OnItsWay, tracker
  <2>5. AgesOK' /\ TickOK' /\ UnconfirmedIsBounded' /\ AssertionsHold' /\ HandOff'
    BY <1>3, <2>1 DEF AgesOK, TickOK, UnconfirmedIsBounded, InCall, AssertionsHold,
                      HandOff, tracker
  <2> QED
    BY <2>3, <2>4, <2>5 DEF IInv
<1>4. ASSUME pend.on, NEW read \in {"error", "bad", "value"},
             NEW o \in Resolve(read, "scheduled"), Track(o),
             IF o.reason = "error" THEN Return("error") /\ UNCHANGED tick
             ELSE /\ tick' = [pv |-> pv, abort |-> o.reason, evidence |-> read = "value"]
                  /\ pc' = "tick"
                  /\ UNCHANGED result
      PROVE  IInv'
  <2>1. /\ GivesUp(o) \/ Confirms(o) \/ KeepsWaiting(o)
        /\ KeepsWaiting(o) => read = "value"
    BY <1>1, <1>4, ResolveOutcomes
  <2>2. CASE o.reason = "error"
    <3>1. pc' = "done" /\ result' = "error" /\ UNCHANGED tick
      BY <1>4, <2>2 DEF Return
    <3>2. GivesUp(o) \/ KeepsWaiting(o)
      BY <2>1, <2>2 DEF Confirms
    <3> QED
      BY <1>1, <1>4, <3>1, <3>2, CheckEnds
  <2>3. CASE o.reason # "error"
    <3>1. /\ tick' = [pv |-> pv, abort |-> o.reason, evidence |-> read = "value"]
          /\ pc' = "tick" /\ UNCHANGED result
      BY <1>4, <2>3
    <3>2. o.reason \in Aborts \cup {"none"}
      BY <2>1, <2>3 DEF GivesUp, Confirms, KeepsWaiting
    <3>3. /\ tick' \in TickRec /\ tick'.abort = o.reason
          /\ tick'.evidence = (read = "value")
      BY <3>1, <3>2 DEF TickRec
    <3>4. CASE GivesUp(o)
      <4>1. tick'.abort # "none"
        BY <2>3, <3>3, <3>4 DEF GivesUp, Aborts
      <4> QED
        BY <1>1, <1>4, <3>1, <3>3, <3>4, <4>1, CheckAborts
    <3>5. CASE Confirms(o) \/ KeepsWaiting(o)
      <4>1. tick'.abort = "none"
        BY <2>3, <3>3, <3>5 DEF Confirms, KeepsWaiting
      <4>2. KeepsWaiting(o) => tick'.evidence
        BY <2>1, <3>3
      <4> QED
        BY <1>1, <1>4, <3>1, <3>3, <3>5, <4>1, <4>2, CheckGoesOn
    <3> QED
      BY <2>1, <3>4, <3>5
  <2> QED
    BY <2>2, <2>3
<1> QED
  BY <1>2, <1>3, <1>4

\* The batched read is given up, and with it a command it would have checked.
LEMMA AbandonReadKeeps ==
    ASSUME IInv, pc = "reading", NEW reason \in Aborts, AbandonRead(reason),
           signal' \in BOOLEAN
    PROVE  IInv'
<1>1. /\ UNCHANGED <<call, time, eng, plant, tick>> /\ Live
      /\ pc' = "done" /\ result' = reason
  BY DEF AbandonRead, Return, Live
<1>2. CASE pend.on
  <2>1. PICK o \in GiveUp("unverified", reason) : Track(o)
    BY <1>2 DEF AbandonRead
  <2> QED
    BY <1>1, <1>2, <2>1, GiveUpEnds
<1>3. CASE ~ pend.on
  <2>1. result' \in Results \ {"invariant"} /\ result' # "completed"
    BY <1>1 DEF Results, Aborts
  <2>2. UNCHANGED tracker
    BY <1>3 DEF AbandonRead
  <2> QED
    BY <1>1, <2>1, <2>2, LoopEnds
<1> QED
  BY <1>2, <1>3

LEMMA ReadCancelledKeeps == ASSUME IInv, ReadCancelled PROVE IInv'
  BY AbandonReadKeeps DEF ReadCancelled, Aborts

LEMMA ReadTimedOutKeeps == ASSUME IInv, ReadTimedOut PROVE IInv'
  BY AbandonReadKeeps DEF ReadTimedOut, Aborts, IInv, TypeOK

\* A poor PV or a failed MV check ends the run.
LEMMA TickAbortsKeeps == ASSUME IInv, TickAborts PROVE IInv'
<1>1. UNCHANGED <<eng, plant, time, tick, call, tracker>> /\ signal' \in BOOLEAN
  BY DEF IInv, TypeOK, TickAborts
<1>2. tick.abort \in Aborts \cup {"none"}
  BY DEF IInv, TypeOK
<1>3. pc' = "done" /\ result' \in Results \ {"invariant"} /\ result' # "completed"
  BY <1>2 DEF TickAborts, ReturnAfterSample, Return, Results, Aborts
<1> QED
  BY <1>1, <1>3, LoopEnds

\* A tick that changes nothing, or ends the finished test.
LEMMA TickInPreDelayKeeps == ASSUME IInv, TickInPreDelay PROVE IInv'
<1>1. /\ UNCHANGED <<eng, plant, time, tick, call, tracker>> /\ UNCHANGED signal
      /\ signal' \in BOOLEAN /\ pc = "tick" /\ Live
  BY DEF IInv, TypeOK, TickInPreDelay, Usable, Live
<1>2. CASE pc' = "select" /\ UNCHANGED result
  BY <1>1, <1>2, TickGoesOn
<1>3. CASE Return("error")
  <2>1. pc' = "done" /\ result' \in Results \ {"invariant"} /\ result' # "completed"
    BY <1>3 DEF Return, Results
  <2> QED
    BY <1>1, <2>1, LoopEnds
<1> QED
  BY <1>2, <1>3 DEF TickInPreDelay, ContinueAfterSample

LEMMA TickHoldsKeeps == ASSUME IInv, TickHolds PROVE IInv'
<1>1. /\ UNCHANGED <<eng, plant, time, tick, call, tracker>> /\ UNCHANGED signal
      /\ signal' \in BOOLEAN /\ pc = "tick" /\ Live
  BY DEF IInv, TypeOK, TickHolds, Evaluates, Usable, Live
<1>2. CASE pc' = "select" /\ UNCHANGED result
  BY <1>1, <1>2, TickGoesOn
<1>3. CASE Return("error")
  <2>1. pc' = "done" /\ result' \in Results \ {"invariant"} /\ result' # "completed"
    BY <1>3 DEF Return, Results
  <2> QED
    BY <1>1, <2>1, LoopEnds
<1>4. CASE Return("completed") /\ Completed
  <2>1. commanded = "ini" /\ (pend.on \/ confirmed = "ini")
    <3>1. eng.n > 0 /\ EngineOK /\ PlantOK
      BY <1>4, Times DEF IInv, Completed
    <3> QED
      BY <1>1, <1>4, <3>1 DEF EngineOK, PlantOK
  <2>2. pc' = "done" /\ result' = "completed" /\ result' \in Results \ {"invariant"}
    BY <1>4 DEF Return, Results
  <2> QED
    BY <1>1, <2>1, <2>2, LoopEnds
<1> QED
  BY <1>2, <1>3, <1>4 DEF TickHolds, ContinueAfterSample, ReturnAfterSample

\* A switch that would replace a pending command ends the run instead.
LEMMA TickRejectsReplacementKeeps == ASSUME IInv, TickRejectsReplacement PROVE IInv'
<1>1. /\ UNCHANGED <<call, time, eng, plant, tick>> /\ signal' \in BOOLEAN
      /\ pc = "tick" /\ pend.on /\ Live
  BY DEF IInv, TypeOK, TickRejectsReplacement, Evaluates, Usable, Live
<1>2. tick.evidence
  BY <1>1 DEF IInv, TickOK
<1> DEFINE status == IF pend.seen THEN "failed" ELSE "unverified"
<1>3. PICK o \in GiveUp(status, "unconfirmed") : Track(o) /\ ReturnAfterSample(o.reason)
  BY <1>2 DEF TickRejectsReplacement
<1>4. status \in {"failed", "unverified"} /\ "unconfirmed" \in Aborts
  BY DEF Aborts
<1> HIDE DEF status
<1>5. pc' = "done" /\ result' \in {"unconfirmed", "error"}
  BY <1>3, <1>4, GiveUpGivesUp DEF ReturnAfterSample, Return
<1> QED
  BY <1>1, <1>3, <1>4, <1>5, GiveUpEnds

\* A switch starts a write: every command before it is confirmed and in place,
\* and the value it asks for is a new one.
LEMMA SwitchTarget ==
    ASSUME IInv, TickSwitches
    PROVE  /\ plant.mv = commanded /\ plant.flight = {} /\ commanded = eng.mv
           /\ AllConfirmed /\ eng.n = Len(rows) /\ ~ pend.on /\ eng.n < Switches
           /\ eng.n + 1 = Switches => NextTargets = {"ini"} /\ eng.mv # "ini"
           /\ eng.n + 1 # Switches => NextTargets = {"high", "low"} \ {eng.mv}
<1>1. Live /\ ~ pend.on /\ ~ Completed /\ pc = "tick"
  BY DEF TickSwitches, Evaluates, Usable, MaySwitch, Live
<1>2. EngineOK /\ CountsOK /\ PlantOK /\ eng.n \in Nat /\ eng.n <= Switches
  BY Typed DEF IInv
<1>3. eng.n < Switches
  BY <1>1, <1>2, Times DEF Completed
<1>4. eng.n + 1 = Switches => eng.mv # "ini"
  BY <1>1, <1>2, Times DEF EngineOK
<1> QED
  BY <1>1, <1>2, <1>3, <1>4 DEF CountsOK, PlantOK, NextTargets

LEMMA TickSwitchesKeeps == ASSUME IInv, TickSwitches PROVE IInv'
<1>1. PICK v \in NextTargets : /\ eng' = Switched(v)
                               /\ plant' = [plant EXCEPT !.flight = @ \cup {v}]
  BY DEF TickSwitches
<1>2. /\ plant.mv = commanded /\ plant.flight = {} /\ commanded = eng.mv
      /\ AllConfirmed /\ eng.n = Len(rows) /\ ~ pend.on /\ eng.n < Switches
      /\ eng.n + 1 = Switches => v = "ini" /\ eng.mv # "ini"
      /\ eng.n + 1 # Switches => v \in {"high", "low"} \ {eng.mv}
  BY SwitchTarget
<1>3. /\ pc' = "writing" /\ NewCall("op", OpTimeout, "scheduled")
      /\ UNCHANGED <<toPoll, toTimeout, pre, signal, tracker, tick, result>>
      /\ post' = IF eng.n + 1 = Switches THEN Delay ELSE post
      /\ ~ Completed
  BY DEF TickSwitches, MaySwitch
<1>4. TypeOK /\ AssertionsHold /\ eng.n \in Nat
  BY Typed DEF IInv
<1>5. v \in MV /\ v # eng.mv
  BY <1>2 DEF MV
<1>6. /\ eng' \in EngRec /\ eng'.n = eng.n + 1 /\ eng'.mv = v
      /\ eng'.n > 0 /\ (v = "ini" <=> Completed')
  <2>1. eng.n + 1 \in 0..Switches /\ Noise \in 0..Noise
    BY <1>2, <1>4, Times
  <2> QED
    BY <1>1, <1>2, <1>4, <1>5, <2>1 DEF Switched, EngRec, Completed
<1>7. /\ plant' \in [mv: MV, flight: SUBSET MV]
      /\ plant'.mv = plant.mv /\ plant'.flight = {v}
  BY <1>1, <1>2, <1>4, <1>5 DEF TypeOK
<1>8. call' \in CallRec /\ call'.age = 0 /\ call'.left = OpTimeout
  BY <1>3, NewCallTyped, Times
<1>9. TypeOK'
  <2>1. post' \in 0..Delay
    BY <1>3, <1>4, Times DEF TypeOK
  <2> QED
    BY <1>3, <1>4, <1>6, <1>7, <1>8, <2>1
    DEF TypeOK, InCall, tracker, CallRec, EngRec
<1>10. EngineOK'
  BY <1>6 DEF EngineOK
<1>11. CountsOK'
  BY <1>2, <1>3, <1>6 DEF CountsOK, AllConfirmed, AllButLastConfirmed, Live, tracker
<1>12. PlantOK'
  <2>1. confirmed' # "ini"
    BY <1>3 DEF IInv, PlantOK, tracker
  <2> QED
    BY <1>2, <1>3, <1>5, <1>6, <1>7, <2>1 DEF PlantOK, OnItsWay, Live, tracker
<1>13. AgesOK' /\ TickOK' /\ UnconfirmedIsBounded'
  BY <1>2, <1>3, <1>8, Times DEF AgesOK, TickOK, UnconfirmedIsBounded, InCall, tracker
<1>14. AssertionsHold' /\ HandOff'
  BY <1>3, <1>4 DEF AssertionsHold, HandOff
<1> QED
  BY <1>9, <1>10, <1>11, <1>12, <1>13, <1>14 DEF IInv

\* An accepted write becomes the pending command, with a row of its own.
LEMMA WriteTracked ==
    ASSUME IInv, pc = "writing",
           pend' = [on |-> TRUE, age |-> 0, seen |-> FALSE,
                    check |-> Least(Confirm, IF call.age >= Noise THEN 0
                                             ELSE Noise - call.age)],
           commanded' = eng.mv, confirmed' = "none", rows' = Append(rows, "pending"),
           UNCHANGED <<call, time, signal, eng, plant, tick>>,
           \/ pc' = "select" /\ UNCHANGED result
           \/ pc' = "done" /\ result' \in {"completed", "error"}
              /\ (result' = "completed" => Completed)
    PROVE  IInv'
<1>1. TypeOK /\ EngineOK /\ CountsOK /\ PlantOK /\ AssertionsHold
  BY DEF IInv
<1>2. /\ rows \in Seq(Status) /\ Len(rows) \in Nat /\ eng.n = Len(rows) + 1 /\ AllConfirmed
      /\ OnItsWay(eng.mv) /\ eng.n > 0
  BY <1>1, Typed DEF CountsOK, PlantOK
<1>3. /\ rows' \in Seq(Status) /\ Len(rows') = Len(rows) + 1
      /\ rows'[Len(rows')] = "pending" /\ rows' # <<>>
      /\ \A i \in DOMAIN rows : rows'[i] = rows[i]
      /\ DOMAIN rows = 1..Len(rows) /\ DOMAIN rows' = 1..(Len(rows) + 1)
  BY <1>2 DEF Status
<1>4. AllButLastConfirmed'
  BY <1>2, <1>3 DEF AllButLastConfirmed, AllConfirmed
<1>5. pend' \in PendRec /\ pend'.on /\ pend'.age = 0
  <2> DEFINE first == Least(Confirm, IF call.age >= Noise THEN 0 ELSE Noise - call.age)
  <2>1. call.age \in Nat /\ Noise \in Nat /\ Confirm \in Nat
    BY <1>1, Typed, Times
  <2>2. first \in 0..Confirm
    BY <2>1 DEF Least
  <2> HIDE DEF first
  <2>3. pend' = [on |-> TRUE, age |-> 0, seen |-> FALSE, check |-> first]
    BY DEF first
  <2> QED
    BY <2>2, <2>3 DEF PendRec
<1>6. TypeOK'
  <2>1. /\ call' \in CallRec /\ eng' \in EngRec /\ tick' \in TickRec
        /\ plant' \in [mv: MV, flight: SUBSET MV] /\ signal' \in BOOLEAN
        /\ commanded' \in MV
    BY <1>1 DEF TypeOK, CallRec, EngRec, TickRec
  <2>2. result' \in Results
    BY <1>1 DEF TypeOK, Results
  <2> QED
    BY <1>1, <1>3, <1>5, <2>1, <2>2, StillTyped
<1>7. EngineOK'
  BY <1>1 DEF EngineOK, Completed
<1>8. CountsOK'
  BY <1>2, <1>3, <1>4, <1>5 DEF CountsOK, Live
<1>9. PlantOK'
  BY <1>2, <1>5 DEF PlantOK, Live, OnItsWay
<1>10. AgesOK' /\ TickOK' /\ UnconfirmedIsBounded'
  BY <1>5, Times DEF AgesOK, TickOK, UnconfirmedIsBounded, InCall, Most
<1>11. AssertionsHold'
  BY <1>1 DEF AssertionsHold
<1>12. HandOff'
  BY <1>1, <1>2, <1>5 DEF HandOff, EngineOK, Completed, OnItsWay
<1> QED
  BY <1>6, <1>7, <1>8, <1>9, <1>10, <1>11, <1>12 DEF IInv

LEMMA WriteAcceptedKeeps == ASSUME IInv, WriteAccepted PROVE IInv'
<1>1. pc = "writing" /\ UNCHANGED <<call, time, signal, eng, plant, tick>>
      /\ signal' \in BOOLEAN
  BY DEF IInv, TypeOK, WriteAccepted
<1>2. CASE Return("error") /\ UNCHANGED tracker
  <2>1. pc' = "done" /\ result' \in Results \ {"invariant"} /\ result' # "completed"
    BY <1>2 DEF Return, Results
  <2> QED
    BY <1>1, <1>2, <2>1, LoopEnds
<1>3. CASE /\ pend' = [on |-> TRUE, age |-> 0, seen |-> FALSE,
                       check |-> Least(Confirm, IF call.age >= Noise THEN 0
                                                ELSE Noise - call.age)]
           /\ commanded' = eng.mv
           /\ confirmed' = "none"
           /\ rows' = Append(rows, "pending")
           /\ IF Completed /\ Delay = 0 THEN ReturnAfterSample("completed")
              ELSE ContinueAfterSample
  <2>1. \/ pc' = "select" /\ UNCHANGED result
        \/ pc' = "done" /\ result' \in {"completed", "error"}
           /\ (result' = "completed" => Completed)
    BY <1>3 DEF ReturnAfterSample, ContinueAfterSample, Return
  <2> QED
    BY <1>1, <1>3, <2>1, WriteTracked
<1> QED
  BY <1>2, <1>3 DEF WriteAccepted

\* The write failed: its value may still be on its way, or not.
LEMMA WriteFailsKeeps == ASSUME IInv, WriteFails PROVE IInv'
<1>1. /\ pc = "writing" /\ pc' = "done" /\ result' = "error"
      /\ UNCHANGED <<call, time, signal, eng, tracker, tick>>
  BY DEF WriteFails, Return
<1>2. PICK f \in {plant.flight, plant.flight \ {eng.mv}} : plant' = [plant EXCEPT !.flight = f]
  BY DEF WriteFails
<1>3. TypeOK /\ EngineOK /\ CountsOK /\ PlantOK
  BY DEF IInv
<1>4. /\ plant' \in [mv: MV, flight: SUBSET MV] /\ plant'.mv = plant.mv
      /\ plant'.flight \subseteq plant.flight
  BY <1>2, <1>3 DEF TypeOK
<1>5. ~ pend.on /\ ~ pend'.on
  BY <1>1, <1>3 DEF PlantOK, tracker
<1>6. TypeOK'
  <2>1. /\ call' \in CallRec /\ eng' \in EngRec /\ tick' \in TickRec /\ pend' \in PendRec
        /\ commanded' \in MV /\ confirmed' \in MV \cup {"none"}
        /\ rows' \in Seq(Status) /\ signal' \in BOOLEAN
    BY <1>1, <1>3 DEF TypeOK, CallRec, EngRec, TickRec, PendRec, tracker
  <2>2. result' \in Results
    BY <1>1 DEF Results
  <2> QED
    BY <1>1, <1>3, <1>4, <2>1, <2>2, StillTyped
<1>7. EngineOK' /\ CountsOK'
  BY <1>1, <1>3, <1>5 DEF EngineOK, CountsOK, Completed, Live, AllConfirmed,
                          AllButLastConfirmed, tracker
<1>8. PlantOK'
  BY <1>1, <1>3, <1>4, <1>5 DEF PlantOK, Live, Completed, tracker
<1>9. AgesOK' /\ TickOK' /\ UnconfirmedIsBounded' /\ AssertionsHold' /\ HandOff'
  BY <1>1, <1>5 DEF AgesOK, TickOK, UnconfirmedIsBounded, InCall, AssertionsHold, HandOff
<1> QED
  BY <1>6, <1>7, <1>8, <1>9 DEF IInv

LEMMA WriteAbandonedKeeps == ASSUME IInv, WriteAbandoned PROVE IInv'
<1>1. UNCHANGED <<eng, plant, time, tick, call, tracker>> /\ signal' \in BOOLEAN
  BY DEF IInv, TypeOK, WriteAbandoned
<1>2. pc' = "done" /\ result' \in Results \ {"invariant"} /\ result' # "completed"
  BY DEF WriteAbandoned, ReturnAfterSample, Return, Results, Aborts
<1> QED
  BY <1>1, <1>2, LoopEnds

-----------------------------------------------------------------------------
(* The theorems *)

LEMMA InitIInv == Init => IInv
<1> SUFFICES ASSUME Init PROVE IInv
  OBVIOUS
<1>1. pc = "select" /\ pend = NoPending /\ rows = <<>> /\ eng.n = 0 /\ eng.mv = "ini"
      /\ confirmed = "none" /\ commanded = "ini" /\ plant.mv = "ini" /\ plant.flight = {}
      /\ result = "none" /\ Len(rows) = 0 /\ DOMAIN rows = {}
  BY DEF Init
<1>2. TypeOK
  <2>1. call \in CallRec /\ pend \in PendRec /\ eng \in EngRec /\ tick \in TickRec
    BY NoPendingIsTyped, Times DEF Init, NoCall, CallRec, EngRec, NoTick, TickRec, MV
  <2>2. /\ toPoll \in 0..PollInterval /\ toTimeout \in 0..RunTimeout
        /\ pre \in 0..Delay /\ post \in 0..Delay
    BY Times DEF Init
  <2>3. rows \in Seq(Status) /\ plant \in [mv: MV, flight: SUBSET MV]
    BY DEF Init, MV
  <2> QED
    BY <1>1, <2>1, <2>2, <2>3
    DEF TypeOK, Init, CallRec, PendRec, EngRec, TickRec, MV, Results
<1>3. ~ pend.on
  BY <1>1, NoPendingIsTyped
<1>4. EngineOK /\ CountsOK
  BY <1>1, <1>3 DEF EngineOK, CountsOK, AllConfirmed, AllButLastConfirmed, Live
<1>5. PlantOK /\ AgesOK /\ TickOK /\ UnconfirmedIsBounded /\ AssertionsHold /\ HandOff
  BY <1>1, <1>3 DEF PlantOK, AgesOK, TickOK, UnconfirmedIsBounded, AssertionsHold, HandOff,
                    InCall, Live
<1> QED
  BY <1>2, <1>4, <1>5 DEF IInv

LEMMA StutterKeeps == ASSUME IInv, UNCHANGED vars PROVE IInv'
<1>1. TypeOK' /\ EngineOK' /\ CountsOK' /\ PlantOK'
  BY DEF IInv, TypeOK, EngineOK, CountsOK, PlantOK, Completed, Live, AllConfirmed,
         AllButLastConfirmed, OnItsWay, vars, time, tracker
<1>2. AgesOK' /\ TickOK' /\ UnconfirmedIsBounded' /\ AssertionsHold' /\ HandOff'
  BY DEF IInv, AgesOK, TickOK, UnconfirmedIsBounded, AssertionsHold, HandOff, Completed,
         InCall, vars, time, tracker
<1> QED
  BY <1>1, <1>2 DEF IInv

LEMMA NextIInv == IInv /\ [Next]_vars => IInv'
<1> SUFFICES ASSUME IInv, [Next]_vars PROVE IInv'
  OBVIOUS
<1>1. CASE Select
  BY <1>1, SelectVerificationKeeps, SelectPollKeeps, SelectEndsKeeps DEF Select
<1>2. CASE Verify
  BY <1>2, VerifyReturnsKeeps, VerifyCancelledKeeps, VerifyLimitKeeps DEF Verify
<1>3. CASE Read
  BY <1>3, ReadFailsKeeps, ReadReturnsKeeps, ReadCancelledKeeps, ReadTimedOutKeeps DEF Read
<1>4. CASE Tick
  BY <1>4, TickAbortsKeeps, TickInPreDelayKeeps, TickHoldsKeeps,
     TickRejectsReplacementKeeps,
     TickSwitchesKeeps DEF Tick
<1>5. CASE Write
  BY <1>5, WriteAcceptedKeeps, WriteFailsKeeps, WriteAbandonedKeeps DEF Write
<1>6. CASE Advance \/ Land \/ PressCtrlC
  BY <1>6, AdvanceKeeps, LandKeeps, PressKeeps
<1>7. CASE Returned \/ UNCHANGED vars
  BY <1>7, StutterKeeps DEF Returned
<1> QED
  BY <1>1, <1>2, <1>3, <1>4, <1>5, <1>6, <1>7 DEF Next, Code

\* The counts, ages and beliefs of the polling loop fit together at every point
\* of it, whatever the driver answers and when (poll.rs, actuation.rs).
THEOREM Invariance == Spec => []IInv
  BY InitIInv, NextIInv, PTL DEF Spec

\* The engine, the pending confirmation and the audit rows stay in step, a
\* command is unconfirmed for a bounded time, and no assertion of the loop
\* fails (poll.rs, actuation.rs), whatever stalls, fails or is interrupted.
THEOREM ViewsStayInStep == Spec => []ConfirmationSound
<1>1. IInv => AuditFollowsTracker
  BY DEF IInv, CountsOK, AuditFollowsTracker, AllButLastConfirmed
<1>2. IInv => ConfirmationSound
  BY <1>1, EngineIsBehind DEF IInv, ConfirmationSound
<1> QED
  BY <1>2, Invariance, PTL

\* The restore may trust what the polling loop leaves behind: a confirmed
\* snapback is where the plant is and stays, a completed test has its snapback
\* confirmed or pending, and nothing else is on its way under a pending one.
THEOREM RestoreMayTrust == Spec => []RestoreHandOff
<1>1. IInv => SkippedRestoreIsSafe
  BY DEF IInv, PlantOK, SkippedRestoreIsSafe
<1>2. IInv => RestoreHandOff
  BY <1>1 DEF IInv, RestoreHandOff
<1> QED
  BY <1>2, Invariance, PTL

\* The step of the loop that starts a write.
LEMMA OnlySwitchesWrite ==
    ASSUME Next, pc # "writing", pc' = "writing" PROVE TickSwitches
  BY DEF Next, Code, Select, Verify, Read, Tick, Write, SelectVerification, SelectPoll,
         SelectCtrlC, SelectTimeout, VerifyReturns, GoOnUnless, VerifyCancelled, VerifyLimit,
         ReadFails, ReadReturns, ReadCancelled, ReadTimedOut, AbandonRead, TickAborts,
         TickInPreDelay, TickHolds, TickRejectsReplacement, WriteAccepted, WriteFails,
         WriteAbandoned, Advance, Land, PressCtrlC, Returned, Return, ReturnAfterSample,
         ContinueAfterSample, vars

\* A check changes what is confirmed only for a readback within the window.
LEMMA ChecksConfirmInTime ==
    ASSUME TypeOK, pend.on, NEW read \in {"error", "bad", "value"}, NEW trigger,
           NEW o \in Resolve(read, trigger), Track(o), confirmed' # confirmed
    PROVE  pend.age <= Confirm
  BY ResolveOutcomes DEF Track, GivesUp, Confirms, KeepsWaiting

LEMMA GiveUpConfirmsNothing ==
    ASSUME NEW status \in {"failed", "unverified"}, NEW reason,
           NEW o \in GiveUp(status, reason), Track(o)
    PROVE  confirmed' = confirmed
  BY DEF GiveUp, Outcome, Track

\* Which steps may confirm a command.
LEMMA OnlyChecksConfirm ==
    ASSUME IInv, Next, confirmed' # confirmed, confirmed' # "none"
    PROVE  pend.on /\ pend.age <= Confirm
<1>1. TypeOK /\ AgesOK
  BY DEF IInv
<1>2. CASE VerifyReturns
  <2>1. pend.on
    BY <1>1, <1>2 DEF VerifyReturns, AgesOK
  <2>2. PICK read \in {"error", "bad", "value"} :
          \E o \in Resolve(read, call.trigger) : Track(o)
    BY <1>2 DEF VerifyReturns
  <2> QED
    BY <1>1, <2>1, <2>2, ChecksConfirmInTime
<1>3. CASE ReadReturns
  <2>1. pend.on
    BY <1>3 DEF ReadReturns, tracker
  <2>2. PICK read \in {"error", "bad", "value"} :
          \E o \in Resolve(read, "scheduled") : Track(o)
    BY <1>3, <2>1 DEF ReadReturns
  <2> QED
    BY <1>1, <2>1, <2>2, ChecksConfirmInTime
<1>4. ~ VerifyCancelled
  BY GiveUpConfirmsNothing DEF VerifyCancelled
<1>5. ~ VerifyLimit
  BY GiveUpConfirmsNothing DEF VerifyLimit, tracker
<1>6. ~ ReadCancelled /\ ~ ReadTimedOut
  BY GiveUpConfirmsNothing DEF ReadCancelled, ReadTimedOut, AbandonRead, tracker
<1>7. ~ TickRejectsReplacement
  BY GiveUpConfirmsNothing DEF TickRejectsReplacement, tracker
<1>8. ~ Select
  BY DEF Select, SelectVerification, SelectPoll, SelectCtrlC, SelectTimeout, tracker
<1>9. ~ ReadFails /\ ~ TickAborts /\ ~ TickInPreDelay /\ ~ TickHolds /\ ~ TickSwitches
  BY DEF ReadFails, TickAborts, TickInPreDelay, TickHolds, TickSwitches, tracker
<1>10. ~ Write
  BY DEF Write, WriteAccepted, WriteFails, WriteAbandoned, tracker
<1>11. ~ Advance /\ ~ Land /\ ~ PressCtrlC /\ ~ Returned
  BY DEF Advance, Land, PressCtrlC, Returned, vars, tracker
<1> QED
  BY <1>2, <1>3, <1>4, <1>5, <1>6, <1>7, <1>8, <1>9, <1>10, <1>11
  DEF Next, Code, Verify, Read, Tick

\* No relay step starts before the readback of the last one, and no readback
\* counts after its window (poll.rs, actuation.rs).
THEOREM StepsAreConfirmedInTime == Spec => ConfirmationOrder
<1>1. IInv /\ [Next]_vars =>
        [pc # "writing" /\ pc' = "writing" => plant.mv = commanded /\ plant.flight = {}]_vars
  BY OnlySwitchesWrite, SwitchTarget DEF vars
<1>2. IInv /\ [Next]_vars =>
        [confirmed' # "none" /\ confirmed # confirmed' => pend.on /\ pend.age <= Confirm]_vars
  BY OnlyChecksConfirm DEF vars, tracker
<1> QED
  BY <1>1, <1>2, Invariance, PTL
  DEF Spec, ConfirmationOrder, StepsFromConfirmedMv, ConfirmedInTime
=============================================================================
