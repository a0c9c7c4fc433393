------------------------------ MODULE TunePoll ------------------------------
(***************************************************************************)
(* The polling loop of one OPC DA tune (bhtune-runtime tune/poll.rs) and   *)
(* the tracker that makes every accepted MV command wait for physical      *)
(* confirmation (tune/actuation.rs).                                       *)
(*                                                                         *)
(* Time is discrete and every deadline is kept as what is left of it, so   *)
(* the model needs no clock: Advance is the only action that lets time     *)
(* pass, and it may do so only where the code is really waiting.  The      *)
(* engine is reduced to what the loop sees of it (MrftEngine models it in  *)
(* full): a count of switches, the hold-off after a switch and the MV it   *)
(* asks for; whether the PV calls for a switch is free.  The plant moves   *)
(* its MV some time after a write reached it, or never.                    *)
(***************************************************************************)
EXTENDS Integers, Sequences, FiniteSets

CONSTANTS
    PollInterval,   \* [tuning].poll_interval_ms
    OpTimeout,      \* [tuning].op_timeout_secs
    RunTimeout,     \* [tuning].timeout_secs
    Confirm,        \* MV_ACTUATION_CONFIRMATION_SECS
    Headroom,       \* MV_ACTUATION_FALLBACK_HEADROOM
    DeadlineRead,   \* MV_ACTUATION_DEADLINE_READ_MAX
    Noise,          \* noise_protection_secs
    Delay,          \* [tuning].mrft_delay_secs, the padding before and after
    Switches,       \* num_cycles_skip * 2 + 1 + num_cycles_count * 2
    MinLatency,     \* the fastest answer of the driver
    MaxLatency      \* the slowest one; a call that takes longer never answers

ASSUME TimesAssumption ==
    /\ {PollInterval, OpTimeout, RunTimeout, Confirm, Headroom, DeadlineRead}
         \subseteq Nat \ {0}
    /\ {Noise, Delay, MinLatency, MaxLatency} \subseteq Nat
    /\ Headroom <= Confirm

\* Every accepted configuration counts at least one cycle, so has an odd
\* number of switches above 2.
ASSUME SwitchesAssumption == Switches \in Nat /\ Switches >= 3

VARIABLES
    pc,         \* where the loop is; "done" once it has returned
    call,       \* the driver call in flight: its age and what is left of its limit
    toPoll,     \* time to next_poll_at
    toTimeout,  \* time to the whole-run timeout
    signal,     \* a Ctrl+C that CtrlC::signalled has not delivered yet
    eng,        \* MrftEngine: counter_all_switches, hold-off left, mv_value_current
    pre,        \* time to pre_delay_end
    post,       \* time to post_delay_end
    pend,       \* MvActuationTracker::pending
    commanded,  \* MvActuationTracker::previous_commanded_mv
    confirmed,  \* MvActuationTracker::confirmed_mv
    rows,       \* tune_mv_actuations: the status of each accepted command
    plant,      \* the MV, and the written values that may still reach it
    tick,       \* what the batched read of this tick left behind
    result      \* PollOutcome

time == <<toPoll, toTimeout, pre, post>>
tracker == <<pend, commanded, confirmed, rows>>
vars == <<pc, call, time, signal, eng, tracker, plant, tick, result>>

MV == {"ini", "high", "low"}
Status == {"pending", "confirmed", "failed", "unverified"}
Aborts == {"interrupt", "timeout", "op_timeout", "quality", "unconfirmed"}
Results == Aborts \cup {"none", "completed", "error", "invariant"}
InCall == {"reading", "verifying", "writing"}

NoPending == [on |-> FALSE, age |-> 0, check |-> 0, seen |-> FALSE]
NoTick == [pv |-> "good", abort |-> "none", evidence |-> FALSE]
NoCall == [age |-> 0, left |-> 0, limit |-> "op", trigger |-> "scheduled"]

Least(a, b) == IF a <= b THEN a ELSE b
Most(a, b) == IF a >= b THEN a ELSE b
Down(n) == IF n = 0 THEN 0 ELSE n - 1

TypeOK ==
    /\ pc \in {"select", "tick", "done"} \cup InCall
    /\ call \in [age: 0..OpTimeout, left: 0..OpTimeout,
                 limit: {"op", "confirmation", "deadline"},
                 trigger: {"scheduled", "deadline"}]
    /\ toPoll \in 0..PollInterval /\ toTimeout \in 0..RunTimeout
    /\ signal \in BOOLEAN
    /\ eng \in [n: 0..Switches, hold: 0..Noise, mv: MV]
    /\ pre \in 0..Delay /\ post \in 0..Delay
    /\ pend \in [on: BOOLEAN, age: Nat, check: 0..Confirm, seen: BOOLEAN]
    /\ commanded \in MV /\ confirmed \in MV \cup {"none"}
    /\ rows \in Seq(Status)
    /\ plant \in [mv: MV, flight: SUBSET MV]
    /\ tick \in [pv: {"good", "bad", "error"}, abort: Aborts \cup {"none"},
                 evidence: BOOLEAN]
    /\ result \in Results

-----------------------------------------------------------------------------
(* The tracker *)

Completed == eng.n = Switches

\* Mutant of WakeupDue: once a readback missed, only the polls look again.
WakeupDueUnlessSeen(p) ==
    /\ p.on
    /\ ~ p.seen
    /\ p.age >= Most(p.check, Confirm - Headroom)

\* next_verification_wakeup: a read has already been seen, so only the
\* deadline is left; or the fallback shortly before it.
WakeupDue(p) ==
    /\ p.on
    /\ p.age >= IF p.seen THEN Confirm ELSE Most(p.check, Confirm - Headroom)

\* Mutant of Trigger: the deadline itself is not yet due.
TriggerAfterDeadline(p) == IF p.age > Confirm THEN "deadline"
                           ELSE IF ~ p.seen /\ p.age >= p.check THEN "scheduled"
                           ELSE "none"

\* verification_trigger
Trigger(p) == IF p.age >= Confirm THEN "deadline"
              ELSE IF ~ p.seen /\ p.age >= p.check THEN "scheduled"
              ELSE "none"

\* What one check does to the tracker, to the row of the pending command and
\* to the run: the set of its outcomes, one for each outcome of the database.
Outcome(p, c, row, reason) == [pend |-> p, confirmed |-> c, row |-> row, reason |-> reason]

\* The pending command is taken and its row finalized best-effort.
GiveUp(status, reason) ==
    {Outcome(NoPending, confirmed, row, reason) : row \in {status, "pending"}}

\* Mutant of Finalize: a match counts whenever it is seen.
FinalizeLate(matches, trigger) ==
    IF matches
    THEN {Outcome(NoPending, commanded, "confirmed", "none")}
    ELSE IF trigger = "deadline" \/ pend.age >= Confirm
    THEN GiveUp("failed", "unconfirmed")
    ELSE {Outcome([pend EXCEPT !.seen = TRUE], confirmed, "pending", "none")}

\* Mutant of Finalize: a match counts although its row could not be stored.
FinalizeUnstored(matches, trigger) ==
    IF pend.age > Confirm THEN GiveUp("failed", "unconfirmed")
    ELSE IF matches
    THEN {Outcome(NoPending, commanded, row, "none") : row \in {"confirmed", "pending"}}
    ELSE IF trigger = "deadline" \/ pend.age >= Confirm
    THEN GiveUp("failed", "unconfirmed")
    ELSE {Outcome([pend EXCEPT !.seen = TRUE], confirmed, "pending", "none")}

\* Mutant of Finalize: an accepted command needs no matching readback.
FinalizeTrusting(matches, trigger) ==
    {Outcome(NoPending, commanded, "confirmed", "none")}

\* finalize_pending_mv_verification under ActuationAuditPolicy::Required: a
\* match is stored before it counts (the command stays pending when that
\* fails), and a miss whose observation cannot be stored ends the run.
Finalize(matches, trigger) ==
    IF pend.age > Confirm THEN GiveUp("failed", "unconfirmed")
    ELSE IF matches
    THEN {Outcome(NoPending, commanded, "confirmed", "none"),
          Outcome(pend, confirmed, "pending", "error")}
    ELSE IF trigger = "deadline" \/ pend.age >= Confirm
    THEN GiveUp("failed", "unconfirmed")
    ELSE {Outcome([pend EXCEPT !.seen = TRUE], confirmed, "pending", "none"),
          Outcome(NoPending, confirmed, "pending", "error")}

\* resolve_pending_mv_read of a read that returned.
Resolve(read, trigger) ==
    CASE read = "error" -> GiveUp("unverified", "error")
      [] read = "bad"   -> GiveUp("unverified", "quality")
      [] read = "value" -> Finalize(plant.mv = commanded, trigger)

\* The outcome o of a check is stored.
Track(o) ==
    /\ pend' = o.pend
    /\ confirmed' = o.confirmed
    /\ rows' = [rows EXCEPT ![Len(rows)] = o.row]
    /\ UNCHANGED commanded

Return(reason) == pc' = "done" /\ result' = reason

\* The run ends for reason, or with the error of a failed sample insert.
ReturnAfterSample(reason) == \E r \in {reason, "error"} : Return(r)

\* The loop goes back to its select, or ends with the error of the insert.
ContinueAfterSample ==
    \/ pc' = "select" /\ UNCHANGED result
    \/ Return("error")

-----------------------------------------------------------------------------
(* The biased select: wakeup, poll, Ctrl+C, whole-run timeout *)

NewCall(limit, left, trigger) ==
    call' = [age |-> 0, left |-> left, limit |-> limit, trigger |-> trigger]

\* A bounded call whose own limit is d: which of the two ends it first.
Bounded(kind, d, trigger) ==
    \/ d <= OpTimeout /\ NewCall(kind, d, trigger)
    \/ OpTimeout <= d /\ NewCall("op", OpTimeout, trigger)

\* mv_verification_read_limit without a restore deadline.
StartRead(trigger) ==
    IF trigger = "deadline" THEN Bounded("deadline", DeadlineRead, trigger)
    ELSE Bounded("confirmation", Confirm - pend.age, trigger)

SelectVerification ==
    /\ pc = "select" /\ WakeupDue(pend)
    /\ \/ /\ Trigger(pend) = "none"
          /\ Return("invariant")
          /\ UNCHANGED call
       \/ /\ Trigger(pend) # "none"
          /\ pc' = "verifying"
          /\ StartRead(Trigger(pend))
          /\ UNCHANGED result
    /\ UNCHANGED <<time, signal, eng, tracker, plant, tick>>

SelectPoll ==
    /\ pc = "select" /\ ~ WakeupDue(pend) /\ toPoll = 0
    /\ pc' = "reading"
    /\ toPoll' = PollInterval
    /\ NewCall("op", OpTimeout, "scheduled")
    /\ UNCHANGED <<toTimeout, pre, post, signal, eng, tracker, plant, tick, result>>

SelectCtrlC ==
    /\ pc = "select" /\ ~ WakeupDue(pend) /\ toPoll > 0 /\ signal
    /\ signal' = FALSE
    /\ Return("interrupt")
    /\ UNCHANGED <<call, time, eng, tracker, plant, tick>>

\* Mutant of SelectTimeout: the whole-run timeout is only looked at with a
\* finished test.
SelectTimeoutWhenCompleted ==
    /\ pc = "select" /\ ~ WakeupDue(pend) /\ toPoll > 0 /\ ~ signal /\ toTimeout = 0
    /\ Completed
    /\ Return("timeout")
    /\ UNCHANGED <<call, time, signal, eng, tracker, plant, tick>>

SelectTimeout ==
    /\ pc = "select" /\ ~ WakeupDue(pend) /\ toPoll > 0 /\ ~ signal /\ toTimeout = 0
    /\ Return("timeout")
    /\ UNCHANGED <<call, time, signal, eng, tracker, plant, tick>>

-----------------------------------------------------------------------------
(* The verification read *)

Answers == call.age >= MinLatency /\ call.age <= MaxLatency

\* What a check decides also decides whether the loop goes on.
GoOnUnless(reason) ==
    IF reason = "none" THEN pc' = "select" /\ UNCHANGED result ELSE Return(reason)

VerifyReturns ==
    /\ pc = "verifying" /\ Answers
    /\ \E read \in {"error", "bad", "value"} :
         \E o \in Resolve(read, call.trigger) : Track(o) /\ GoOnUnless(o.reason)
    /\ UNCHANGED <<call, time, signal, eng, plant, tick>>

VerifyCancelled ==
    /\ pc = "verifying" /\ signal
    /\ signal' = FALSE
    /\ \E o \in GiveUp("unverified", "interrupt") : Track(o) /\ Return(o.reason)
    /\ UNCHANGED <<call, time, eng, plant, tick>>

\* A limit of the read passed: the operation timeout and the window of a
\* deadline read end the run; at the confirmation deadline a fresh read starts.
VerifyLimit ==
    /\ pc = "verifying" /\ call.left = 0
    /\ \/ /\ call.limit = "confirmation"
          /\ StartRead("deadline")
          /\ UNCHANGED <<pc, tracker, result>>
       \/ /\ call.limit \in {"op", "deadline"}
          /\ \E o \in GiveUp("unverified", IF call.limit = "op" THEN "op_timeout"
                                           ELSE "unconfirmed") :
               Track(o) /\ Return(o.reason)
          /\ UNCHANGED call
    /\ UNCHANGED <<time, signal, eng, plant, tick>>

-----------------------------------------------------------------------------
(* The tick: a batched read of the PV, and of the MV while a command is      *)
(* pending; then the engine                                                  *)

ReadFails ==
    /\ pc = "reading" /\ Answers
    /\ Return("error")
    /\ UNCHANGED <<call, time, signal, eng, tracker, plant, tick>>

ReadReturns ==
    /\ pc = "reading" /\ Answers
    /\ \E pv \in {"good", "bad", "error"} :
         \/ /\ ~ pend.on
            /\ tick' = [NoTick EXCEPT !.pv = pv]
            /\ pc' = "tick"
            /\ UNCHANGED <<tracker, result>>
         \/ /\ pend.on
            /\ \E read \in {"error", "bad", "value"} :
                 \E o \in Resolve(read, "scheduled") :
                   /\ Track(o)
                   /\ IF o.reason = "error" THEN Return("error") /\ UNCHANGED tick
                      ELSE /\ tick' = [pv |-> pv, abort |-> o.reason,
                                       evidence |-> read = "value"]
                           /\ pc' = "tick"
                           /\ UNCHANGED result
    /\ UNCHANGED <<call, time, signal, eng, plant>>

\* The read was given up: on Ctrl+C, or after the operation timeout.
AbandonRead(reason) ==
    /\ \/ pend.on /\ \E o \in GiveUp("unverified", reason) : Track(o)
       \/ ~ pend.on /\ UNCHANGED tracker
    /\ Return(reason)
    /\ UNCHANGED <<call, time, eng, plant, tick>>

\* Mutant of ReadCancelled: the signal is consumed, the read goes on.
ReadCancelledIgnored ==
    /\ pc = "reading" /\ signal /\ signal' = FALSE
    /\ UNCHANGED <<pc, call, time, eng, tracker, plant, tick, result>>

ReadCancelled ==
    pc = "reading" /\ signal /\ signal' = FALSE /\ AbandonRead("interrupt")

ReadTimedOut ==
    pc = "reading" /\ call.left = 0 /\ AbandonRead("op_timeout") /\ UNCHANGED signal

\* A PV that is unreadable or of poor quality, then a failed MV check, ends
\* the run: in this order, after the sample was recorded.
TickAborts ==
    /\ pc = "tick"
    /\ \/ tick.pv = "error" /\ Return("error")
       \/ tick.pv = "bad" /\ ReturnAfterSample("quality")
       \/ /\ tick.pv = "good" /\ tick.abort # "none"
          /\ ReturnAfterSample(tick.abort)
    /\ UNCHANGED <<call, time, signal, eng, tracker, plant, tick>>

Usable == pc = "tick" /\ tick.pv = "good" /\ tick.abort = "none"

TickInPreDelay ==
    /\ Usable /\ ~ Completed /\ pre > 0
    /\ ContinueAfterSample
    /\ UNCHANGED <<call, time, signal, eng, tracker, plant, tick>>

Evaluates == Usable /\ (Completed \/ pre = 0)

\* The engine holds: the PV asks for nothing, the hold-off has not passed, or
\* the test is complete and the padding after it is recorded.
TickHolds ==
    /\ Evaluates
    /\ IF Completed /\ post = 0 THEN ReturnAfterSample("completed")
       ELSE ContinueAfterSample
    /\ UNCHANGED <<call, time, signal, eng, tracker, plant, tick>>

\* switch_is_needed may ask for a switch, and perform_switch takes it.
MaySwitch == ~ Completed /\ (eng.n = 0 \/ eng.hold = 0)
NextTargets == IF eng.n + 1 = Switches THEN {"ini"} ELSE {"high", "low"} \ {eng.mv}
Switched(v) == [n |-> eng.n + 1, hold |-> Noise, mv |-> v]

\* Mutant of TickRejectsReplacement: the step is evaluated on the real engine.
TickRejectsOnEngine ==
    /\ Evaluates /\ MaySwitch /\ pend.on
    /\ IF ~ tick.evidence THEN Return("invariant") /\ UNCHANGED <<tracker, eng>>
       ELSE /\ \E o \in GiveUp(IF pend.seen THEN "failed" ELSE "unverified", "unconfirmed") :
                 Track(o) /\ ReturnAfterSample(o.reason)
            /\ \E v \in NextTargets : eng' = Switched(v)
    /\ UNCHANGED <<call, time, signal, plant, tick>>

\* reject_replacement_for_pending_actuation: the switch was evaluated on a
\* clone, so the engine stays where the plant confirmed it.
TickRejectsReplacement ==
    /\ Evaluates /\ MaySwitch /\ pend.on
    /\ IF ~ tick.evidence THEN Return("invariant") /\ UNCHANGED tracker
       ELSE \E o \in GiveUp(IF pend.seen THEN "failed" ELSE "unverified", "unconfirmed") :
              Track(o) /\ ReturnAfterSample(o.reason)
    /\ UNCHANGED <<call, time, signal, eng, plant, tick>>

\* Mutant of TickSwitches: a command that still waits for the plant is replaced.
TickSwitchesAnyway ==
    /\ Evaluates /\ MaySwitch
    /\ \E v \in NextTargets :
         /\ eng' = Switched(v)
         /\ plant' = [plant EXCEPT !.flight = @ \cup {v}]
    /\ post' = IF eng.n + 1 = Switches THEN Delay ELSE post
    /\ pc' = "writing"
    /\ NewCall("op", OpTimeout, "scheduled")
    /\ UNCHANGED <<toPoll, toTimeout, pre, signal, tracker, tick, result>>

\* The engine switches and the MV is written.  The value may reach the plant
\* at any time from here on.  (MutationGuard::mv_written, which the code sets
\* here and never reads, is left out.)
TickSwitches ==
    /\ Evaluates /\ MaySwitch /\ ~ pend.on
    /\ \E v \in NextTargets :
         /\ eng' = Switched(v)
         /\ plant' = [plant EXCEPT !.flight = @ \cup {v}]
    /\ post' = IF eng.n + 1 = Switches THEN Delay ELSE post
    /\ pc' = "writing"
    /\ NewCall("op", OpTimeout, "scheduled")
    /\ UNCHANGED <<toPoll, toTimeout, pre, signal, tracker, tick, result>>

-----------------------------------------------------------------------------
(* The MV write *)

\* Mutant of WriteAccepted: a finished test keeps no track of its snapback.
WriteAcceptedUntracked ==
    /\ pc = "writing" /\ Answers
    /\ pend' = [on |-> ~ Completed, age |-> 0, seen |-> FALSE,
                check |-> Least(Confirm, Noise)]
    /\ commanded' = eng.mv
    /\ confirmed' = "none"
    /\ rows' = Append(rows, "pending")
    /\ ContinueAfterSample
    /\ UNCHANGED <<call, time, signal, eng, plant, tick>>

\* Mutant of WriteAccepted: the first check is not capped by the deadline.
WriteAcceptedUncapped ==
    /\ pc = "writing" /\ Answers
    /\ pend' = [on |-> TRUE, age |-> 0, seen |-> FALSE,
                check |-> IF call.age >= Noise THEN 0 ELSE Noise - call.age]
    /\ commanded' = eng.mv
    /\ confirmed' = "none"
    /\ rows' = Append(rows, "pending")
    /\ ContinueAfterSample
    /\ UNCHANGED <<call, time, signal, eng, plant, tick>>

\* The command was accepted: its row is inserted and it becomes pending.  The
\* confirmation deadline runs from here, the first check from the switch tick.
WriteAccepted ==
    /\ pc = "writing" /\ Answers
    /\ \/ /\ pend' = [on |-> TRUE, age |-> 0, seen |-> FALSE,
                      check |-> Least(Confirm, IF call.age >= Noise THEN 0
                                               ELSE Noise - call.age)]
          /\ commanded' = eng.mv
          /\ confirmed' = "none"
          /\ rows' = Append(rows, "pending")
          /\ IF Completed /\ Delay = 0 THEN ReturnAfterSample("completed")
             ELSE ContinueAfterSample
       \/ Return("error") /\ UNCHANGED tracker
    /\ UNCHANGED <<call, time, signal, eng, plant, tick>>

\* The driver reports an error: the write was rejected, or its fate is unknown.
WriteFails ==
    /\ pc = "writing" /\ Answers
    /\ \E f \in {plant.flight, plant.flight \ {eng.mv}} :
         plant' = [plant EXCEPT !.flight = f]
    /\ Return("error")
    /\ UNCHANGED <<call, time, signal, eng, tracker, tick>>

\* The wait for the write is given up; the write itself is not recalled.
WriteAbandoned ==
    /\ pc = "writing"
    /\ \/ signal /\ signal' = FALSE /\ ReturnAfterSample("interrupt")
       \/ call.left = 0 /\ UNCHANGED signal /\ ReturnAfterSample("op_timeout")
    /\ UNCHANGED <<call, time, eng, tracker, plant, tick>>

-----------------------------------------------------------------------------
(* The plant, the operator and time *)

\* A written value reaches the plant: the MV moves to it.
Land ==
    /\ \E v \in plant.flight : plant' = [mv |-> v, flight |-> plant.flight \ {v}]
    /\ UNCHANGED <<pc, call, time, signal, eng, tracker, tick, result>>

PressCtrlC ==
    /\ ~ signal /\ pc # "done"
    /\ signal' = TRUE
    /\ UNCHANGED <<pc, call, time, eng, tracker, plant, tick, result>>

\* Nothing the select or the bounded call waits for has happened.
Waiting ==
    /\ ~ signal
    /\ \/ pc = "select" /\ ~ WakeupDue(pend) /\ toPoll > 0 /\ toTimeout > 0
       \/ pc \in InCall /\ call.left > 0

Advance ==
    /\ Waiting
    /\ call' = IF pc \in InCall THEN [call EXCEPT !.age = @ + 1, !.left = @ - 1] ELSE call
    /\ toPoll' = Down(toPoll) /\ toTimeout' = Down(toTimeout)
    /\ pre' = Down(pre)
    /\ post' = IF Completed THEN Down(post) ELSE post
    /\ eng' = [eng EXCEPT !.hold = Down(@)]
    /\ pend' = IF pend.on THEN [pend EXCEPT !.age = @ + 1] ELSE pend
    /\ UNCHANGED <<pc, signal, commanded, confirmed, rows, plant, tick, result>>

Returned == pc = "done" /\ UNCHANGED vars

Init ==
    /\ pc = "select" /\ call = NoCall
    /\ toPoll = 0 /\ toTimeout = RunTimeout
    /\ signal \in BOOLEAN
    /\ eng = [n |-> 0, hold |-> Noise, mv |-> "ini"]
    /\ pre = Delay /\ post = 0
    /\ pend = NoPending /\ commanded = "ini" /\ confirmed = "none" /\ rows = <<>>
    /\ plant = [mv |-> "ini", flight |-> {}]
    /\ tick = NoTick /\ result = "none"

Select == SelectVerification \/ SelectPoll \/ SelectCtrlC \/ SelectTimeout
Verify == VerifyReturns \/ VerifyCancelled \/ VerifyLimit
Read == ReadFails \/ ReadReturns \/ ReadCancelled \/ ReadTimedOut
Tick == TickAborts \/ TickInPreDelay \/ TickHolds \/ TickRejectsReplacement \/ TickSwitches
Write == WriteAccepted \/ WriteFails \/ WriteAbandoned
Code == Select \/ Verify \/ Read \/ Tick \/ Write

Next == Code \/ Advance \/ Land \/ PressCtrlC \/ Returned

Spec == Init /\ [][Next]_vars

\* The executor runs the task whenever it is ready, and time passes whenever
\* it is not.  Nothing is assumed of the driver, the plant or the operator.
FairSpec == Spec /\ WF_vars(Code) /\ WF_vars(Advance)

-----------------------------------------------------------------------------
(* Properties *)

\* A relay step starts only from where the plant really is: the write of a
\* new MV begins with the previous command in place and nothing on its way.
StepsFromConfirmedMv ==
    [][pc # "writing" /\ pc' = "writing" => plant.mv = commanded /\ plant.flight = {}]_vars

\* The engine is at most one switch ahead of the physical confirmations, also
\* when a replacement is rejected or a check fails.
EngineBehindPlant ==
    eng.n <= Cardinality({i \in DOMAIN rows : rows[i] = "confirmed"}) + 1

\* A command is unconfirmed for at most the confirmation window and one
\* driver call that was under way when it closed.
UnconfirmedIsBounded ==
    pend.on => pend.age <= Confirm + Most(OpTimeout, DeadlineRead)

\* A command is confirmed only by a readback taken within its window.
ConfirmedInTime ==
    [][confirmed' # "none" /\ confirmed # confirmed' => pend.on /\ pend.age <= Confirm]_vars

\* A command is sent only once the row of the one before it is confirmed, and
\* while the tracker waits for a command its row says pending: no crash leaves
\* a row that claims more, or several rows that claim nothing.
AuditFollowsTracker ==
    /\ \A i \in DOMAIN rows : i < Len(rows) => rows[i] = "confirmed"
    /\ pend.on => rows # <<>> /\ rows[Len(rows)] = "pending"

\* When the loop returns with the final snapback confirmed, the plant is back
\* at its initial MV and stays there: the restore may skip its own write.
SkippedRestoreIsSafe ==
    ~ pend.on /\ confirmed = "ini" => plant.mv = "ini" /\ plant.flight = {}

\* The invariants the code asserts hold.
AssertionsHold == result # "invariant"

\* The three views of a command stay in step: the engine, the pending
\* confirmation and the audit rows, whatever stalls, fails or is interrupted.
ConfirmationSound ==
    /\ TypeOK
    /\ EngineBehindPlant
    /\ UnconfirmedIsBounded
    /\ AuditFollowsTracker
    /\ AssertionsHold

\* No relay step before the readback of the last one, and no readback after
\* its window.
ConfirmationOrder == StepsFromConfirmedMv /\ ConfirmedInTime

\* What the loop hands to the restore: a finished test whose final snapback
\* is confirmed or still waited for, and a snapback that is waited for with no
\* other value on its way to the plant.
HandOff ==
    pc = "done" =>
        /\ result = "completed" => commanded = "ini" /\ (pend.on \/ confirmed = "ini")
        /\ pend.on /\ commanded = "ini" => Completed /\ plant.flight \subseteq {"ini"}

\* The whole-run timeout ends every run that gets to wait between two polls:
\* no run, whatever its PV does, is idle over and over again.
Idle == pc = "select" /\ ~ WakeupDue(pend) /\ toPoll > 0
TimeoutEndsIdleRun == ~ []<>Idle

\* The restore may trust what the polling loop leaves behind.
RestoreHandOff == SkippedRestoreIsSafe /\ HandOff

\* Refuted: the timer branch of the select! is biased behind a poll that is
\* always due, see the README. The whole-run timeout ends every run.
TimeoutEndsRun == toTimeout = 0 ~> pc = "done"

\* A Ctrl+C ends the loop, also in the middle of a stalled driver call.
CtrlCEndsRun == signal ~> pc = "done"

\* What ends a run: its timeout where it waits, a Ctrl+C everywhere.
RunEnds == TimeoutEndsIdleRun /\ CtrlCEndsRun
=============================================================================
