---------------------------- MODULE LoopRestore -----------------------------
(***************************************************************************)
(* What one tune does to the loop around its relay test: reading the       *)
(* initial state, the transition to Manual, the polling loop as TunePoll   *)
(* hands it over, and the restore (bhtune-runtime tune/prepare.rs and      *)
(* tune/restore.rs) under Ctrl+C, timeouts and driver failures.            *)
(*                                                                         *)
(* The loop has four aspects the tune may change: MV, controller mode,     *)
(* setpoint and mode attribute.  Values are the initial one and the other  *)
(* ones the tune can cause.  A write whose answer the code did not get, or *)
(* got as an error of unknown effect, may reach the loop at any later      *)
(* time.                                                                   *)
(***************************************************************************)
EXTENDS Naturals, FiniteSets

CONSTANT MaxPresses     \* bound on the Ctrl+C presses of one run

ASSUME PressesAssumption == MaxPresses \in Nat

VARIABLES
    policy,     \* DcsTemplate and LoopTags, as far as the restore looks at them
    loop,       \* the loop itself
    flight,     \* writes that may still reach it
    lost,       \* some write's fate was never learned
    pc,         \* where execute_with_timing is
    guard,      \* MutationGuard
    signal,     \* a Ctrl+C that CtrlC::signalled has not delivered yet
    presses,    \* Ctrl+C presses so far
    poll,       \* what the polling loop returned, and its tracker
    expired,    \* restore_deadline has passed
    hold,       \* the settling hold before the release to Auto
    report,     \* RestoreReport
    attempt,    \* RestoreAttempt, and why it is incomplete
    outcome     \* how execute_with_timing returned

world == <<policy, loop, flight, lost>>
vars == <<world, pc, guard, signal, presses, poll, expired, hold, report, attempt, outcome>>

Modes == {"auto", "manual", "cascade"}

\* live: OPC DA; mode, attr, sv: the tags exist (attr: with a program value);
\* revert: revert_mode; init: the mode found, which is only read with a tag;
\* programmed: the mode attribute had its program value already.  A field that
\* the code never looks at under the others has one value.
Policies ==
    {p \in [live: BOOLEAN, mode: BOOLEAN, attr: BOOLEAN, sv: BOOLEAN, revert: BOOLEAN,
            init: Modes, programmed: BOOLEAN] :
        /\ ~ p.live => ~ p.mode /\ ~ p.attr
        /\ ~ p.mode => p.init = "manual"
        /\ p.init = "manual" => ~ p.revert
        /\ p.sv => p.init = "auto" /\ p.revert
        /\ ~ p.attr => ~ p.programmed}

Writes == {"mv", "sp", "attr"} \X {"initial", "moved"} \cup {"mode"} \X Modes

Steps == {"mv", "mode", "sp", "attr"}
StepOutcome == {"not_needed", "succeeded", "failed"}
NoReport == [s \in Steps |-> "not_needed"]

\* The writes of the transition and of the restore, by the place that sends them.
Sends == {"attr_out", "mode_out", "mv_back", "mode_back", "sp_back", "attr_back"}
WriteAt(place) ==
    CASE place = "attr_out"  -> <<"attr", "moved">>
      [] place = "mode_out"  -> <<"mode", "manual">>
      [] place = "mv_back"   -> <<"mv", "initial">>
      [] place = "mode_back" -> <<"mode", policy.init>>
      [] place = "sp_back"   -> <<"sp", "initial">>
      [] place = "attr_back" -> <<"attr", "initial">>

Preparing == {"reading", "attr", "attr_out", "mode", "mode_out"}
RestoringMv == {"mv", "handoff", "mv_back", "mv_check"}
RestoringRest == {"rest_mode", "mode_back", "rest_sp", "sp_back", "rest_attr", "attr_back",
                  "rest_done"}
Restoring == RestoringMv \cup {"policy", "settling"} \cup RestoringRest
PCs == Preparing \cup {"polling"} \cup Restoring \cup {"finishing", "write_back", "done"}

TypeOK ==
    /\ policy \in Policies
    /\ loop \in [mv: {"initial", "moved"}, mode: Modes, sp: {"initial", "moved"},
                 attr: {"initial", "moved"}]
    /\ flight \subseteq Writes
    /\ lost \in BOOLEAN
    /\ pc \in PCs
    /\ guard \in [mode: BOOLEAN, attr: BOOLEAN]
    /\ signal \in BOOLEAN /\ presses \in 0..MaxPresses
    /\ poll \in [result: {"none", "completed", "aborted", "failed"},
                 track: {"none", "relay", "snapback", "confirmed"}]
    /\ expired \in BOOLEAN
    /\ hold \in {"none", "held", "failed"}
    /\ report \in [Steps -> StepOutcome]
    /\ attempt \in {"none", "confirmed", "interrupted", "expired", "failed"}
    /\ outcome \in {"none", "completed", "aborted", "failed", "restore_incomplete"}

-----------------------------------------------------------------------------
(* The loop and the driver *)

\* A write reaches the loop.  An MV write moves only a loop in Manual.
Reach(w) ==
    loop' = CASE w[1] = "mv"   -> IF loop.mode = "manual" THEN [loop EXCEPT !.mv = w[2]]
                                  ELSE loop
              [] w[1] = "mode" -> [loop EXCEPT !.mode = w[2]]
              [] w[1] = "sp"   -> [loop EXCEPT !.sp = w[2]]
              [] w[1] = "attr" -> [loop EXCEPT !.attr = w[2]]

Land ==
    /\ \E w \in flight : Reach(w) /\ flight' = flight \ {w}
    /\ UNCHANGED <<policy, lost, pc, guard, signal, presses, poll, expired, hold, report,
                   attempt, outcome>>

\* In Manual the setpoint tracks the PV on many controllers.
SetpointTracks ==
    /\ loop.mode = "manual" /\ policy.sv /\ loop.sp = "initial"
    /\ loop' = [loop EXCEPT !.sp = "moved"]
    /\ UNCHANGED <<policy, flight, lost, pc, guard, signal, presses, poll, expired, hold,
                   report, attempt, outcome>>

\* The driver accepted the write sent here.  Only an OPC DA MV moves later,
\* or never; an accepted MV write supersedes the accepted ones before it.
Accepted ==
    LET w == WriteAt(pc)
    IN  /\ IF w[1] = "mv" /\ policy.live
           THEN /\ flight' = IF lost THEN flight ELSE flight \ {<<"mv", "moved">>}
                /\ UNCHANGED loop
           ELSE /\ flight' = flight \ {w}
                /\ IF w \in flight THEN Reach(w) ELSE UNCHANGED loop
        /\ UNCHANGED <<policy, lost>>

\* The driver reports an error: the write had no effect, or an unknown one.
Refused ==
    /\ \/ flight' = flight \ {WriteAt(pc)} /\ UNCHANGED lost
       \/ UNCHANGED flight /\ lost' = TRUE
    /\ UNCHANGED <<policy, loop>>

\* The code stops waiting for the write; nothing recalls it.
Abandoned == lost' = TRUE /\ UNCHANGED <<policy, loop, flight>>

\* A write is sent from here.
Send(place) ==
    /\ pc' = place
    /\ flight' = flight \cup {WriteAt(place)}
    /\ UNCHANGED <<policy, loop, lost>>

-----------------------------------------------------------------------------
(* Before the test.  None of these driver calls is bounded: neither by       *)
(* op_timeout_secs nor by Ctrl+C                                             *)

rest == <<signal, presses, expired, hold, report>>
Stay == UNCHANGED <<rest, attempt, outcome>>

\* read_initial_values, its validation and the records made before a mutation.
ReadInitial ==
    /\ pc = "reading"
    /\ \/ pc' = "attr" /\ UNCHANGED outcome
       \/ pc' = "done" /\ outcome' = "failed"
    /\ UNCHANGED <<world, guard, poll, rest, attempt>>

\* Mutant of SendAttr: the guard is armed after the write.
SendAttrUnarmed ==
    /\ pc = "attr"
    /\ \/ policy.attr /\ Send("attr_out")
       \/ ~ policy.attr /\ pc' = "mode" /\ UNCHANGED world
    /\ UNCHANGED <<guard, poll>> /\ Stay

\* transition_to_manual: the guard is armed before each write.
SendAttr ==
    /\ pc = "attr"
    /\ \/ policy.attr /\ guard' = [guard EXCEPT !.attr = TRUE] /\ Send("attr_out")
       \/ ~ policy.attr /\ pc' = "mode" /\ UNCHANGED <<world, guard>>
    /\ UNCHANGED poll /\ Stay

SendMode ==
    /\ pc = "mode"
    /\ \/ /\ policy.mode /\ policy.init # "manual"
          /\ guard' = [guard EXCEPT !.mode = TRUE]
          /\ Send("mode_out")
       \/ /\ ~ policy.mode \/ policy.init = "manual"
          /\ pc' = "polling"
          /\ UNCHANGED <<world, guard>>
    /\ UNCHANGED poll /\ Stay

\* The transition goes on with an accepted write; an error starts the restore.
TransitionAnswered ==
    /\ pc \in {"attr_out", "mode_out"}
    /\ \/ /\ Accepted
          /\ pc' = IF pc = "attr_out" THEN "mode" ELSE "polling"
          /\ UNCHANGED poll
       \/ /\ Refused
          /\ pc' = "mv"
          /\ poll' = [poll EXCEPT !.result = "failed"]
    /\ UNCHANGED guard /\ Stay

-----------------------------------------------------------------------------
(* The test, as TunePoll hands it over *)

\* Ctrl+C may be what ended it.  The tracker of an OPC DA run still waits for
\* a relay step or for the final snapback, or has confirmed the snapback; an
\* accepted step may be on its way, and so may a step given up on (TunePoll:
\* HandOff and SkippedRestoreIsSafe).
PollEnds ==
    /\ pc = "polling"
    /\ pc' = "mv"
    /\ \E result \in {"completed", "aborted", "failed"},
          track \in {"none", "relay", "snapback", "confirmed"},
          mv \in {"initial", "moved"},
          sent \in {{}, {<<"mv", "initial">>}, {<<"mv", "moved">>}} :
         /\ ~ policy.live => track = "none" /\ sent = {}
         /\ policy.live /\ result = "completed" => track \in {"snapback", "confirmed"}
         /\ track = "snapback" => sent \subseteq {<<"mv", "initial">>}
         /\ track = "relay" => sent \subseteq {<<"mv", "moved">>}
         /\ track = "confirmed" => mv = "initial" /\ sent = {}
         /\ poll' = [result |-> result, track |-> track]
         /\ loop' = [loop EXCEPT !.mv = mv]
         /\ flight' = flight \cup sent
         /\ \/ UNCHANGED lost
            \/ track = "none" /\ sent # {} /\ lost' = TRUE
         /\ \/ UNCHANGED signal
            \/ signal /\ result = "aborted" /\ signal' = FALSE
    /\ UNCHANGED <<policy, guard, presses, expired, hold, report, attempt, outcome>>

-----------------------------------------------------------------------------
(* Restoring the MV: restore_mv_with_verification *)

Finish(result) == pc' = "finishing" /\ attempt' = result

MvStep(result) ==
    /\ report' = [report EXCEPT !["mv"] = result]
    /\ pc' = "policy"
    /\ UNCHANGED attempt

\* A confirmed snapback needs no write; one that is waited for is first read
\* back, unless that would eat into the confirmation window of a rewrite.
ChooseMv ==
    /\ pc = "mv"
    /\ \/ /\ policy.live /\ poll.track = "confirmed"
          /\ MvStep("succeeded")
          /\ UNCHANGED world
       \/ /\ policy.live /\ poll.track = "snapback"
          /\ pc' = "handoff"
          /\ UNCHANGED <<world, report, attempt>>
       \/ /\ ~ (policy.live /\ poll.track = "confirmed")
          /\ Send("mv_back")
          /\ UNCHANGED <<report, attempt>>
    /\ UNCHANGED <<guard, signal, presses, poll, expired, hold, outcome>>

\* The handoff read matches, or something kept it from matching.
HandoffReturns ==
    /\ pc = "handoff"
    /\ \/ loop.mv = "initial" /\ MvStep("succeeded") /\ UNCHANGED world
       \/ Send("mv_back") /\ UNCHANGED <<report, attempt>>
    /\ UNCHANGED <<guard, signal, presses, poll, expired, hold, outcome>>

\* An accepted MV write extends the restore deadline and is then verified.
MvAnswered ==
    /\ pc = "mv_back"
    /\ \/ /\ Accepted /\ policy.live
          /\ pc' = "mv_check"
          /\ expired' = FALSE
          /\ UNCHANGED <<report, attempt>>
       \/ /\ Accepted /\ ~ policy.live
          /\ MvStep("succeeded")
          /\ UNCHANGED expired
       \/ /\ Refused \/ Abandoned      \* an error, or op_timeout_secs
          /\ MvStep("failed")
          /\ UNCHANGED expired
    /\ UNCHANGED <<guard, signal, presses, poll, hold, outcome>>

\* Mutant of MvChecked: the accepted write is taken for the restored MV.
MvCheckedBlindly ==
    /\ pc = "mv_check"
    /\ MvStep("succeeded")
    /\ UNCHANGED <<world, guard, signal, presses, poll, expired, hold, outcome>>

\* A readback matches, or the window closes without one.
MvChecked ==
    /\ pc = "mv_check"
    /\ \/ loop.mv = "initial" /\ MvStep("succeeded")
       \/ MvStep("failed")
    /\ UNCHANGED <<world, guard, signal, presses, poll, expired, hold, outcome>>

\* The handoff read is bounded by less than the restore deadline; the MV write
\* and its verification give up the whole restore at the deadline.
RestoreMvExpires ==
    /\ pc \in {"mv_back", "mv_check"} /\ expired
    /\ IF pc = "mv_back" THEN Abandoned ELSE UNCHANGED world
    /\ Finish("expired")
    /\ UNCHANGED <<guard, signal, presses, poll, expired, hold, report, outcome>>

RestoreMvInterrupted ==
    /\ pc \in {"handoff", "mv_back", "mv_check"} /\ signal
    /\ signal' = FALSE
    /\ IF pc = "mv_back" THEN Abandoned ELSE UNCHANGED world
    /\ Finish("interrupted")
    /\ UNCHANGED <<guard, presses, poll, expired, hold, report, outcome>>

-----------------------------------------------------------------------------
(* The release to Auto and the settling hold before it *)

\* should_settle_before_auto_release
ShouldSettle == policy.live /\ policy.mode /\ policy.revert /\ guard.mode /\ policy.init = "auto"

\* Mutant of KeepManual: only a failed hold keeps the loop in Manual.
KeepManualAfterHold == hold = "failed"

\* RestoreModePolicy::KeepManual
KeepManual == hold = "failed" \/ (ShouldSettle /\ report["mv"] # "succeeded")

\* A finished test with a measured period holds the loop in Manual first.
ChoosePolicy ==
    /\ pc = "policy"
    /\ \/ /\ ShouldSettle /\ report["mv"] = "succeeded" /\ poll.result = "completed"
          /\ pc' = "settling"
       \/ pc' = "rest_mode"
    /\ UNCHANGED <<world, guard, poll, rest, attempt, outcome>>

\* run_auto_release_settling: the hold passed, or Ctrl+C, the deadline, a
\* driver failure or a poor PV ended it.
Settle ==
    /\ pc = "settling"
    /\ \/ hold' = "held" /\ UNCHANGED signal
       \/ hold' = "failed" /\ UNCHANGED signal
       \/ signal /\ signal' = FALSE /\ hold' = "failed"
    /\ pc' = "rest_mode"
    /\ UNCHANGED <<world, guard, presses, poll, expired, report, attempt, outcome>>

-----------------------------------------------------------------------------
(* The remaining steps, each attempted whatever became of the others *)

Captured == policy.sv /\ policy.mode /\ policy.init = "auto"
ModeNeeded == policy.mode /\ guard.mode /\ policy.revert /\ policy.init # "manual"
SetpointNeeded == guard.mode /\ policy.revert /\ Captured
AttrNeeded == policy.attr /\ guard.attr /\ ~ policy.programmed

\* A step is sent if it is needed; the next one follows.
SendStep(here, needed, place, after) ==
    /\ pc = here
    /\ IF needed THEN Send(place) ELSE pc' = after /\ UNCHANGED world
    /\ UNCHANGED <<guard, poll>> /\ Stay

SendModeBack == SendStep("rest_mode", ModeNeeded /\ ~ KeepManual, "mode_back", "rest_sp")
SendSetpointBack == SendStep("rest_sp", SetpointNeeded, "sp_back", "rest_attr")
SendAttrBack == SendStep("rest_attr", AttrNeeded, "attr_back", "rest_done")

StepAt == [mode_back |-> "mode", sp_back |-> "sp", attr_back |-> "attr"]
AfterStep == [mode_back |-> "rest_sp", sp_back |-> "rest_attr", attr_back |-> "rest_done"]

\* Mutant of StepAnswered: the outcome is filed under the write, not the step.
StepAnsweredMisfiled ==
    /\ pc \in DOMAIN StepAt
    /\ pc' = AfterStep[pc]
    /\ Accepted
    /\ report' = [s \in Steps \cup {pc} |-> IF s = pc THEN "succeeded" ELSE report[s]]
    /\ UNCHANGED <<guard, signal, presses, poll, expired, hold, attempt, outcome>>

\* Mutant of StepAnswered: the first failed step ends the restore.
StepAnsweredOrStop ==
    /\ pc \in DOMAIN StepAt
    /\ \/ Accepted /\ report' = [report EXCEPT ![StepAt[pc]] = "succeeded"] /\ pc' = AfterStep[pc]
       \/ Refused /\ report' = [report EXCEPT ![StepAt[pc]] = "failed"] /\ pc' = "rest_done"
    /\ UNCHANGED <<guard, signal, presses, poll, expired, hold, attempt, outcome>>

StepAnswered ==
    /\ pc \in DOMAIN StepAt
    /\ pc' = AfterStep[pc]
    /\ \/ Accepted /\ report' = [report EXCEPT ![StepAt[pc]] = "succeeded"]
       \/ Refused /\ report' = [report EXCEPT ![StepAt[pc]] = "failed"]
    /\ UNCHANGED <<guard, signal, presses, poll, expired, hold, attempt, outcome>>

\* Mutant of RestDone: a failed settling hold does not show.
RestDoneForgiving ==
    /\ pc = "rest_done"
    /\ Finish(IF \A s \in Steps : report[s] # "failed" THEN "confirmed" ELSE "failed")
    /\ UNCHANGED <<world, guard, poll, rest, outcome>>

\* All steps were tried: confirmed when none failed and no hold did.
RestDone ==
    /\ pc = "rest_done"
    /\ Finish(IF hold # "failed" /\ \A s \in Steps : report[s] # "failed" THEN "confirmed"
              ELSE "failed")
    /\ UNCHANGED <<world, guard, poll, rest, outcome>>

\* A second Ctrl+C or the deadline ends the remaining steps wherever they are.
RestInterrupted ==
    /\ pc \in RestoringRest /\ signal
    /\ signal' = FALSE
    /\ IF pc \in Sends THEN Abandoned ELSE UNCHANGED world
    /\ Finish("interrupted")
    /\ UNCHANGED <<guard, presses, poll, expired, hold, report, outcome>>

\* Mutant of RestExpires: the deadline is looked at between the steps only.
RestExpiresBetweenSteps ==
    /\ pc \in RestoringRest \ Sends /\ expired
    /\ Finish("expired")
    /\ UNCHANGED <<world, guard, poll, rest, outcome>>

RestExpires ==
    /\ pc \in RestoringRest /\ expired
    /\ IF pc \in Sends THEN Abandoned ELSE UNCHANGED world
    /\ Finish("expired")
    /\ UNCHANGED <<guard, poll, rest, outcome>>

-----------------------------------------------------------------------------
(* The end of the run *)

\* The restore status and the terminal outcome are stored (LiveOwnership); a
\* finished test on a restored loop may write its PID constants back.
FinishRun ==
    /\ pc = "finishing"
    /\ LET ok == attempt = "confirmed"
       IN  \/ /\ poll.result = "completed" /\ ok
              /\ pc' = "write_back" /\ UNCHANGED outcome
           \/ /\ pc' = "done"
              /\ outcome' \in {"failed"} \cup
                    (IF poll.result = "failed" THEN {}
                     ELSE {IF ok THEN poll.result ELSE "restore_incomplete"})
    /\ UNCHANGED <<world, guard, poll, rest, attempt>>

\* maybe_write_back_with_owner, whose driver calls are not bounded either.
WriteBack ==
    /\ pc = "write_back"
    /\ pc' = "done"
    /\ outcome' \in {"completed", "failed"}
    /\ UNCHANGED <<world, guard, poll, rest, attempt>>

-----------------------------------------------------------------------------
(* The operator and time *)

PressCtrlC ==
    /\ pc # "done" /\ presses < MaxPresses
    /\ signal' = TRUE /\ presses' = presses + 1
    /\ UNCHANGED <<world, pc, guard, poll, expired, hold, report, attempt, outcome>>

Expire ==
    /\ pc \in Restoring /\ ~ expired
    /\ expired' = TRUE
    /\ UNCHANGED <<world, pc, guard, signal, presses, poll, hold, report, attempt, outcome>>

Returned == pc = "done" /\ UNCHANGED vars

Init ==
    /\ policy \in Policies
    /\ loop = [mv |-> "initial", mode |-> policy.init, sp |-> "initial", attr |-> "initial"]
    /\ flight = {} /\ lost = FALSE
    /\ pc = "reading"
    /\ guard = [mode |-> FALSE, attr |-> FALSE]
    /\ signal = FALSE /\ presses = 0
    /\ poll = [result |-> "none", track |-> "none"]
    /\ expired = FALSE /\ hold = "none" /\ report = NoReport
    /\ attempt = "none" /\ outcome = "none"

\* The steps the code takes by itself, or that its own timers give it.
Unbounded == ReadInitial \/ TransitionAnswered \/ WriteBack
Own ==
    \/ SendAttr \/ SendMode \/ PollEnds \/ ChooseMv
    \/ RestoreMvExpires \/ RestoreMvInterrupted
    \/ ChoosePolicy \/ Settle
    \/ SendModeBack \/ SendSetpointBack \/ SendAttrBack
    \/ RestDone \/ RestInterrupted \/ RestExpires \/ FinishRun
Driver == HandoffReturns \/ MvAnswered \/ MvChecked \/ StepAnswered

Next ==
    \/ Unbounded \/ Own \/ Driver
    \/ Land \/ SetpointTracks \/ PressCtrlC \/ Expire \/ Returned

Spec == Init /\ [][Next]_vars

\* The code runs when it can and the restore deadline passes; the driver need
\* never answer.  (TunePoll shows that the polling loop ends; the handoff read
\* has a limit of its own.)
FairSpec == Spec /\ WF_vars(Own) /\ WF_vars(Expire) /\ WF_vars(HandoffReturns)

-----------------------------------------------------------------------------
(* Properties *)

Back(step) ==
    CASE step = "mv"   -> loop.mv = "initial"
      [] step = "mode" -> guard.mode /\ policy.revert => loop.mode = policy.init
      [] step = "sp"   -> SetpointNeeded => loop.sp = "initial"
      [] step = "attr" -> loop.attr = "initial" \/ policy.programmed

\* A confirmed restore is one: every aspect the tune changed is back, unless a
\* write of unknown fate is still about.
ConfirmedMeansRestored ==
    attempt = "confirmed" /\ ~ lost => \A s \in Steps : Back(s)

\* A restore that ran to its end tried everything: whatever is not back has a
\* failure to show for it, or the loop was kept in Manual on purpose; only the
\* setpoint of a loop that is still in Manual may have moved again.
NothingSkipped ==
    attempt \in {"confirmed", "failed"} /\ ~ lost =>
        \A s \in Steps :
            \/ Back(s)
            \/ report[s] = "failed"
            \/ s = "mode" /\ KeepManual
            \/ s = "sp" /\ loop.mode = "manual"

\* The loop is given back to Auto only with its MV where Auto left it.
AutoReleasedAtInitialMv ==
    [][loop.mode = "manual" /\ loop'.mode = "auto" /\ ~ lost => loop.mv = "initial"]_vars

\* After a failed settling hold the loop stays in Manual and the restore does
\* not count as confirmed.
FailedHoldKeepsManual ==
    hold = "failed" => /\ attempt # "confirmed"
                       /\ ~ lost => loop.mode = "manual"

\* Whatever the tune did to mode and mode attribute, the guard knows: the
\* restore after an error in the middle of the transition depends on it.
MutationIsGuarded ==
    /\ loop.mode # policy.init \/ <<"mode", "manual">> \in flight => guard.mode
    /\ loop.attr # "initial" \/ <<"attr", "moved">> \in flight => guard.attr

\* What a restore reports is so, and what the tune changed it knows of.
RestoreSafe ==
    /\ TypeOK
    /\ ConfirmedMeansRestored
    /\ NothingSkipped
    /\ FailedHoldKeepsManual
    /\ MutationIsGuarded

\* A restore ends: by its deadline if the driver stops answering.
RestoreEnds == pc \in Restoring ~> pc \notin Restoring

\* Refuted, see the README. The first Ctrl+C of a run starts the restore; only
\* a second one gives it up.
FirstCtrlCRestores == attempt = "interrupted" => presses >= 2

\* Refuted, see the README. A Ctrl+C takes effect whenever it is pressed, also
\* in a stalled driver call.
CtrlCTakesEffect == signal ~> ~ signal \/ pc = "done"
=============================================================================
