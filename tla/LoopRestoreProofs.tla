------------------------- MODULE LoopRestoreProofs --------------------------
(***************************************************************************)
(* Safety of the transition and the restore for any number of Ctrl+C       *)
(* presses, whatever the driver answers and whenever a write arrives.      *)
(*                                                                         *)
(* As long as no write has gone missing, the only writes under way are the *)
(* one the code is waiting for and MV writes of an OPC DA loop (FlightOK), *)
(* so a write that is accepted has reached the loop (ArrivedOK) and what a *)
(* step has restored stays restored (MvOK, DoneOK).  Once a write is lost  *)
(* nothing is promised but that the guard knows what was touched           *)
(* (GuardOK).                                                              *)
(***************************************************************************)
EXTENDS LoopRestore, TLAPS

MvMoved == <<"mv", "moved">>
MvInitial == <<"mv", "initial">>

LoopRec == [mv: {"initial", "moved"}, mode: Modes, sp: {"initial", "moved"},
            attr: {"initial", "moved"}]

Opening == Preparing \cup {"polling"}

\* The guard is armed for every mode and attribute write, sent or arrived, and
\* a write is sent only under its condition.
GuardOK ==
    /\ guard.mode => policy.mode /\ policy.init # "manual"
    /\ guard.attr => policy.attr
    /\ loop.mode # policy.init => guard.mode
    /\ loop.attr # "initial" => guard.attr
    /\ \A w \in flight : w[1] = "mode" => guard.mode /\ w[2] \in {"manual", policy.init}
    /\ \A w \in flight : w[1] = "attr" => guard.attr
    /\ pc = "attr_out" => guard.attr
    /\ pc = "mode_out" => guard.mode
    /\ pc = "mode_back" => ModeNeeded /\ ~ KeepManual
    /\ pc = "sp_back" => SetpointNeeded
    /\ pc = "attr_back" => AttrNeeded

\* What may be under way.
FlightOK ==
    /\ pc \in Opening => \A w \in flight : w[1] # "mv"
    /\ ~ lost => \A w \in flight : w[1] = "mv" \/ (pc \in Sends /\ w = WriteAt(pc))
    /\ ~ lost /\ ~ policy.live =>
          \A w \in flight : w[1] = "mv" => pc = "mv_back" /\ w = MvInitial
    /\ poll.track = "snapback" => MvMoved \notin flight

\* The write that the code waits for, if it is not under way, has arrived.
ArrivedOK ==
    ~ lost /\ pc \in Sends /\ WriteAt(pc) \notin flight =>
        /\ pc = "mode_out" => loop.mode = "manual"
        /\ pc = "mode_back" => loop.mode = policy.init
        /\ pc = "sp_back" => loop.sp = "initial" \/ loop.mode = "manual"
        /\ pc = "attr_back" => loop.attr = "initial"
        /\ pc = "mv_back" /\ ~ policy.live => loop.mv = "initial"

\* The MV is back, and stays, once its step says so.
MvOK ==
    /\ pc = "handoff" => poll.track = "snapback"
    /\ pc \in Opening => poll.track = "none"
    /\ ~ lost /\ poll.track = "confirmed" => loop.mv = "initial" /\ MvMoved \notin flight
    /\ ~ lost /\ pc = "mv_check" => MvMoved \notin flight
    /\ ~ lost /\ report["mv"] = "succeeded" => loop.mv = "initial" /\ MvMoved \notin flight
    /\ pc \in Opening \cup RestoringMv => report["mv"] = "not_needed"
    /\ pc \in {"policy", "settling"} \cup RestoringRest \/ attempt \in {"confirmed", "failed"} =>
          report["mv"] \in {"succeeded", "failed"}

\* The loop is in Manual from the accepted transition to the release.
ManualOK ==
    /\ /\ ~ lost /\ guard.mode /\ poll.result # "failed"
       /\ pc \in {"polling", "policy", "settling"} \cup RestoringMv
       => loop.mode = "manual"
    /\ pc \in Opening => poll.result = "none"
    /\ pc = "settling" => ShouldSettle /\ poll.result = "completed"
    /\ hold # "none" => pc \in RestoringRest \cup {"finishing", "write_back", "done"}
    /\ hold = "failed" => attempt # "confirmed" /\ (~ lost => loop.mode = "manual")

\* Which steps have been tried when the restore has got this far.
ModeTried ==
    pc \in RestoringRest \ {"rest_mode", "mode_back"} \/ attempt \in {"confirmed", "failed"}
SpTried ==
    pc \in {"rest_attr", "attr_back", "rest_done"} \/ attempt \in {"confirmed", "failed"}
AttrTried == pc = "rest_done" \/ attempt \in {"confirmed", "failed"}

\* A step that was tried has an outcome, and a success is one.
DoneOK ==
    /\ ModeTried /\ ModeNeeded /\ ~ KeepManual => report["mode"] # "not_needed"
    /\ SpTried /\ SetpointNeeded => report["sp"] # "not_needed"
    /\ AttrTried /\ AttrNeeded => report["attr"] # "not_needed"
    /\ ~ ModeTried /\ attempt = "none" => report["mode"] = "not_needed"
    /\ ~ SpTried /\ attempt = "none" => report["sp"] = "not_needed"
    /\ ~ AttrTried /\ attempt = "none" => report["attr"] = "not_needed"
    /\ ~ lost =>
          /\ report["mode"] = "succeeded" => loop.mode = policy.init
          /\ report["sp"] = "succeeded" => loop.sp = "initial" \/ loop.mode = "manual"
          /\ report["attr"] = "succeeded" => loop.attr = "initial"
    /\ attempt # "none" => pc \in {"finishing", "write_back", "done"}
    /\ attempt = "confirmed" => \A s \in Steps : report[s] # "failed"

\* The inductive invariant.
IInv ==
    /\ TypeOK
    /\ GuardOK
    /\ FlightOK
    /\ ArrivedOK
    /\ MvOK
    /\ ManualOK
    /\ DoneOK

-----------------------------------------------------------------------------
(* Policies, writes and places *)

\* What the restore knows of a template: a loop that is not live has neither
\* tag, and a loop without a mode tag counts as Manual.
LEMMA PolicyFacts ==
  ASSUME policy \in Policies
  PROVE  /\ policy.live \in BOOLEAN /\ policy.mode \in BOOLEAN /\ policy.attr \in BOOLEAN
         /\ policy.sv \in BOOLEAN /\ policy.revert \in BOOLEAN /\ policy.init \in Modes
         /\ policy.programmed \in BOOLEAN
         /\ ~ policy.live => ~ policy.mode /\ ~ policy.attr
         /\ ~ policy.mode => policy.init = "manual"
         /\ policy.init = "manual" => ~ policy.revert
         /\ policy.sv => policy.init = "auto" /\ policy.revert
         /\ ~ policy.attr => ~ policy.programmed
BY DEF Policies

\* A write is the pair of an aspect and one of its values.
LEMMA WriteFacts ==
  ASSUME NEW w \in Writes
  PROVE  /\ w = <<w[1], w[2]>>
         /\ w[1] \in {"mv", "sp", "attr", "mode"}
         /\ w[1] # "mode" => w[2] \in {"initial", "moved"}
         /\ w[1] = "mode" => w[2] \in Modes
         /\ w = MvMoved <=> w[1] = "mv" /\ w[2] = "moved"
         /\ w = MvInitial <=> w[1] = "mv" /\ w[2] = "initial"
BY DEF Writes, Modes, MvMoved, MvInitial

\* Each place sends its own write.
LEMMA PlaceFacts ==
  /\ WriteAt("attr_out") = <<"attr", "moved">>
  /\ WriteAt("mode_out") = <<"mode", "manual">>
  /\ WriteAt("mv_back") = MvInitial
  /\ WriteAt("mode_back") = <<"mode", policy.init>>
  /\ WriteAt("sp_back") = <<"sp", "initial">>
  /\ WriteAt("attr_back") = <<"attr", "initial">>
BY DEF WriteAt, MvInitial

\* What a place sends is a write.
LEMMA PlaceWrites ==
  ASSUME policy \in Policies, NEW place \in Sends
  PROVE  WriteAt(place) \in Writes
<1>1. policy.init \in Modes
  BY PolicyFacts
<1>2. QED
  BY <1>1, PlaceFacts DEF Sends, Writes, Modes, MvInitial

\* A write that reaches the loop changes its own aspect only, and an MV write
\* changes nothing unless the loop is in Manual.
LEMMA ReachFacts ==
  ASSUME TypeOK, NEW w \in Writes, Reach(w)
  PROVE  /\ loop' \in LoopRec
         /\ w[1] = "mode" => loop'.mode = w[2]
         /\ w[1] # "mode" => loop'.mode = loop.mode
         /\ w[1] = "sp" => loop'.sp = w[2]
         /\ w[1] # "sp" => loop'.sp = loop.sp
         /\ w[1] = "attr" => loop'.attr = w[2]
         /\ w[1] # "attr" => loop'.attr = loop.attr
         /\ w[1] = "mv" /\ loop.mode = "manual" => loop'.mv = w[2]
         /\ w[1] # "mv" \/ loop.mode # "manual" => loop'.mv = loop.mv
<1>1. loop \in LoopRec
  BY DEF TypeOK, LoopRec
<1>2. CASE w[1] = "mv"
  BY <1>1, <1>2, WriteFacts DEF Reach, LoopRec
<1>3. CASE w[1] = "mode"
  BY <1>1, <1>3, WriteFacts DEF Reach, LoopRec
<1>4. CASE w[1] = "sp"
  BY <1>1, <1>4, WriteFacts DEF Reach, LoopRec
<1>5. CASE w[1] = "attr"
  BY <1>1, <1>5, WriteFacts DEF Reach, LoopRec
<1>6. QED
  BY <1>2, <1>3, <1>4, <1>5, WriteFacts

-----------------------------------------------------------------------------
(* The initial states *)

LEMMA InitIInv == Init => IInv
<1> SUFFICES ASSUME Init PROVE IInv
  OBVIOUS
<1>1. policy \in Policies
  BY DEF Init
<1>2. policy.init \in Modes
  BY <1>1, PolicyFacts
<1>a. loop \in LoopRec
  BY <1>2 DEF Init, LoopRec
<1>b. report \in [Steps -> StepOutcome]
  BY DEF Init, NoReport, StepOutcome
<1>c. presses \in 0..MaxPresses /\ pc \in PCs
  BY PressesAssumption DEF Init, PCs, Preparing
<1>3. TypeOK
  BY <1>1, <1>a, <1>b, <1>c DEF Init, TypeOK, LoopRec
<1>4. pc = "reading" /\ flight = {} /\ attempt = "none" /\ hold = "none" /\ ~ lost
  BY DEF Init
<1>5. GuardOK
  BY <1>4 DEF Init, GuardOK
<1>6. FlightOK /\ ArrivedOK
  BY <1>4 DEF FlightOK, ArrivedOK, Sends
<1>7. MvOK
  BY <1>4 DEF Init, MvOK, RestoringMv, NoReport, Steps, RestoringRest, Opening, Preparing
<1>8. ManualOK
  BY <1>4 DEF Init, ManualOK, RestoringMv, RestoringRest, Opening, Preparing
<1>9. DoneOK
  BY <1>4 DEF Init, DoneOK, ModeTried, SpTried, AttrTried, NoReport, Steps, RestoringRest
<1>10. QED
  BY <1>3, <1>5, <1>6, <1>7, <1>8, <1>9 DEF IInv
-----------------------------------------------------------------------------
(* The loop and the driver *)

\* A loop that is not live has no mode tag and stays in Manual.
LEMMA FileIsManual ==
  ASSUME TypeOK, GuardOK, ~ policy.live
  PROVE  loop.mode = "manual"
<1>1. policy.init = "manual" /\ ~ policy.mode
  BY PolicyFacts DEF TypeOK
<1>2. QED
  BY <1>1 DEF GuardOK

\* A late write changes what it is for, and that is what the code waits for,
\* or an MV that is not yet taken for restored.
LEMMA LandStep ==
  ASSUME IInv, Land
  PROVE  IInv'
<1>1. PICK w \in flight : Reach(w) /\ flight' = flight \ {w}
  BY DEF Land
<1>2. UNCHANGED <<policy, lost, pc, guard, signal, presses, poll, expired, hold, report,
                  attempt, outcome>>
  BY DEF Land
<1>3. TypeOK /\ GuardOK /\ FlightOK /\ ArrivedOK /\ MvOK /\ ManualOK /\ DoneOK
  BY DEF IInv
<1>4. w \in Writes
  BY <1>3 DEF TypeOK
<1>5. /\ loop' \in LoopRec
      /\ w[1] = "mode" => loop'.mode = w[2]
      /\ w[1] # "mode" => loop'.mode = loop.mode
      /\ w[1] = "sp" => loop'.sp = w[2]
      /\ w[1] # "sp" => loop'.sp = loop.sp
      /\ w[1] = "attr" => loop'.attr = w[2]
      /\ w[1] # "attr" => loop'.attr = loop.attr
      /\ w[1] = "mv" /\ loop.mode = "manual" => loop'.mv = w[2]
      /\ w[1] # "mv" \/ loop.mode # "manual" => loop'.mv = loop.mv
  BY <1>1, <1>3, <1>4, ReachFacts
<1>6. ~ lost /\ w[1] # "mv" => pc \in Sends /\ w = WriteAt(pc)
  BY <1>3 DEF FlightOK
<1>7. \A place : WriteAt(place)' = WriteAt(place)
  BY <1>2 DEF WriteAt
<1>8. pc \in Sends => (KeepManual' <=> KeepManual) /\ (ModeNeeded' <=> ModeNeeded)
  BY <1>2 DEF KeepManual, ShouldSettle, ModeNeeded
<1>9. TypeOK'
  BY <1>1, <1>2, <1>3, <1>5 DEF TypeOK, LoopRec
<1>10. GuardOK'
  BY <1>1, <1>2, <1>3, <1>5
     DEF GuardOK, KeepManual, ShouldSettle, ModeNeeded, SetpointNeeded, Captured, AttrNeeded
<1>11. FlightOK'
  BY <1>1, <1>2, <1>3, <1>7 DEF FlightOK
<1>12. ArrivedOK'
  BY <1>1, <1>2, <1>3, <1>4, <1>5, <1>6, <1>7, PlaceFacts, WriteFacts, FileIsManual
     DEF ArrivedOK, FlightOK
<1>13. MvOK'
  BY <1>1, <1>2, <1>3, <1>4, <1>5, WriteFacts DEF MvOK
<1>14. ManualOK'
  BY <1>1, <1>2, <1>3, <1>5, <1>6, PlaceFacts
     DEF ManualOK, ShouldSettle, Sends, GuardOK, KeepManual, RestoringMv, RestoringRest,
         Opening, Preparing, MvInitial
<1>15. DoneOK'
  BY <1>1, <1>2, <1>3, <1>5, <1>6, PlaceFacts
     DEF DoneOK, ModeNeeded, KeepManual, ShouldSettle, SetpointNeeded, Captured, AttrNeeded,
         Sends, ModeTried, SpTried, AttrTried, RestoringRest, MvInitial
<1>16. QED
  BY <1>9, <1>10, <1>11, <1>12, <1>13, <1>14, <1>15 DEF IInv

\* A setpoint that tracks the PV moves in Manual only.
LEMMA TracksStep ==
  ASSUME IInv, SetpointTracks
  PROVE  IInv'
<1>1. loop.mode = "manual" /\ loop' = [loop EXCEPT !.sp = "moved"]
  BY DEF SetpointTracks
<1>2. UNCHANGED <<policy, flight, lost, pc, guard, signal, presses, poll, expired, hold, report,
                  attempt, outcome>>
  BY DEF SetpointTracks
<1>3. /\ loop' \in LoopRec /\ loop'.mode = "manual" /\ loop'.mv = loop.mv
      /\ loop'.attr = loop.attr
  BY <1>1 DEF IInv, TypeOK, LoopRec
<1>4. \A place : WriteAt(place)' = WriteAt(place)
  BY <1>2 DEF WriteAt
<1>5. TypeOK /\ GuardOK /\ FlightOK /\ ArrivedOK /\ MvOK /\ ManualOK /\ DoneOK
  BY DEF IInv
<1>6. TypeOK'
  BY <1>1, <1>2, <1>3, <1>4, <1>5 DEF TypeOK, LoopRec
<1>7. GuardOK'
  BY <1>1, <1>2, <1>3, <1>4, <1>5
     DEF GuardOK, KeepManual, ShouldSettle, ModeNeeded, SetpointNeeded, Captured, AttrNeeded
<1>8. FlightOK'
  BY <1>1, <1>2, <1>3, <1>4, <1>5 DEF FlightOK, Opening, Preparing, Sends
<1>9. ArrivedOK'
  BY <1>1, <1>2, <1>3, <1>4, <1>5 DEF ArrivedOK, Sends
<1>10. MvOK'
  BY <1>1, <1>2, <1>3, <1>4, <1>5 DEF MvOK, RestoringMv, RestoringRest, Opening, Preparing
<1>11. ManualOK'
  BY <1>1, <1>2, <1>3, <1>4, <1>5
     DEF ManualOK, ShouldSettle, RestoringMv, RestoringRest, Opening, Preparing
<1>12. DoneOK'
  BY <1>1, <1>2, <1>3, <1>4, <1>5
     DEF DoneOK, ModeNeeded, KeepManual, ShouldSettle, SetpointNeeded, Captured, AttrNeeded,
         ModeTried, SpTried, AttrTried, RestoringRest
<1>13. QED
  BY <1>6, <1>7, <1>8, <1>9, <1>10, <1>11, <1>12 DEF IInv


\* Reading the initial state touches nothing.
LEMMA ReadStep ==
  ASSUME IInv, ReadInitial
  PROVE  IInv'
<1>1. UNCHANGED <<policy, loop, flight, lost, guard, signal, presses, poll, expired, hold,
                  report, attempt>>
  BY DEF ReadInitial, world, rest
<1>2. /\ pc = "reading"
      /\ \/ pc' = "attr" /\ outcome' = outcome
         \/ pc' = "done" /\ outcome' = "failed"
  BY DEF ReadInitial, world, rest
<1>3. \A place : WriteAt(place)' = WriteAt(place)
  BY <1>1 DEF WriteAt
<1>4. TypeOK /\ GuardOK /\ FlightOK /\ ArrivedOK /\ MvOK /\ ManualOK /\ DoneOK
  BY DEF IInv
<1>5. TypeOK'
  BY <1>1, <1>2, <1>3, <1>4 DEF TypeOK, LoopRec, PCs, Preparing
<1>6. GuardOK'
  BY <1>1, <1>2, <1>3, <1>4
     DEF GuardOK, KeepManual, ShouldSettle, ModeNeeded, SetpointNeeded, Captured, AttrNeeded
<1>7. FlightOK'
  BY <1>1, <1>2, <1>3, <1>4 DEF FlightOK, Opening, Preparing, Sends
<1>8. ArrivedOK'
  BY <1>1, <1>2, <1>3, <1>4 DEF ArrivedOK, Sends
<1>9. MvOK'
  BY <1>1, <1>2, <1>3, <1>4 DEF MvOK, RestoringMv, RestoringRest, Opening, Preparing
<1>10. ManualOK'
  BY <1>1, <1>2, <1>3, <1>4
     DEF ManualOK, ShouldSettle, RestoringMv, RestoringRest, Opening, Preparing
<1>11. DoneOK'
  BY <1>1, <1>2, <1>3, <1>4
     DEF DoneOK, ModeNeeded, KeepManual, ShouldSettle, SetpointNeeded, Captured, AttrNeeded,
         ModeTried, SpTried, AttrTried, RestoringRest
<1>12. QED
  BY <1>5, <1>6, <1>7, <1>8, <1>9, <1>10, <1>11 DEF IInv

\* The guard is armed before the mode attribute is written.
LEMMA SendAttrStep ==
  ASSUME IInv, SendAttr
  PROVE  IInv'
<1>1. UNCHANGED <<policy, loop, lost, signal, presses, poll, expired, hold, report, attempt,
                  outcome>>
  BY DEF SendAttr, Send, world, rest, Stay
<1>2. /\ pc = "attr"
      /\ \/ /\ policy.attr /\ guard' = [guard EXCEPT !.attr = TRUE] /\ pc' = "attr_out"
            /\ flight' = flight \cup {WriteAt("attr_out")}
         \/ pc' = "mode" /\ guard' = guard /\ flight' = flight
  BY DEF SendAttr, Send, world, rest, Stay
<1>3. \A place : WriteAt(place)' = WriteAt(place)
  BY <1>1 DEF WriteAt
<1>4. /\ WriteAt("attr_out") = <<"attr", "moved">> /\ WriteAt("attr_out") \in Writes
      /\ WriteAt("attr_out") # MvMoved
  BY PlaceFacts, PlaceWrites DEF Sends, IInv, TypeOK, MvMoved, MvInitial
<1>5. /\ guard' \in [mode: BOOLEAN, attr: BOOLEAN]
      /\ guard'.mode <=> guard.mode
      /\ guard.attr => guard'.attr
      /\ pc' = "attr_out" => guard'.attr
  BY <1>2 DEF IInv, TypeOK
<1>6. TypeOK /\ GuardOK /\ FlightOK /\ ArrivedOK /\ MvOK /\ ManualOK /\ DoneOK
  BY DEF IInv
<1>7. TypeOK'
  BY <1>1, <1>2, <1>3, <1>4, <1>5, <1>6
     DEF TypeOK, LoopRec, Sends, PCs, Preparing, Restoring, RestoringMv, RestoringRest
<1>8. GuardOK'
  BY <1>1, <1>2, <1>3, <1>4, <1>5, <1>6
     DEF GuardOK, KeepManual, ShouldSettle, ModeNeeded, SetpointNeeded, Captured, AttrNeeded
<1>9. FlightOK'
  BY <1>1, <1>2, <1>3, <1>4, <1>5, <1>6 DEF FlightOK, Opening, Preparing, Sends
<1>10. ArrivedOK'
  BY <1>1, <1>2, <1>3, <1>4, <1>5, <1>6 DEF ArrivedOK, Sends
<1>11. MvOK'
  BY <1>1, <1>2, <1>3, <1>4, <1>5, <1>6
     DEF MvOK, RestoringMv, RestoringRest, Opening, Preparing
<1>12. ManualOK'
  BY <1>1, <1>2, <1>3, <1>4, <1>5, <1>6
     DEF ManualOK, ShouldSettle, RestoringMv, RestoringRest, Opening, Preparing
<1>13. DoneOK'
  BY <1>1, <1>2, <1>3, <1>4, <1>5, <1>6
     DEF DoneOK, ModeNeeded, KeepManual, ShouldSettle, SetpointNeeded, Captured, AttrNeeded,
         ModeTried, SpTried, AttrTried, RestoringRest
<1>14. QED
  BY <1>7, <1>8, <1>9, <1>10, <1>11, <1>12, <1>13 DEF IInv

\* The guard is armed before the mode is written; without a mode to write the test starts
\* with nothing armed.
LEMMA SendModeStep ==
  ASSUME IInv, SendMode
  PROVE  IInv'
<1>1. UNCHANGED <<policy, loop, lost, signal, presses, poll, expired, hold, report, attempt,
                  outcome>>
  BY DEF SendMode, Send, world, rest, Stay
<1>2. /\ pc = "mode"
      /\ \/ /\ policy.mode /\ policy.init # "manual" /\ guard' = [guard EXCEPT !.mode = TRUE]
            /\ pc' = "mode_out" /\ flight' = flight \cup {WriteAt("mode_out")}
         \/ /\ ~ policy.mode \/ policy.init = "manual"
            /\ pc' = "polling" /\ guard' = guard /\ flight' = flight
  BY DEF SendMode, Send, world, rest, Stay
<1>3. \A place : WriteAt(place)' = WriteAt(place)
  BY <1>1 DEF WriteAt
<1>4. /\ WriteAt("mode_out") = <<"mode", "manual">> /\ WriteAt("mode_out") \in Writes
      /\ WriteAt("mode_out") # MvMoved
  BY PlaceFacts, PlaceWrites DEF Sends, IInv, TypeOK, MvMoved, MvInitial
<1>5. /\ guard' \in [mode: BOOLEAN, attr: BOOLEAN]
      /\ guard'.attr <=> guard.attr
      /\ guard.mode => guard'.mode
      /\ pc' = "mode_out" => guard'.mode
  BY <1>2 DEF IInv, TypeOK
<1>6. TypeOK /\ GuardOK /\ FlightOK /\ ArrivedOK /\ MvOK /\ ManualOK /\ DoneOK
  BY DEF IInv
<1>7. TypeOK'
  BY <1>1, <1>2, <1>3, <1>4, <1>5, <1>6
     DEF TypeOK, LoopRec, Sends, PCs, Preparing, Restoring, RestoringMv, RestoringRest
<1>8. GuardOK'
  BY <1>1, <1>2, <1>3, <1>4, <1>5, <1>6
     DEF GuardOK, KeepManual, ShouldSettle, ModeNeeded, SetpointNeeded, Captured, AttrNeeded
<1>9. FlightOK'
  BY <1>1, <1>2, <1>3, <1>4, <1>5, <1>6 DEF FlightOK, Opening, Preparing, Sends
<1>10. ArrivedOK'
  BY <1>1, <1>2, <1>3, <1>4, <1>5, <1>6 DEF ArrivedOK, Sends
<1>11. MvOK'
  BY <1>1, <1>2, <1>3, <1>4, <1>5, <1>6
     DEF MvOK, RestoringMv, RestoringRest, Opening, Preparing
<1>12. ManualOK'
  BY <1>1, <1>2, <1>3, <1>4, <1>5, <1>6
     DEF ManualOK, ShouldSettle, RestoringMv, RestoringRest, Opening, Preparing, GuardOK
<1>13. DoneOK'
  BY <1>1, <1>2, <1>3, <1>4, <1>5, <1>6
     DEF DoneOK, ModeNeeded, KeepManual, ShouldSettle, SetpointNeeded, Captured, AttrNeeded,
         ModeTried, SpTried, AttrTried, RestoringRest
<1>14. QED
  BY <1>7, <1>8, <1>9, <1>10, <1>11, <1>12, <1>13 DEF IInv


\* The test ends with no MV write of unknown fate, or with a lost one on a loop whose
\* tracker says nothing.
LEMMA PollEndsStep ==
  ASSUME IInv, PollEnds
  PROVE  IInv'
<1>1. UNCHANGED <<policy, guard, presses, expired, hold, report, attempt, outcome>>
  BY DEF PollEnds
<1>2. PICK result \in {"completed", "aborted", "failed"},
           track \in {"none", "relay", "snapback", "confirmed"},
           mv \in {"initial", "moved"},
           sent \in {{}, {MvInitial}, {MvMoved}} :
         /\ ~ policy.live => track = "none" /\ sent = {}
         /\ policy.live /\ result = "completed" => track \in {"snapback", "confirmed"}
         /\ track = "snapback" => sent \subseteq {MvInitial}
         /\ track = "relay" => sent \subseteq {MvMoved}
         /\ track = "confirmed" => mv = "initial" /\ sent = {}
         /\ poll' = [result |-> result, track |-> track]
         /\ loop' = [loop EXCEPT !.mv = mv]
         /\ flight' = flight \cup sent
         /\ \/ UNCHANGED lost
            \/ track = "none" /\ sent # {} /\ lost' = TRUE
         /\ \/ UNCHANGED signal
            \/ signal /\ result = "aborted" /\ signal' = FALSE
  BY DEF PollEnds, MvInitial, MvMoved
<1>3. pc = "polling" /\ pc' = "mv"
  BY DEF PollEnds
<1>4. signal' \in BOOLEAN
  BY <1>2 DEF IInv, TypeOK
<1>5. lost' \in BOOLEAN
  BY <1>2 DEF IInv, TypeOK
<1>6. ~ lost' => ~ lost
  <2>1. CASE lost' = lost
    BY <2>1
  <2>2. CASE lost' = TRUE
    BY <2>2
  <2>3. QED
    BY <1>2, <2>1, <2>2
<1>7. /\ loop' \in LoopRec /\ loop'.mode = loop.mode /\ loop'.mv = mv
      /\ loop'.sp = loop.sp /\ loop'.attr = loop.attr
  BY <1>2 DEF IInv, TypeOK, LoopRec
<1>8. /\ MvInitial \in Writes /\ MvMoved \in Writes /\ MvInitial # MvMoved
      /\ MvInitial[1] = "mv" /\ MvMoved[1] = "mv"
  BY DEF MvInitial, MvMoved, Writes
<1>9. \A place : WriteAt(place)' = WriteAt(place)
  BY <1>1 DEF WriteAt
<1>10. TypeOK /\ GuardOK /\ FlightOK /\ ArrivedOK /\ MvOK /\ ManualOK /\ DoneOK
  BY DEF IInv
<1>11. TypeOK'
  BY <1>1, <1>2, <1>3, <1>4, <1>5, <1>6, <1>7, <1>8, <1>9, <1>10
     DEF TypeOK, LoopRec, PCs, Restoring, RestoringMv
<1>12. GuardOK'
  BY <1>1, <1>2, <1>3, <1>4, <1>5, <1>6, <1>7, <1>8, <1>9, <1>10
     DEF GuardOK, KeepManual, ShouldSettle, ModeNeeded, SetpointNeeded, Captured, AttrNeeded
<1>13. FlightOK'
  BY <1>1, <1>2, <1>3, <1>4, <1>5, <1>6, <1>7, <1>8, <1>9, <1>10
     DEF FlightOK, Opening, Preparing, Sends
<1>14. ArrivedOK'
  BY <1>1, <1>2, <1>3, <1>4, <1>5, <1>6, <1>7, <1>8, <1>9, <1>10 DEF ArrivedOK, Sends
<1>15. MvOK'
  BY <1>1, <1>2, <1>3, <1>4, <1>5, <1>6, <1>7, <1>8, <1>9, <1>10
     DEF MvOK, RestoringMv, RestoringRest, Opening, Preparing, FlightOK
<1>16. ManualOK'
  BY <1>1, <1>2, <1>3, <1>4, <1>5, <1>6, <1>7, <1>8, <1>9, <1>10
     DEF ManualOK, ShouldSettle, RestoringMv, RestoringRest, Opening, Preparing
<1>17. DoneOK'
  BY <1>1, <1>2, <1>3, <1>4, <1>5, <1>6, <1>7, <1>8, <1>9, <1>10
     DEF DoneOK, ModeNeeded, KeepManual, ShouldSettle, SetpointNeeded, Captured, AttrNeeded,
         ModeTried, SpTried, AttrTried, RestoringRest
<1>18. QED
  BY <1>11, <1>12, <1>13, <1>14, <1>15, <1>16, <1>17 DEF IInv

\* A confirmed snapback stands; otherwise the MV is read back or written.
LEMMA ChooseMvStep ==
  ASSUME IInv, ChooseMv
  PROVE  IInv'
<1>1. UNCHANGED <<policy, loop, lost, guard, signal, presses, poll, expired, hold, attempt,
                  outcome>>
  BY DEF ChooseMv, MvStep, Send, world
<1>2. /\ pc = "mv"
      /\ \/ /\ policy.live /\ poll.track = "confirmed" /\ flight' = flight
            /\ pc' = "policy" /\ report' = [report EXCEPT !["mv"] = "succeeded"]
         \/ poll.track = "snapback" /\ pc' = "handoff" /\ flight' = flight /\ report' = report
         \/ /\ pc' = "mv_back" /\ flight' = flight \cup {WriteAt("mv_back")}
            /\ report' = report
  BY DEF ChooseMv, MvStep, Send, world
<1>3. \A place : WriteAt(place)' = WriteAt(place)
  BY <1>1 DEF WriteAt
<1>4. /\ WriteAt("mv_back") = <<"mv", "initial">> /\ WriteAt("mv_back") \in Writes
      /\ WriteAt("mv_back") # MvMoved
  BY PlaceFacts, PlaceWrites DEF Sends, IInv, TypeOK, MvMoved, MvInitial
<1>5. /\ report' \in [Steps -> StepOutcome]
      /\ report["mv"] \in StepOutcome
      /\ report'["mode"] = report["mode"] /\ report'["sp"] = report["sp"]
      /\ report'["attr"] = report["attr"]
      /\ pc' = "policy" => report'["mv"] \in {"succeeded", "failed"}
      /\ pc' # "policy" => report' = report
      /\ report'["mv"] = "succeeded" =>
            report["mv"] = "succeeded" \/ (pc' = "policy" /\ poll.track = "confirmed")
  BY <1>2 DEF IInv, TypeOK, Steps, StepOutcome
<1>6. TypeOK /\ GuardOK /\ FlightOK /\ ArrivedOK /\ MvOK /\ ManualOK /\ DoneOK
  BY DEF IInv
<1>7. TypeOK'
  BY <1>1, <1>2, <1>3, <1>4, <1>5, <1>6
     DEF TypeOK, LoopRec, Sends, PCs, Preparing, Restoring, RestoringMv, RestoringRest
<1>8. GuardOK'
  BY <1>1, <1>2, <1>3, <1>4, <1>5, <1>6
     DEF GuardOK, KeepManual, ShouldSettle, ModeNeeded, SetpointNeeded, Captured, AttrNeeded
<1>9. FlightOK'
  BY <1>1, <1>2, <1>3, <1>4, <1>5, <1>6 DEF FlightOK, Opening, Preparing, Sends, MvInitial
<1>10. ArrivedOK'
  BY <1>1, <1>2, <1>3, <1>4, <1>5, <1>6 DEF ArrivedOK, Sends
<1>11. MvOK'
  BY <1>1, <1>2, <1>3, <1>4, <1>5, <1>6
     DEF MvOK, RestoringMv, RestoringRest, Opening, Preparing, FlightOK
<1>12. ManualOK'
  BY <1>1, <1>2, <1>3, <1>4, <1>5, <1>6
     DEF ManualOK, ShouldSettle, RestoringMv, RestoringRest, Opening, Preparing
<1>13. DoneOK'
  BY <1>1, <1>2, <1>3, <1>4, <1>5, <1>6
     DEF DoneOK, ModeNeeded, KeepManual, ShouldSettle, SetpointNeeded, Captured, AttrNeeded,
         ModeTried, SpTried, AttrTried, RestoringRest
<1>14. QED
  BY <1>7, <1>8, <1>9, <1>10, <1>11, <1>12, <1>13 DEF IInv

\* A readback that matches is trusted: the last MV write was the snapback itself.
LEMMA HandoffStep ==
  ASSUME IInv, HandoffReturns
  PROVE  IInv'
<1>1. UNCHANGED <<policy, loop, lost, guard, signal, presses, poll, expired, hold, attempt,
                  outcome>>
  BY DEF HandoffReturns, MvStep, Send, world
<1>2. /\ pc = "handoff"
      /\ \/ /\ loop.mv = "initial" /\ flight' = flight
            /\ pc' = "policy" /\ report' = [report EXCEPT !["mv"] = "succeeded"]
         \/ /\ pc' = "mv_back" /\ flight' = flight \cup {WriteAt("mv_back")}
            /\ report' = report
  BY DEF HandoffReturns, MvStep, Send, world
<1>3. \A place : WriteAt(place)' = WriteAt(place)
  BY <1>1 DEF WriteAt
<1>4. /\ WriteAt("mv_back") = <<"mv", "initial">> /\ WriteAt("mv_back") \in Writes
      /\ WriteAt("mv_back") # MvMoved
  BY PlaceFacts, PlaceWrites DEF Sends, IInv, TypeOK, MvMoved, MvInitial
<1>5. /\ report' \in [Steps -> StepOutcome]
      /\ report["mv"] \in StepOutcome
      /\ report'["mode"] = report["mode"] /\ report'["sp"] = report["sp"]
      /\ report'["attr"] = report["attr"]
      /\ pc' = "policy" => report'["mv"] \in {"succeeded", "failed"}
      /\ pc' # "policy" => report' = report
      /\ report'["mv"] = "succeeded" =>
            report["mv"] = "succeeded" \/ (loop.mv = "initial" /\ flight' = flight)
  BY <1>2 DEF IInv, TypeOK, Steps, StepOutcome
<1>6. TypeOK /\ GuardOK /\ FlightOK /\ ArrivedOK /\ MvOK /\ ManualOK /\ DoneOK
  BY DEF IInv
<1>7. TypeOK'
  BY <1>1, <1>2, <1>3, <1>4, <1>5, <1>6
     DEF TypeOK, LoopRec, Sends, PCs, Preparing, Restoring, RestoringMv, RestoringRest
<1>8. GuardOK'
  BY <1>1, <1>2, <1>3, <1>4, <1>5, <1>6
     DEF GuardOK, KeepManual, ShouldSettle, ModeNeeded, SetpointNeeded, Captured, AttrNeeded
<1>9. FlightOK'
  BY <1>1, <1>2, <1>3, <1>4, <1>5, <1>6 DEF FlightOK, Opening, Preparing, Sends, MvInitial
<1>10. ArrivedOK'
  BY <1>1, <1>2, <1>3, <1>4, <1>5, <1>6 DEF ArrivedOK, Sends
<1>11. MvOK'
  BY <1>1, <1>2, <1>3, <1>4, <1>5, <1>6
     DEF MvOK, RestoringMv, RestoringRest, Opening, Preparing, FlightOK
<1>12. ManualOK'
  BY <1>1, <1>2, <1>3, <1>4, <1>5, <1>6
     DEF ManualOK, ShouldSettle, RestoringMv, RestoringRest, Opening, Preparing
<1>13. DoneOK'
  BY <1>1, <1>2, <1>3, <1>4, <1>5, <1>6
     DEF DoneOK, ModeNeeded, KeepManual, ShouldSettle, SetpointNeeded, Captured, AttrNeeded,
         ModeTried, SpTried, AttrTried, RestoringRest
<1>14. QED
  BY <1>7, <1>8, <1>9, <1>10, <1>11, <1>12, <1>13 DEF IInv

\* A matching readback after the accepted write is the restored MV.
LEMMA MvCheckedStep ==
  ASSUME IInv, MvChecked
  PROVE  IInv'
<1>1. UNCHANGED <<policy, loop, flight, lost, guard, signal, presses, poll, expired, hold,
                  attempt, outcome>>
  BY DEF MvChecked, MvStep, world
<1>2. /\ pc = "mv_check"
      /\ pc' = "policy"
      /\ \/ loop.mv = "initial" /\ report' = [report EXCEPT !["mv"] = "succeeded"]
         \/ report' = [report EXCEPT !["mv"] = "failed"]
  BY DEF MvChecked, MvStep, world
<1>3. /\ report' \in [Steps -> StepOutcome]
      /\ report["mv"] \in StepOutcome
      /\ report'["mode"] = report["mode"] /\ report'["sp"] = report["sp"]
      /\ report'["attr"] = report["attr"]
      /\ pc' = "policy" => report'["mv"] \in {"succeeded", "failed"}
      /\ pc' # "policy" => report' = report
      /\ report'["mv"] = "succeeded" =>
            report["mv"] = "succeeded" \/ (loop.mv = "initial")
  BY <1>2 DEF IInv, TypeOK, Steps, StepOutcome
<1>4. \A place : WriteAt(place)' = WriteAt(place)
  BY <1>1 DEF WriteAt
<1>5. TypeOK /\ GuardOK /\ FlightOK /\ ArrivedOK /\ MvOK /\ ManualOK /\ DoneOK
  BY DEF IInv
<1>6. TypeOK'
  BY <1>1, <1>2, <1>3, <1>4, <1>5 DEF TypeOK, LoopRec, PCs, Restoring
<1>7. GuardOK'
  BY <1>1, <1>2, <1>3, <1>4, <1>5
     DEF GuardOK, KeepManual, ShouldSettle, ModeNeeded, SetpointNeeded, Captured, AttrNeeded
<1>8. FlightOK'
  BY <1>1, <1>2, <1>3, <1>4, <1>5 DEF FlightOK, Opening, Preparing, Sends
<1>9. ArrivedOK'
  BY <1>1, <1>2, <1>3, <1>4, <1>5 DEF ArrivedOK, Sends
<1>10. MvOK'
  BY <1>1, <1>2, <1>3, <1>4, <1>5
     DEF MvOK, RestoringMv, RestoringRest, Opening, Preparing, FlightOK
<1>11. ManualOK'
  BY <1>1, <1>2, <1>3, <1>4, <1>5
     DEF ManualOK, ShouldSettle, RestoringMv, RestoringRest, Opening, Preparing
<1>12. DoneOK'
  BY <1>1, <1>2, <1>3, <1>4, <1>5
     DEF DoneOK, ModeNeeded, KeepManual, ShouldSettle, SetpointNeeded, Captured, AttrNeeded,
         ModeTried, SpTried, AttrTried, RestoringRest
<1>13. QED
  BY <1>6, <1>7, <1>8, <1>9, <1>10, <1>11, <1>12 DEF IInv

\* The hold is for a finished test whose MV is back.
LEMMA ChoosePolicyStep ==
  ASSUME IInv, ChoosePolicy
  PROVE  IInv'
<1>1. UNCHANGED <<policy, loop, flight, lost, guard, signal, presses, poll, expired, hold,
                  report, attempt, outcome>>
  BY DEF ChoosePolicy, world, rest
<1>2. /\ pc = "policy"
      /\ \/ /\ ShouldSettle /\ report["mv"] = "succeeded" /\ poll.result = "completed"
            /\ pc' = "settling"
         \/ pc' = "rest_mode"
  BY DEF ChoosePolicy, world, rest
<1>3. \A place : WriteAt(place)' = WriteAt(place)
  BY <1>1 DEF WriteAt
<1>4. TypeOK /\ GuardOK /\ FlightOK /\ ArrivedOK /\ MvOK /\ ManualOK /\ DoneOK
  BY DEF IInv
<1>5. TypeOK'
  BY <1>1, <1>2, <1>3, <1>4
     DEF TypeOK, LoopRec, Sends, PCs, Preparing, Restoring, RestoringMv, RestoringRest
<1>6. GuardOK'
  BY <1>1, <1>2, <1>3, <1>4
     DEF GuardOK, KeepManual, ShouldSettle, ModeNeeded, SetpointNeeded, Captured, AttrNeeded
<1>7. FlightOK'
  BY <1>1, <1>2, <1>3, <1>4 DEF FlightOK, Opening, Preparing, Sends
<1>8. ArrivedOK'
  BY <1>1, <1>2, <1>3, <1>4 DEF ArrivedOK, Sends
<1>9. MvOK'
  BY <1>1, <1>2, <1>3, <1>4 DEF MvOK, RestoringMv, RestoringRest, Opening, Preparing
<1>10. ManualOK'
  BY <1>1, <1>2, <1>3, <1>4
     DEF ManualOK, ShouldSettle, RestoringMv, RestoringRest, Opening, Preparing
<1>11. DoneOK'
  BY <1>1, <1>2, <1>3, <1>4
     DEF DoneOK, ModeNeeded, KeepManual, ShouldSettle, SetpointNeeded, Captured, AttrNeeded,
         ModeTried, SpTried, AttrTried, RestoringRest
<1>12. QED
  BY <1>5, <1>6, <1>7, <1>8, <1>9, <1>10, <1>11 DEF IInv

\* A failed hold leaves the loop in Manual.
LEMMA SettleStep ==
  ASSUME IInv, Settle
  PROVE  IInv'
<1>1. UNCHANGED <<policy, loop, flight, lost, guard, presses, poll, expired, report,
                  attempt, outcome>>
  BY DEF Settle, world, IInv, TypeOK
<1>2. pc = "settling" /\ pc' = "rest_mode" /\ hold' \in {"held", "failed"} /\ signal' \in BOOLEAN
  BY DEF Settle, world, IInv, TypeOK
<1>3. \A place : WriteAt(place)' = WriteAt(place)
  BY <1>1 DEF WriteAt
<1>4. TypeOK /\ GuardOK /\ FlightOK /\ ArrivedOK /\ MvOK /\ ManualOK /\ DoneOK
  BY DEF IInv
<1>5. TypeOK'
  BY <1>1, <1>2, <1>3, <1>4
     DEF TypeOK, LoopRec, Sends, PCs, Preparing, Restoring, RestoringMv, RestoringRest
<1>6. GuardOK'
  BY <1>1, <1>2, <1>3, <1>4
     DEF GuardOK, KeepManual, ShouldSettle, ModeNeeded, SetpointNeeded, Captured, AttrNeeded
<1>7. FlightOK'
  BY <1>1, <1>2, <1>3, <1>4 DEF FlightOK, Opening, Preparing, Sends
<1>8. ArrivedOK'
  BY <1>1, <1>2, <1>3, <1>4 DEF ArrivedOK, Sends
<1>9. MvOK'
  BY <1>1, <1>2, <1>3, <1>4 DEF MvOK, RestoringMv, RestoringRest, Opening, Preparing
<1>10. ManualOK'
  BY <1>1, <1>2, <1>3, <1>4
     DEF ManualOK, ShouldSettle, RestoringMv, RestoringRest, Opening, Preparing, DoneOK
<1>11. DoneOK'
  BY <1>1, <1>2, <1>3, <1>4
     DEF DoneOK, ModeNeeded, KeepManual, ShouldSettle, SetpointNeeded, Captured, AttrNeeded,
         ModeTried, SpTried, AttrTried, RestoringRest
<1>12. QED
  BY <1>5, <1>6, <1>7, <1>8, <1>9, <1>10, <1>11 DEF IInv

\* The release is sent only with its conditions met.
LEMMA SendModeBackStep ==
  ASSUME IInv, SendModeBack
  PROVE  IInv'
<1>1. UNCHANGED <<policy, loop, lost, guard, signal, presses, poll, expired, hold, report,
                  attempt, outcome>>
  BY DEF SendModeBack, SendStep, Send, world, rest, Stay
<1>2. /\ pc = "rest_mode"
      /\ \/ /\ ModeNeeded /\ ~ KeepManual
            /\ pc' = "mode_back" /\ flight' = flight \cup {WriteAt("mode_back")}
         \/ /\ ~ (ModeNeeded /\ ~ KeepManual)
            /\ pc' = "rest_sp" /\ flight' = flight
  BY DEF SendModeBack, SendStep, Send, world, rest, Stay
<1>3. \A place : WriteAt(place)' = WriteAt(place)
  BY <1>1 DEF WriteAt
<1>4. /\ WriteAt("mode_back") = <<"mode", policy.init>> /\ WriteAt("mode_back") \in Writes
      /\ WriteAt("mode_back") # MvMoved
  BY PlaceFacts, PlaceWrites DEF Sends, IInv, TypeOK, MvMoved, MvInitial
<1>5. TypeOK /\ GuardOK /\ FlightOK /\ ArrivedOK /\ MvOK /\ ManualOK /\ DoneOK
  BY DEF IInv
<1>6. TypeOK'
  BY <1>1, <1>2, <1>3, <1>4, <1>5
     DEF TypeOK, LoopRec, Sends, PCs, Preparing, Restoring, RestoringMv, RestoringRest
<1>7. GuardOK'
  BY <1>1, <1>2, <1>3, <1>4, <1>5
     DEF GuardOK, KeepManual, ShouldSettle, ModeNeeded, SetpointNeeded, Captured, AttrNeeded
<1>8. FlightOK'
  BY <1>1, <1>2, <1>3, <1>4, <1>5 DEF FlightOK, Opening, Preparing, Sends
<1>9. ArrivedOK'
  BY <1>1, <1>2, <1>3, <1>4, <1>5 DEF ArrivedOK, Sends
<1>10. MvOK'
  BY <1>1, <1>2, <1>3, <1>4, <1>5 DEF MvOK, RestoringMv, RestoringRest, Opening, Preparing
<1>11. ManualOK'
  BY <1>1, <1>2, <1>3, <1>4, <1>5
     DEF ManualOK, ShouldSettle, RestoringMv, RestoringRest, Opening, Preparing
<1>12. DoneOK'
  BY <1>1, <1>2, <1>3, <1>4, <1>5
     DEF DoneOK, ModeNeeded, KeepManual, ShouldSettle, SetpointNeeded, Captured, AttrNeeded,
         ModeTried, SpTried, AttrTried, RestoringRest
<1>13. QED
  BY <1>6, <1>7, <1>8, <1>9, <1>10, <1>11, <1>12 DEF IInv

\* The setpoint of a captured loop is written.
LEMMA SendSetpointBackStep ==
  ASSUME IInv, SendSetpointBack
  PROVE  IInv'
<1>1. UNCHANGED <<policy, loop, lost, guard, signal, presses, poll, expired, hold, report,
                  attempt, outcome>>
  BY DEF SendSetpointBack, SendStep, Send, world, rest, Stay
<1>2. /\ pc = "rest_sp"
      /\ \/ /\ SetpointNeeded
            /\ pc' = "sp_back" /\ flight' = flight \cup {WriteAt("sp_back")}
         \/ /\ ~ (SetpointNeeded)
            /\ pc' = "rest_attr" /\ flight' = flight
  BY DEF SendSetpointBack, SendStep, Send, world, rest, Stay
<1>3. \A place : WriteAt(place)' = WriteAt(place)
  BY <1>1 DEF WriteAt
<1>4. /\ WriteAt("sp_back") = <<"sp", "initial">> /\ WriteAt("sp_back") \in Writes
      /\ WriteAt("sp_back") # MvMoved
  BY PlaceFacts, PlaceWrites DEF Sends, IInv, TypeOK, MvMoved, MvInitial
<1>5. TypeOK /\ GuardOK /\ FlightOK /\ ArrivedOK /\ MvOK /\ ManualOK /\ DoneOK
  BY DEF IInv
<1>6. TypeOK'
  BY <1>1, <1>2, <1>3, <1>4, <1>5
     DEF TypeOK, LoopRec, Sends, PCs, Preparing, Restoring, RestoringMv, RestoringRest
<1>7. GuardOK'
  BY <1>1, <1>2, <1>3, <1>4, <1>5
     DEF GuardOK, KeepManual, ShouldSettle, ModeNeeded, SetpointNeeded, Captured, AttrNeeded
<1>8. FlightOK'
  BY <1>1, <1>2, <1>3, <1>4, <1>5 DEF FlightOK, Opening, Preparing, Sends
<1>9. ArrivedOK'
  BY <1>1, <1>2, <1>3, <1>4, <1>5 DEF ArrivedOK, Sends
<1>10. MvOK'
  BY <1>1, <1>2, <1>3, <1>4, <1>5 DEF MvOK, RestoringMv, RestoringRest, Opening, Preparing
<1>11. ManualOK'
  BY <1>1, <1>2, <1>3, <1>4, <1>5
     DEF ManualOK, ShouldSettle, RestoringMv, RestoringRest, Opening, Preparing
<1>12. DoneOK'
  BY <1>1, <1>2, <1>3, <1>4, <1>5
     DEF DoneOK, ModeNeeded, KeepManual, ShouldSettle, SetpointNeeded, Captured, AttrNeeded,
         ModeTried, SpTried, AttrTried, RestoringRest
<1>13. QED
  BY <1>6, <1>7, <1>8, <1>9, <1>10, <1>11, <1>12 DEF IInv

\* The mode attribute is written if the tune changed it.
LEMMA SendAttrBackStep ==
  ASSUME IInv, SendAttrBack
  PROVE  IInv'
<1>1. UNCHANGED <<policy, loop, lost, guard, signal, presses, poll, expired, hold, report,
                  attempt, outcome>>
  BY DEF SendAttrBack, SendStep, Send, world, rest, Stay
<1>2. /\ pc = "rest_attr"
      /\ \/ /\ AttrNeeded
            /\ pc' = "attr_back" /\ flight' = flight \cup {WriteAt("attr_back")}
         \/ /\ ~ (AttrNeeded)
            /\ pc' = "rest_done" /\ flight' = flight
  BY DEF SendAttrBack, SendStep, Send, world, rest, Stay
<1>3. \A place : WriteAt(place)' = WriteAt(place)
  BY <1>1 DEF WriteAt
<1>4. /\ WriteAt("attr_back") = <<"attr", "initial">> /\ WriteAt("attr_back") \in Writes
      /\ WriteAt("attr_back") # MvMoved
  BY PlaceFacts, PlaceWrites DEF Sends, IInv, TypeOK, MvMoved, MvInitial
<1>5. TypeOK /\ GuardOK /\ FlightOK /\ ArrivedOK /\ MvOK /\ ManualOK /\ DoneOK
  BY DEF IInv
<1>6. TypeOK'
  BY <1>1, <1>2, <1>3, <1>4, <1>5
     DEF TypeOK, LoopRec, Sends, PCs, Preparing, Restoring, RestoringMv, RestoringRest
<1>7. GuardOK'
  BY <1>1, <1>2, <1>3, <1>4, <1>5
     DEF GuardOK, KeepManual, ShouldSettle, ModeNeeded, SetpointNeeded, Captured, AttrNeeded
<1>8. FlightOK'
  BY <1>1, <1>2, <1>3, <1>4, <1>5 DEF FlightOK, Opening, Preparing, Sends
<1>9. ArrivedOK'
  BY <1>1, <1>2, <1>3, <1>4, <1>5 DEF ArrivedOK, Sends
<1>10. MvOK'
  BY <1>1, <1>2, <1>3, <1>4, <1>5 DEF MvOK, RestoringMv, RestoringRest, Opening, Preparing
<1>11. ManualOK'
  BY <1>1, <1>2, <1>3, <1>4, <1>5
     DEF ManualOK, ShouldSettle, RestoringMv, RestoringRest, Opening, Preparing
<1>12. DoneOK'
  BY <1>1, <1>2, <1>3, <1>4, <1>5
     DEF DoneOK, ModeNeeded, KeepManual, ShouldSettle, SetpointNeeded, Captured, AttrNeeded,
         ModeTried, SpTried, AttrTried, RestoringRest
<1>13. QED
  BY <1>6, <1>7, <1>8, <1>9, <1>10, <1>11, <1>12 DEF IInv

\* Confirmed means that no step and no hold failed.
LEMMA RestDoneStep ==
  ASSUME IInv, RestDone
  PROVE  IInv'
<1>1. UNCHANGED <<policy, loop, flight, lost, guard, signal, presses, poll, expired, hold,
                  report, outcome>>
  BY DEF RestDone, Finish, world, rest
<1>2. /\ pc = "rest_done" /\ pc' = "finishing" /\ attempt' \in {"confirmed", "failed"}
      /\ attempt' = "confirmed" => hold # "failed" /\ \A s \in Steps : report[s] # "failed"
  BY DEF RestDone, Finish, world, rest
<1>3. \A place : WriteAt(place)' = WriteAt(place)
  BY <1>1 DEF WriteAt
<1>4. TypeOK /\ GuardOK /\ FlightOK /\ ArrivedOK /\ MvOK /\ ManualOK /\ DoneOK
  BY DEF IInv
<1>5. TypeOK'
  BY <1>1, <1>2, <1>3, <1>4
     DEF TypeOK, LoopRec, Sends, PCs, Preparing, Restoring, RestoringMv, RestoringRest
<1>6. GuardOK'
  BY <1>1, <1>2, <1>3, <1>4
     DEF GuardOK, KeepManual, ShouldSettle, ModeNeeded, SetpointNeeded, Captured, AttrNeeded
<1>7. FlightOK'
  BY <1>1, <1>2, <1>3, <1>4 DEF FlightOK, Opening, Preparing, Sends
<1>8. ArrivedOK'
  BY <1>1, <1>2, <1>3, <1>4 DEF ArrivedOK, Sends
<1>9. MvOK'
  BY <1>1, <1>2, <1>3, <1>4 DEF MvOK, RestoringMv, RestoringRest, Opening, Preparing
<1>10. ManualOK'
  BY <1>1, <1>2, <1>3, <1>4
     DEF ManualOK, ShouldSettle, RestoringMv, RestoringRest, Opening, Preparing
<1>11. DoneOK'
  BY <1>1, <1>2, <1>3, <1>4
     DEF DoneOK, ModeNeeded, KeepManual, ShouldSettle, SetpointNeeded, Captured, AttrNeeded,
         ModeTried, SpTried, AttrTried, RestoringRest
<1>12. QED
  BY <1>5, <1>6, <1>7, <1>8, <1>9, <1>10, <1>11 DEF IInv

\* A restore given up on with a write under way has lost it.
LEMMA MvExpiresStep ==
  ASSUME IInv, RestoreMvExpires
  PROVE  IInv'
<1>1. UNCHANGED <<policy, guard, signal, presses, poll, expired, hold, report, outcome>>
  BY DEF RestoreMvExpires, Finish, Abandoned, world, rest
<1>2. pc \in {"mv_back", "mv_check"}
  BY DEF RestoreMvExpires
<1>3. /\ attempt' = "expired" /\ pc' = "finishing" /\ loop' = loop /\ flight' = flight
      /\ lost' \in BOOLEAN /\ (lost => lost') /\ (pc \in Sends => lost')
  BY <1>2 DEF RestoreMvExpires, Finish, Abandoned, world, Sends, IInv, TypeOK
<1>4. \A place : WriteAt(place)' = WriteAt(place)
  BY <1>1 DEF WriteAt
<1>5. TypeOK /\ GuardOK /\ FlightOK /\ ArrivedOK /\ MvOK /\ ManualOK /\ DoneOK
  BY DEF IInv
<1>6. TypeOK'
  BY <1>1, <1>2, <1>3, <1>4, <1>5 DEF TypeOK, LoopRec, PCs
<1>7. GuardOK'
  BY <1>1, <1>2, <1>3, <1>4, <1>5
     DEF GuardOK, KeepManual, ShouldSettle, ModeNeeded, SetpointNeeded, Captured, AttrNeeded
<1>8. FlightOK'
  BY <1>1, <1>2, <1>3, <1>4, <1>5 DEF FlightOK, Opening, Preparing, Sends
<1>9. ArrivedOK'
  BY <1>1, <1>2, <1>3, <1>4, <1>5 DEF ArrivedOK, Sends, RestoringRest
<1>10. MvOK'
  BY <1>1, <1>2, <1>3, <1>4, <1>5 DEF MvOK, RestoringMv, RestoringRest, Opening, Preparing
<1>11. ManualOK'
  BY <1>1, <1>2, <1>3, <1>4, <1>5
     DEF ManualOK, ShouldSettle, RestoringMv, RestoringRest, Opening, Preparing
<1>12. DoneOK'
  BY <1>1, <1>2, <1>3, <1>4, <1>5
     DEF DoneOK, ModeNeeded, KeepManual, ShouldSettle, SetpointNeeded, Captured, AttrNeeded,
         ModeTried, SpTried, AttrTried, RestoringRest
<1>13. QED
  BY <1>6, <1>7, <1>8, <1>9, <1>10, <1>11, <1>12 DEF IInv

\* The second Ctrl+C likewise.
LEMMA MvInterruptedStep ==
  ASSUME IInv, RestoreMvInterrupted
  PROVE  IInv'
<1>1. UNCHANGED <<policy, guard, presses, poll, expired, hold, report, outcome>>
  BY DEF RestoreMvInterrupted, Finish, Abandoned, world, rest
<1>2. pc \in {"handoff", "mv_back", "mv_check"} /\ signal' \in BOOLEAN
  BY DEF RestoreMvInterrupted
<1>3. /\ attempt' = "interrupted" /\ pc' = "finishing" /\ loop' = loop /\ flight' = flight
      /\ lost' \in BOOLEAN /\ (lost => lost') /\ (pc \in Sends => lost')
  BY <1>2 DEF RestoreMvInterrupted, Finish, Abandoned, world, Sends, IInv, TypeOK
<1>4. \A place : WriteAt(place)' = WriteAt(place)
  BY <1>1 DEF WriteAt
<1>5. TypeOK /\ GuardOK /\ FlightOK /\ ArrivedOK /\ MvOK /\ ManualOK /\ DoneOK
  BY DEF IInv
<1>6. TypeOK'
  BY <1>1, <1>2, <1>3, <1>4, <1>5 DEF TypeOK, LoopRec, PCs
<1>7. GuardOK'
  BY <1>1, <1>2, <1>3, <1>4, <1>5
     DEF GuardOK, KeepManual, ShouldSettle, ModeNeeded, SetpointNeeded, Captured, AttrNeeded
<1>8. FlightOK'
  BY <1>1, <1>2, <1>3, <1>4, <1>5 DEF FlightOK, Opening, Preparing, Sends
<1>9. ArrivedOK'
  BY <1>1, <1>2, <1>3, <1>4, <1>5 DEF ArrivedOK, Sends, RestoringRest
<1>10. MvOK'
  BY <1>1, <1>2, <1>3, <1>4, <1>5 DEF MvOK, RestoringMv, RestoringRest, Opening, Preparing
<1>11. ManualOK'
  BY <1>1, <1>2, <1>3, <1>4, <1>5
     DEF ManualOK, ShouldSettle, RestoringMv, RestoringRest, Opening, Preparing
<1>12. DoneOK'
  BY <1>1, <1>2, <1>3, <1>4, <1>5
     DEF DoneOK, ModeNeeded, KeepManual, ShouldSettle, SetpointNeeded, Captured, AttrNeeded,
         ModeTried, SpTried, AttrTried, RestoringRest
<1>13. QED
  BY <1>6, <1>7, <1>8, <1>9, <1>10, <1>11, <1>12 DEF IInv

\* Likewise in the remaining steps.
LEMMA RestInterruptedStep ==
  ASSUME IInv, RestInterrupted
  PROVE  IInv'
<1>1. UNCHANGED <<policy, guard, presses, poll, expired, hold, report, outcome>>
  BY DEF RestInterrupted, Finish, Abandoned, world, rest
<1>2. pc \in RestoringRest /\ signal' \in BOOLEAN
  BY DEF RestInterrupted
<1>3. /\ attempt' = "interrupted" /\ pc' = "finishing" /\ loop' = loop /\ flight' = flight
      /\ lost' \in BOOLEAN /\ (lost => lost') /\ (pc \in Sends => lost')
  BY <1>2 DEF RestInterrupted, Finish, Abandoned, world, Sends, IInv, TypeOK
<1>4. \A place : WriteAt(place)' = WriteAt(place)
  BY <1>1 DEF WriteAt
<1>5. TypeOK /\ GuardOK /\ FlightOK /\ ArrivedOK /\ MvOK /\ ManualOK /\ DoneOK
  BY DEF IInv
<1>6. TypeOK'
  BY <1>1, <1>2, <1>3, <1>4, <1>5 DEF TypeOK, LoopRec, PCs
<1>7. GuardOK'
  BY <1>1, <1>2, <1>3, <1>4, <1>5
     DEF GuardOK, KeepManual, ShouldSettle, ModeNeeded, SetpointNeeded, Captured, AttrNeeded
<1>8. FlightOK'
  BY <1>1, <1>2, <1>3, <1>4, <1>5 DEF FlightOK, Opening, Preparing, Sends
<1>9. ArrivedOK'
  BY <1>1, <1>2, <1>3, <1>4, <1>5 DEF ArrivedOK, Sends, RestoringRest
<1>10. MvOK'
  BY <1>1, <1>2, <1>3, <1>4, <1>5 DEF MvOK, RestoringMv, RestoringRest, Opening, Preparing
<1>11. ManualOK'
  BY <1>1, <1>2, <1>3, <1>4, <1>5
     DEF ManualOK, ShouldSettle, RestoringMv, RestoringRest, Opening, Preparing
<1>12. DoneOK'
  BY <1>1, <1>2, <1>3, <1>4, <1>5
     DEF DoneOK, ModeNeeded, KeepManual, ShouldSettle, SetpointNeeded, Captured, AttrNeeded,
         ModeTried, SpTried, AttrTried, RestoringRest
<1>13. QED
  BY <1>6, <1>7, <1>8, <1>9, <1>10, <1>11, <1>12 DEF IInv

\* Likewise at the deadline.
LEMMA RestExpiresStep ==
  ASSUME IInv, RestExpires
  PROVE  IInv'
<1>1. UNCHANGED <<policy, guard, signal, presses, poll, expired, hold, report, outcome>>
  BY DEF RestExpires, Finish, Abandoned, world, rest
<1>2. pc \in RestoringRest
  BY DEF RestExpires
<1>3. /\ attempt' = "expired" /\ pc' = "finishing" /\ loop' = loop /\ flight' = flight
      /\ lost' \in BOOLEAN /\ (lost => lost') /\ (pc \in Sends => lost')
  BY <1>2 DEF RestExpires, Finish, Abandoned, world, Sends, IInv, TypeOK
<1>4. \A place : WriteAt(place)' = WriteAt(place)
  BY <1>1 DEF WriteAt
<1>5. TypeOK /\ GuardOK /\ FlightOK /\ ArrivedOK /\ MvOK /\ ManualOK /\ DoneOK
  BY DEF IInv
<1>6. TypeOK'
  BY <1>1, <1>2, <1>3, <1>4, <1>5 DEF TypeOK, LoopRec, PCs
<1>7. GuardOK'
  BY <1>1, <1>2, <1>3, <1>4, <1>5
     DEF GuardOK, KeepManual, ShouldSettle, ModeNeeded, SetpointNeeded, Captured, AttrNeeded
<1>8. FlightOK'
  BY <1>1, <1>2, <1>3, <1>4, <1>5 DEF FlightOK, Opening, Preparing, Sends
<1>9. ArrivedOK'
  BY <1>1, <1>2, <1>3, <1>4, <1>5 DEF ArrivedOK, Sends, RestoringRest
<1>10. MvOK'
  BY <1>1, <1>2, <1>3, <1>4, <1>5 DEF MvOK, RestoringMv, RestoringRest, Opening, Preparing
<1>11. ManualOK'
  BY <1>1, <1>2, <1>3, <1>4, <1>5
     DEF ManualOK, ShouldSettle, RestoringMv, RestoringRest, Opening, Preparing
<1>12. DoneOK'
  BY <1>1, <1>2, <1>3, <1>4, <1>5
     DEF DoneOK, ModeNeeded, KeepManual, ShouldSettle, SetpointNeeded, Captured, AttrNeeded,
         ModeTried, SpTried, AttrTried, RestoringRest
<1>13. QED
  BY <1>6, <1>7, <1>8, <1>9, <1>10, <1>11, <1>12 DEF IInv

\* The end of the run reads the attempt and leaves it.
LEMMA FinishStep ==
  ASSUME IInv, FinishRun
  PROVE  IInv'
<1>1. UNCHANGED <<policy, loop, flight, lost, guard, signal, presses, poll, expired, hold,
                  report, attempt>>
  BY DEF FinishRun, world, rest, IInv, TypeOK
<1>2. /\ pc = "finishing" /\ pc' \in {"write_back", "done"}
      /\ outcome' \in {"none", "completed", "aborted", "failed", "restore_incomplete"}
  BY DEF FinishRun, world, rest, IInv, TypeOK
<1>3. \A place : WriteAt(place)' = WriteAt(place)
  BY <1>1 DEF WriteAt
<1>4. TypeOK /\ GuardOK /\ FlightOK /\ ArrivedOK /\ MvOK /\ ManualOK /\ DoneOK
  BY DEF IInv
<1>5. TypeOK'
  BY <1>1, <1>2, <1>3, <1>4 DEF TypeOK, LoopRec, PCs
<1>6. GuardOK'
  BY <1>1, <1>2, <1>3, <1>4
     DEF GuardOK, KeepManual, ShouldSettle, ModeNeeded, SetpointNeeded, Captured, AttrNeeded
<1>7. FlightOK'
  BY <1>1, <1>2, <1>3, <1>4 DEF FlightOK, Opening, Preparing, Sends
<1>8. ArrivedOK'
  BY <1>1, <1>2, <1>3, <1>4 DEF ArrivedOK, Sends
<1>9. MvOK'
  BY <1>1, <1>2, <1>3, <1>4 DEF MvOK, RestoringMv, RestoringRest, Opening, Preparing
<1>10. ManualOK'
  BY <1>1, <1>2, <1>3, <1>4
     DEF ManualOK, ShouldSettle, RestoringMv, RestoringRest, Opening, Preparing
<1>11. DoneOK'
  BY <1>1, <1>2, <1>3, <1>4
     DEF DoneOK, ModeNeeded, KeepManual, ShouldSettle, SetpointNeeded, Captured, AttrNeeded,
         ModeTried, SpTried, AttrTried, RestoringRest
<1>12. QED
  BY <1>5, <1>6, <1>7, <1>8, <1>9, <1>10, <1>11 DEF IInv

\* So does the write-back.
LEMMA WriteBackStep ==
  ASSUME IInv, WriteBack
  PROVE  IInv'
<1>1. UNCHANGED <<policy, loop, flight, lost, guard, signal, presses, poll, expired, hold,
                  report, attempt>>
  BY DEF WriteBack, world, rest
<1>2. /\ pc = "write_back" /\ pc' = "done" /\ outcome' \in {"completed", "failed"}
  BY DEF WriteBack, world, rest
<1>3. \A place : WriteAt(place)' = WriteAt(place)
  BY <1>1 DEF WriteAt
<1>4. TypeOK /\ GuardOK /\ FlightOK /\ ArrivedOK /\ MvOK /\ ManualOK /\ DoneOK
  BY DEF IInv
<1>5. TypeOK'
  BY <1>1, <1>2, <1>3, <1>4 DEF TypeOK, LoopRec, PCs
<1>6. GuardOK'
  BY <1>1, <1>2, <1>3, <1>4
     DEF GuardOK, KeepManual, ShouldSettle, ModeNeeded, SetpointNeeded, Captured, AttrNeeded
<1>7. FlightOK'
  BY <1>1, <1>2, <1>3, <1>4 DEF FlightOK, Opening, Preparing, Sends
<1>8. ArrivedOK'
  BY <1>1, <1>2, <1>3, <1>4 DEF ArrivedOK, Sends
<1>9. MvOK'
  BY <1>1, <1>2, <1>3, <1>4 DEF MvOK, RestoringMv, RestoringRest, Opening, Preparing
<1>10. ManualOK'
  BY <1>1, <1>2, <1>3, <1>4
     DEF ManualOK, ShouldSettle, RestoringMv, RestoringRest, Opening, Preparing
<1>11. DoneOK'
  BY <1>1, <1>2, <1>3, <1>4
     DEF DoneOK, ModeNeeded, KeepManual, ShouldSettle, SetpointNeeded, Captured, AttrNeeded,
         ModeTried, SpTried, AttrTried, RestoringRest
<1>12. QED
  BY <1>5, <1>6, <1>7, <1>8, <1>9, <1>10, <1>11 DEF IInv

\* A Ctrl+C waits to be noticed.
LEMMA PressStep ==
  ASSUME IInv, PressCtrlC
  PROVE  IInv'
<1>1. UNCHANGED <<policy, loop, flight, lost, pc, guard, poll, expired, hold, report,
                  attempt, outcome>>
  BY DEF PressCtrlC, world, IInv, TypeOK
<1>2. signal' = TRUE /\ presses' \in 0..MaxPresses
  BY PressesAssumption DEF PressCtrlC, world, IInv, TypeOK
<1>3. \A place : WriteAt(place)' = WriteAt(place)
  BY <1>1 DEF WriteAt
<1>4. TypeOK /\ GuardOK /\ FlightOK /\ ArrivedOK /\ MvOK /\ ManualOK /\ DoneOK
  BY DEF IInv
<1>5. TypeOK'
  BY <1>1, <1>2, <1>3, <1>4 DEF TypeOK, LoopRec
<1>6. GuardOK'
  BY <1>1, <1>2, <1>3, <1>4
     DEF GuardOK, KeepManual, ShouldSettle, ModeNeeded, SetpointNeeded, Captured, AttrNeeded
<1>7. FlightOK'
  BY <1>1, <1>2, <1>3, <1>4 DEF FlightOK, Opening, Preparing, Sends
<1>8. ArrivedOK'
  BY <1>1, <1>2, <1>3, <1>4 DEF ArrivedOK, Sends
<1>9. MvOK'
  BY <1>1, <1>2, <1>3, <1>4 DEF MvOK, RestoringMv, RestoringRest, Opening, Preparing
<1>10. ManualOK'
  BY <1>1, <1>2, <1>3, <1>4
     DEF ManualOK, ShouldSettle, RestoringMv, RestoringRest, Opening, Preparing
<1>11. DoneOK'
  BY <1>1, <1>2, <1>3, <1>4
     DEF DoneOK, ModeNeeded, KeepManual, ShouldSettle, SetpointNeeded, Captured, AttrNeeded,
         ModeTried, SpTried, AttrTried, RestoringRest
<1>12. QED
  BY <1>5, <1>6, <1>7, <1>8, <1>9, <1>10, <1>11 DEF IInv

\* The deadline passes.
LEMMA ExpireStep ==
  ASSUME IInv, Expire
  PROVE  IInv'
<1>1. UNCHANGED <<policy, loop, flight, lost, pc, guard, signal, presses, poll, hold,
                  report, attempt, outcome>>
  BY DEF Expire, world
<1>2. expired' = TRUE
  BY DEF Expire, world
<1>3. \A place : WriteAt(place)' = WriteAt(place)
  BY <1>1 DEF WriteAt
<1>4. TypeOK /\ GuardOK /\ FlightOK /\ ArrivedOK /\ MvOK /\ ManualOK /\ DoneOK
  BY DEF IInv
<1>5. TypeOK'
  BY <1>1, <1>2, <1>3, <1>4 DEF TypeOK, LoopRec
<1>6. GuardOK'
  BY <1>1, <1>2, <1>3, <1>4
     DEF GuardOK, KeepManual, ShouldSettle, ModeNeeded, SetpointNeeded, Captured, AttrNeeded
<1>7. FlightOK'
  BY <1>1, <1>2, <1>3, <1>4 DEF FlightOK, Opening, Preparing, Sends
<1>8. ArrivedOK'
  BY <1>1, <1>2, <1>3, <1>4 DEF ArrivedOK, Sends
<1>9. MvOK'
  BY <1>1, <1>2, <1>3, <1>4 DEF MvOK, RestoringMv, RestoringRest, Opening, Preparing
<1>10. ManualOK'
  BY <1>1, <1>2, <1>3, <1>4
     DEF ManualOK, ShouldSettle, RestoringMv, RestoringRest, Opening, Preparing
<1>11. DoneOK'
  BY <1>1, <1>2, <1>3, <1>4
     DEF DoneOK, ModeNeeded, KeepManual, ShouldSettle, SetpointNeeded, Captured, AttrNeeded,
         ModeTried, SpTried, AttrTried, RestoringRest
<1>12. QED
  BY <1>5, <1>6, <1>7, <1>8, <1>9, <1>10, <1>11 DEF IInv


\* An accepted write has reached the loop, as far as no write is lost; an MV
\* write of an OPC DA loop only supersedes those before it.
LEMMA AcceptedFacts ==
  ASSUME IInv, pc \in Sends, Accepted
  PROVE  /\ UNCHANGED <<policy, lost>>
         /\ loop' \in LoopRec
         /\ \A w \in flight' : w \in flight
         /\ ~ lost => \A w \in flight' : w[1] = "mv"
         /\ ~ lost /\ pc = "mv_back" => MvMoved \notin flight'
         /\ ~ lost /\ ~ policy.live => \A w \in flight' : w[1] # "mv"
         /\ pc = "mode_out" => loop'.mode = "manual" \/ (lost /\ loop'.mode = loop.mode)
         /\ pc = "mode_back" => loop'.mode = policy.init \/ (lost /\ loop'.mode = loop.mode)
         /\ pc \notin {"mode_out", "mode_back"} => loop'.mode = loop.mode
         /\ ~ lost /\ pc = "sp_back" => loop'.sp = "initial" \/ loop'.mode = "manual"
         /\ pc # "sp_back" => loop'.sp = loop.sp
         /\ ~ lost /\ pc = "attr_back" => loop'.attr = "initial"
         /\ pc = "attr_back" => loop'.attr \in {loop.attr, "initial"}
         /\ pc \notin {"attr_out", "attr_back"} => loop'.attr = loop.attr
         /\ ~ lost /\ pc = "mv_back" /\ ~ policy.live => loop'.mv = "initial"
         /\ pc # "mv_back" \/ policy.live => loop'.mv = loop.mv
<1> DEFINE w0 == WriteAt(pc)
<1>1. TypeOK /\ GuardOK /\ FlightOK /\ ArrivedOK
  BY DEF IInv
<1>2. w0 \in Writes
  BY <1>1, PlaceWrites DEF TypeOK
<1>3. /\ pc = "attr_out" => w0 = <<"attr", "moved">>
      /\ pc = "mode_out" => w0 = <<"mode", "manual">>
      /\ pc = "mv_back" => w0 = MvInitial
      /\ pc = "mode_back" => w0 = <<"mode", policy.init>>
      /\ pc = "sp_back" => w0 = <<"sp", "initial">>
      /\ pc = "attr_back" => w0 = <<"attr", "initial">>
  BY PlaceFacts
<1>4. /\ pc = "mv_back" <=> w0[1] = "mv"
      /\ pc \in {"mode_out", "mode_back"} <=> w0[1] = "mode"
      /\ pc = "sp_back" <=> w0[1] = "sp"
      /\ pc \in {"attr_out", "attr_back"} <=> w0[1] = "attr"
  BY <1>3 DEF Sends, MvInitial
<1>5. loop \in LoopRec
  BY <1>1 DEF TypeOK, LoopRec
<1>6. policy' = policy /\ lost' = lost
  BY DEF Accepted
<1>7. CASE pc = "mv_back" /\ policy.live
  <2>1. loop' = loop /\ flight' = (IF lost THEN flight ELSE flight \ {MvMoved})
    BY <1>4, <1>7 DEF Accepted, MvMoved
  <2>2. \A w \in flight' : w \in flight
    BY <2>1
  <2>3. ~ lost => \A w \in flight' : w[1] = "mv"
    BY <1>1, <1>3, <1>7, <2>2 DEF FlightOK, MvInitial
  <2>4. QED
    BY <1>5, <1>6, <1>7, <2>1, <2>2, <2>3
<1>8. CASE ~ (pc = "mv_back" /\ policy.live)
  <2>1. /\ flight' = flight \ {w0}
        /\ w0 \in flight => Reach(w0)
        /\ w0 \notin flight => loop' = loop
    BY <1>4, <1>8 DEF Accepted
  <2>2. \A w \in flight' : w \in flight
    BY <2>1
  <2>3. ~ lost => \A w \in flight' : w[1] = "mv"
    BY <1>1, <2>1 DEF FlightOK
  <2>4. ~ lost /\ ~ policy.live => \A w \in flight' : w[1] # "mv"
    BY <1>1, <1>3, <2>1 DEF FlightOK
  <2>5. ~ lost /\ pc = "mv_back" => MvMoved \notin flight'
    BY <1>8, <2>4 DEF MvMoved
  <2>6. CASE w0 \in flight
    <3>1. /\ loop' \in LoopRec
          /\ w0[1] = "mode" => loop'.mode = w0[2]
          /\ w0[1] # "mode" => loop'.mode = loop.mode
          /\ w0[1] = "sp" => loop'.sp = w0[2]
          /\ w0[1] # "sp" => loop'.sp = loop.sp
          /\ w0[1] = "attr" => loop'.attr = w0[2]
          /\ w0[1] # "attr" => loop'.attr = loop.attr
          /\ w0[1] = "mv" /\ loop.mode = "manual" => loop'.mv = w0[2]
          /\ w0[1] # "mv" \/ loop.mode # "manual" => loop'.mv = loop.mv
      BY <1>1, <1>2, <2>1, <2>6, ReachFacts
    <3>2. ~ policy.live => loop.mode = "manual"
      BY <1>1, FileIsManual
    <3>3. QED
      BY <1>3, <1>4, <1>6, <1>8, <2>2, <2>3, <2>4, <2>5, <3>1, <3>2 DEF MvInitial
  <2>7. CASE w0 \notin flight
    <3>1. ~ lost =>
            /\ pc = "mode_out" => loop.mode = "manual"
            /\ pc = "mode_back" => loop.mode = policy.init
            /\ pc = "sp_back" => loop.sp = "initial" \/ loop.mode = "manual"
            /\ pc = "attr_back" => loop.attr = "initial"
            /\ pc = "mv_back" /\ ~ policy.live => loop.mv = "initial"
      BY <1>1, <2>7 DEF ArrivedOK
    <3>2. loop' = loop
      BY <2>1, <2>7
    <3>3. lost \in BOOLEAN
      BY <1>1 DEF TypeOK
    <3>4. QED
      BY <1>5, <1>6, <1>8, <2>2, <2>3, <2>4, <2>5, <3>1, <3>2, <3>3
  <2>8. QED
    BY <2>6, <2>7
<1>9. QED
  BY <1>7, <1>8

\* After an error a write is gone or its fate is unknown; the loop is not
\* touched now.
LEMMA RefusedFacts ==
  ASSUME IInv, pc \in Sends, Refused \/ Abandoned
  PROVE  /\ UNCHANGED <<policy, loop>>
         /\ lost' \in BOOLEAN
         /\ ~ lost' => ~ lost
         /\ \A w \in flight' : w \in flight
         /\ ~ lost' => \A w \in flight' : w[1] = "mv"
         /\ ~ lost' /\ ~ policy.live => \A w \in flight' : w[1] # "mv"
<1>1. TypeOK /\ FlightOK
  BY DEF IInv
<1>2. CASE lost' = TRUE /\ flight' = flight /\ UNCHANGED <<policy, loop>>
  BY <1>2
<1>3. CASE lost' = lost /\ flight' = flight \ {WriteAt(pc)} /\ UNCHANGED <<policy, loop>>
  <2>1. lost' \in BOOLEAN
    BY <1>1, <1>3 DEF TypeOK
  <2>2. ~ lost => \A w \in flight' : w[1] = "mv"
    BY <1>1, <1>3 DEF FlightOK
  <2>3. ~ lost /\ ~ policy.live => \A w \in flight' : w[1] # "mv"
    BY <1>1, <1>3, PlaceFacts DEF FlightOK
  <2>4. QED
    BY <1>3, <2>1, <2>2, <2>3
<1>4. QED
  BY <1>2, <1>3 DEF Refused, Abandoned


\* With both writes accepted the loop is in Manual and guarded.
LEMMA TransitionAcceptedStep ==
  ASSUME IInv, TransitionAnswered, Accepted, UNCHANGED poll,
         pc' = IF pc = "attr_out" THEN "mode" ELSE "polling"
  PROVE  IInv'
<1>1. UNCHANGED <<guard, signal, presses, expired, hold, report, attempt, outcome>>
  BY DEF TransitionAnswered, rest, Stay
<1>2. /\ pc \in {"attr_out", "mode_out"} /\ poll' = poll
      /\ pc = "attr_out" => pc' = "mode"
      /\ pc = "mode_out" => pc' = "polling"
  BY DEF TransitionAnswered
<1>3. /\ UNCHANGED <<policy, lost>>
      /\ loop' \in LoopRec
      /\ \A w \in flight' : w \in flight
      /\ ~ lost => \A w \in flight' : w[1] = "mv"
      /\ ~ lost /\ pc = "mv_back" => MvMoved \notin flight'
      /\ ~ lost /\ ~ policy.live => \A w \in flight' : w[1] # "mv"
      /\ pc = "mode_out" => loop'.mode = "manual" \/ (lost /\ loop'.mode = loop.mode)
      /\ pc = "mode_back" => loop'.mode = policy.init \/ (lost /\ loop'.mode = loop.mode)
      /\ pc \notin {"mode_out", "mode_back"} => loop'.mode = loop.mode
      /\ ~ lost /\ pc = "sp_back" => loop'.sp = "initial" \/ loop'.mode = "manual"
      /\ pc # "sp_back" => loop'.sp = loop.sp
      /\ ~ lost /\ pc = "attr_back" => loop'.attr = "initial"
      /\ pc = "attr_back" => loop'.attr \in {loop.attr, "initial"}
      /\ pc \notin {"attr_out", "attr_back"} => loop'.attr = loop.attr
      /\ ~ lost /\ pc = "mv_back" /\ ~ policy.live => loop'.mv = "initial"
      /\ pc # "mv_back" \/ policy.live => loop'.mv = loop.mv
  BY <1>2, AcceptedFacts DEF Sends
<1>4. TypeOK /\ GuardOK /\ FlightOK /\ ArrivedOK /\ MvOK /\ ManualOK /\ DoneOK
  BY DEF IInv
<1>5. TypeOK'
  BY <1>1, <1>2, <1>3, <1>4
     DEF TypeOK, LoopRec, PCs, Preparing, Restoring, RestoringMv, RestoringRest
<1>6. GuardOK'
  BY <1>1, <1>2, <1>3, <1>4
     DEF GuardOK, KeepManual, ShouldSettle, ModeNeeded, SetpointNeeded, Captured, AttrNeeded
<1>7. FlightOK'
  BY <1>1, <1>2, <1>3, <1>4 DEF FlightOK, Opening, Preparing, Sends, MvInitial
<1>8. ArrivedOK'
  BY <1>1, <1>2, <1>3, <1>4 DEF ArrivedOK, Sends
<1>9. MvOK'
  BY <1>1, <1>2, <1>3, <1>4
     DEF MvOK, RestoringMv, RestoringRest, Opening, Preparing, MvMoved
<1>10. ManualOK'
  BY <1>1, <1>2, <1>3, <1>4
     DEF ManualOK, ShouldSettle, RestoringMv, RestoringRest, Opening, Preparing, GuardOK
<1>11. DoneOK'
  BY <1>1, <1>2, <1>3, <1>4
     DEF DoneOK, ModeNeeded, KeepManual, ShouldSettle, SetpointNeeded, Captured, AttrNeeded,
         ModeTried, SpTried, AttrTried, RestoringRest
<1>12. QED
  BY <1>5, <1>6, <1>7, <1>8, <1>9, <1>10, <1>11 DEF IInv

\* A failed transition goes to the restore.
LEMMA TransitionRefusedStep ==
  ASSUME IInv, TransitionAnswered, Refused, pc' = "mv",
         poll' = [poll EXCEPT !.result = "failed"]
  PROVE  IInv'
<1>1. UNCHANGED <<guard, signal, presses, expired, hold, report, attempt, outcome>>
  BY DEF TransitionAnswered, rest, Stay
<1>2. /\ pc \in {"attr_out", "mode_out"} /\ pc' = "mv"
  BY DEF TransitionAnswered
<1>3. /\ poll'.result = "failed" /\ poll'.track = poll.track
      /\ poll' \in [result: {"none", "completed", "aborted", "failed"},
                   track: {"none", "relay", "snapback", "confirmed"}]
  BY DEF IInv, TypeOK
<1>4. /\ UNCHANGED <<policy, loop>>
      /\ lost' \in BOOLEAN
      /\ ~ lost' => ~ lost
      /\ \A w \in flight' : w \in flight
      /\ ~ lost' => \A w \in flight' : w[1] = "mv"
      /\ ~ lost' /\ ~ policy.live => \A w \in flight' : w[1] # "mv"
  BY <1>2, RefusedFacts DEF Sends
<1>5. TypeOK /\ GuardOK /\ FlightOK /\ ArrivedOK /\ MvOK /\ ManualOK /\ DoneOK
  BY DEF IInv
<1>6. TypeOK'
  BY <1>1, <1>2, <1>3, <1>4, <1>5
     DEF TypeOK, LoopRec, PCs, Preparing, Restoring, RestoringMv, RestoringRest
<1>7. GuardOK'
  BY <1>1, <1>2, <1>3, <1>4, <1>5
     DEF GuardOK, KeepManual, ShouldSettle, ModeNeeded, SetpointNeeded, Captured, AttrNeeded
<1>8. FlightOK'
  BY <1>1, <1>2, <1>3, <1>4, <1>5 DEF FlightOK, Opening, Preparing, Sends, MvInitial
<1>9. ArrivedOK'
  BY <1>1, <1>2, <1>3, <1>4, <1>5 DEF ArrivedOK, Sends
<1>10. MvOK'
  BY <1>1, <1>2, <1>3, <1>4, <1>5
     DEF MvOK, RestoringMv, RestoringRest, Opening, Preparing, MvMoved
<1>11. ManualOK'
  BY <1>1, <1>2, <1>3, <1>4, <1>5
     DEF ManualOK, ShouldSettle, RestoringMv, RestoringRest, Opening, Preparing
<1>12. DoneOK'
  BY <1>1, <1>2, <1>3, <1>4, <1>5
     DEF DoneOK, ModeNeeded, KeepManual, ShouldSettle, SetpointNeeded, Captured, AttrNeeded,
         ModeTried, SpTried, AttrTried, RestoringRest
<1>13. QED
  BY <1>6, <1>7, <1>8, <1>9, <1>10, <1>11, <1>12 DEF IInv

\* An accepted MV write is verified, and no older one arrives after it.
LEMMA MvAcceptedStep ==
  ASSUME IInv, MvAnswered, Accepted, policy.live, pc' = "mv_check",
         expired' = FALSE, UNCHANGED <<report, attempt>>
  PROVE  IInv'
<1>1. UNCHANGED <<guard, signal, presses, poll, hold, outcome>>
  BY DEF MvAnswered, rest, Stay
<1>2. pc = "mv_back" /\ pc' = "mv_check" /\ policy.live /\ report' = report /\ attempt' = attempt
  BY DEF MvAnswered, MvStep
<1>3. expired' \in BOOLEAN
  BY DEF IInv, TypeOK
<1>4. /\ UNCHANGED <<policy, lost>>
      /\ loop' \in LoopRec
      /\ \A w \in flight' : w \in flight
      /\ ~ lost => \A w \in flight' : w[1] = "mv"
      /\ ~ lost /\ pc = "mv_back" => MvMoved \notin flight'
      /\ ~ lost /\ ~ policy.live => \A w \in flight' : w[1] # "mv"
      /\ pc = "mode_out" => loop'.mode = "manual" \/ (lost /\ loop'.mode = loop.mode)
      /\ pc = "mode_back" => loop'.mode = policy.init \/ (lost /\ loop'.mode = loop.mode)
      /\ pc \notin {"mode_out", "mode_back"} => loop'.mode = loop.mode
      /\ ~ lost /\ pc = "sp_back" => loop'.sp = "initial" \/ loop'.mode = "manual"
      /\ pc # "sp_back" => loop'.sp = loop.sp
      /\ ~ lost /\ pc = "attr_back" => loop'.attr = "initial"
      /\ pc = "attr_back" => loop'.attr \in {loop.attr, "initial"}
      /\ pc \notin {"attr_out", "attr_back"} => loop'.attr = loop.attr
      /\ ~ lost /\ pc = "mv_back" /\ ~ policy.live => loop'.mv = "initial"
      /\ pc # "mv_back" \/ policy.live => loop'.mv = loop.mv
  BY <1>2, AcceptedFacts DEF Sends
<1>5. TypeOK /\ GuardOK /\ FlightOK /\ ArrivedOK /\ MvOK /\ ManualOK /\ DoneOK
  BY DEF IInv
<1>6. TypeOK'
  BY <1>1, <1>2, <1>3, <1>4, <1>5
     DEF TypeOK, LoopRec, PCs, Preparing, Restoring, RestoringMv, RestoringRest
<1>7. GuardOK'
  BY <1>1, <1>2, <1>3, <1>4, <1>5
     DEF GuardOK, KeepManual, ShouldSettle, ModeNeeded, SetpointNeeded, Captured, AttrNeeded
<1>8. FlightOK'
  BY <1>1, <1>2, <1>3, <1>4, <1>5 DEF FlightOK, Opening, Preparing, Sends, MvInitial
<1>9. ArrivedOK'
  BY <1>1, <1>2, <1>3, <1>4, <1>5 DEF ArrivedOK, Sends
<1>10. MvOK'
  BY <1>1, <1>2, <1>3, <1>4, <1>5
     DEF MvOK, RestoringMv, RestoringRest, Opening, Preparing, MvMoved
<1>11. ManualOK'
  BY <1>1, <1>2, <1>3, <1>4, <1>5
     DEF ManualOK, ShouldSettle, RestoringMv, RestoringRest, Opening, Preparing
<1>12. DoneOK'
  BY <1>1, <1>2, <1>3, <1>4, <1>5
     DEF DoneOK, ModeNeeded, KeepManual, ShouldSettle, SetpointNeeded, Captured, AttrNeeded,
         ModeTried, SpTried, AttrTried, RestoringRest
<1>13. QED
  BY <1>6, <1>7, <1>8, <1>9, <1>10, <1>11, <1>12 DEF IInv

\* On a loop that is not live it counts at once.
LEMMA FileMvAcceptedStep ==
  ASSUME IInv, MvAnswered, Accepted, ~ policy.live, MvStep("succeeded"),
         UNCHANGED expired
  PROVE  IInv'
<1>1. UNCHANGED <<guard, signal, presses, poll, hold, outcome>>
  BY DEF MvAnswered, rest, Stay
<1>2. pc = "mv_back" /\ pc' = "policy" /\ ~ policy.live /\ attempt' = attempt
  BY DEF MvAnswered, MvStep
<1>3. /\ report' \in [Steps -> StepOutcome] /\ report'["mv"] = "succeeded"
      /\ report'["mode"] = report["mode"] /\ report'["sp"] = report["sp"]
      /\ report'["attr"] = report["attr"]
  BY DEF IInv, TypeOK, MvStep, Steps, StepOutcome
<1>4. expired' \in BOOLEAN
  BY DEF IInv, TypeOK
<1>5. /\ UNCHANGED <<policy, lost>>
      /\ loop' \in LoopRec
      /\ \A w \in flight' : w \in flight
      /\ ~ lost => \A w \in flight' : w[1] = "mv"
      /\ ~ lost /\ pc = "mv_back" => MvMoved \notin flight'
      /\ ~ lost /\ ~ policy.live => \A w \in flight' : w[1] # "mv"
      /\ pc = "mode_out" => loop'.mode = "manual" \/ (lost /\ loop'.mode = loop.mode)
      /\ pc = "mode_back" => loop'.mode = policy.init \/ (lost /\ loop'.mode = loop.mode)
      /\ pc \notin {"mode_out", "mode_back"} => loop'.mode = loop.mode
      /\ ~ lost /\ pc = "sp_back" => loop'.sp = "initial" \/ loop'.mode = "manual"
      /\ pc # "sp_back" => loop'.sp = loop.sp
      /\ ~ lost /\ pc = "attr_back" => loop'.attr = "initial"
      /\ pc = "attr_back" => loop'.attr \in {loop.attr, "initial"}
      /\ pc \notin {"attr_out", "attr_back"} => loop'.attr = loop.attr
      /\ ~ lost /\ pc = "mv_back" /\ ~ policy.live => loop'.mv = "initial"
      /\ pc # "mv_back" \/ policy.live => loop'.mv = loop.mv
  BY <1>2, AcceptedFacts DEF Sends
<1>6. TypeOK /\ GuardOK /\ FlightOK /\ ArrivedOK /\ MvOK /\ ManualOK /\ DoneOK
  BY DEF IInv
<1>7. TypeOK'
  BY <1>1, <1>2, <1>3, <1>4, <1>5, <1>6
     DEF TypeOK, LoopRec, PCs, Preparing, Restoring, RestoringMv, RestoringRest
<1>8. GuardOK'
  BY <1>1, <1>2, <1>3, <1>4, <1>5, <1>6
     DEF GuardOK, KeepManual, ShouldSettle, ModeNeeded, SetpointNeeded, Captured, AttrNeeded
<1>9. FlightOK'
  BY <1>1, <1>2, <1>3, <1>4, <1>5, <1>6 DEF FlightOK, Opening, Preparing, Sends, MvInitial
<1>10. ArrivedOK'
  BY <1>1, <1>2, <1>3, <1>4, <1>5, <1>6 DEF ArrivedOK, Sends
<1>11. MvOK'
  BY <1>1, <1>2, <1>3, <1>4, <1>5, <1>6
     DEF MvOK, RestoringMv, RestoringRest, Opening, Preparing, MvMoved
<1>12. ManualOK'
  BY <1>1, <1>2, <1>3, <1>4, <1>5, <1>6
     DEF ManualOK, ShouldSettle, RestoringMv, RestoringRest, Opening, Preparing
<1>13. DoneOK'
  BY <1>1, <1>2, <1>3, <1>4, <1>5, <1>6
     DEF DoneOK, ModeNeeded, KeepManual, ShouldSettle, SetpointNeeded, Captured, AttrNeeded,
         ModeTried, SpTried, AttrTried, RestoringRest
<1>14. QED
  BY <1>7, <1>8, <1>9, <1>10, <1>11, <1>12, <1>13 DEF IInv

\* A failed MV write leaves the other steps to be tried.
LEMMA MvRefusedStep ==
  ASSUME IInv, MvAnswered, Refused \/ Abandoned, MvStep("failed"), UNCHANGED expired
  PROVE  IInv'
<1>1. UNCHANGED <<guard, signal, presses, poll, hold, outcome>>
  BY DEF MvAnswered, rest, Stay
<1>2. pc = "mv_back" /\ pc' = "policy" /\ attempt' = attempt
  BY DEF MvAnswered, MvStep
<1>3. /\ report' \in [Steps -> StepOutcome] /\ report'["mv"] = "failed"
      /\ report'["mode"] = report["mode"] /\ report'["sp"] = report["sp"]
      /\ report'["attr"] = report["attr"]
  BY DEF IInv, TypeOK, MvStep, Steps, StepOutcome
<1>4. expired' \in BOOLEAN
  BY DEF IInv, TypeOK
<1>5. /\ UNCHANGED <<policy, loop>>
      /\ lost' \in BOOLEAN
      /\ ~ lost' => ~ lost
      /\ \A w \in flight' : w \in flight
      /\ ~ lost' => \A w \in flight' : w[1] = "mv"
      /\ ~ lost' /\ ~ policy.live => \A w \in flight' : w[1] # "mv"
  BY <1>2, RefusedFacts DEF Sends
<1>6. TypeOK /\ GuardOK /\ FlightOK /\ ArrivedOK /\ MvOK /\ ManualOK /\ DoneOK
  BY DEF IInv
<1>7. TypeOK'
  BY <1>1, <1>2, <1>3, <1>4, <1>5, <1>6
     DEF TypeOK, LoopRec, PCs, Preparing, Restoring, RestoringMv, RestoringRest
<1>8. GuardOK'
  BY <1>1, <1>2, <1>3, <1>4, <1>5, <1>6
     DEF GuardOK, KeepManual, ShouldSettle, ModeNeeded, SetpointNeeded, Captured, AttrNeeded
<1>9. FlightOK'
  BY <1>1, <1>2, <1>3, <1>4, <1>5, <1>6 DEF FlightOK, Opening, Preparing, Sends, MvInitial
<1>10. ArrivedOK'
  BY <1>1, <1>2, <1>3, <1>4, <1>5, <1>6 DEF ArrivedOK, Sends
<1>11. MvOK'
  BY <1>1, <1>2, <1>3, <1>4, <1>5, <1>6
     DEF MvOK, RestoringMv, RestoringRest, Opening, Preparing, MvMoved
<1>12. ManualOK'
  BY <1>1, <1>2, <1>3, <1>4, <1>5, <1>6
     DEF ManualOK, ShouldSettle, RestoringMv, RestoringRest, Opening, Preparing
<1>13. DoneOK'
  BY <1>1, <1>2, <1>3, <1>4, <1>5, <1>6
     DEF DoneOK, ModeNeeded, KeepManual, ShouldSettle, SetpointNeeded, Captured, AttrNeeded,
         ModeTried, SpTried, AttrTried, RestoringRest
<1>14. QED
  BY <1>7, <1>8, <1>9, <1>10, <1>11, <1>12, <1>13 DEF IInv


\* A write that the driver took, in each of the remaining steps.
LEMMA StepAcceptedStep ==
  ASSUME IInv, StepAnswered, Accepted,
         report' = [report EXCEPT ![StepAt[pc]] = "succeeded"]
  PROVE  IInv'
<1>1. UNCHANGED <<guard, signal, presses, poll, expired, hold, attempt, outcome>>
  BY DEF StepAnswered, rest, Stay
<1>2. /\ pc \in {"mode_back", "sp_back", "attr_back"}
      /\ pc = "mode_back" => pc' = "rest_sp" /\ StepAt[pc] = "mode"
      /\ pc = "sp_back" => pc' = "rest_attr" /\ StepAt[pc] = "sp"
      /\ pc = "attr_back" => pc' = "rest_done" /\ StepAt[pc] = "attr"
  BY DEF StepAnswered, StepAt, AfterStep
<1>3. /\ report' \in [Steps -> StepOutcome]
      /\ report'["mv"] = report["mv"]
      /\ report'["mode"] = IF pc = "mode_back" THEN "succeeded" ELSE report["mode"]
      /\ report'["sp"] = IF pc = "sp_back" THEN "succeeded" ELSE report["sp"]
      /\ report'["attr"] = IF pc = "attr_back" THEN "succeeded" ELSE report["attr"]
  BY <1>2 DEF IInv, TypeOK, Steps, StepOutcome
<1>4. /\ UNCHANGED <<policy, lost>>
      /\ loop' \in LoopRec
      /\ \A w \in flight' : w \in flight
      /\ ~ lost => \A w \in flight' : w[1] = "mv"
      /\ ~ lost /\ pc = "mv_back" => MvMoved \notin flight'
      /\ ~ lost /\ ~ policy.live => \A w \in flight' : w[1] # "mv"
      /\ pc = "mode_out" => loop'.mode = "manual" \/ (lost /\ loop'.mode = loop.mode)
      /\ pc = "mode_back" => loop'.mode = policy.init \/ (lost /\ loop'.mode = loop.mode)
      /\ pc \notin {"mode_out", "mode_back"} => loop'.mode = loop.mode
      /\ ~ lost /\ pc = "sp_back" => loop'.sp = "initial" \/ loop'.mode = "manual"
      /\ pc # "sp_back" => loop'.sp = loop.sp
      /\ ~ lost /\ pc = "attr_back" => loop'.attr = "initial"
      /\ pc = "attr_back" => loop'.attr \in {loop.attr, "initial"}
      /\ pc \notin {"attr_out", "attr_back"} => loop'.attr = loop.attr
      /\ ~ lost /\ pc = "mv_back" /\ ~ policy.live => loop'.mv = "initial"
      /\ pc # "mv_back" \/ policy.live => loop'.mv = loop.mv
  BY <1>2, AcceptedFacts DEF Sends
<1>5. TypeOK /\ GuardOK /\ FlightOK /\ ArrivedOK /\ MvOK /\ ManualOK /\ DoneOK
  BY DEF IInv
<1>6. TypeOK'
  BY <1>1, <1>2, <1>3, <1>4, <1>5
     DEF TypeOK, LoopRec, PCs, Preparing, Restoring, RestoringMv, RestoringRest
<1>7. GuardOK'
  BY <1>1, <1>2, <1>3, <1>4, <1>5
     DEF GuardOK, KeepManual, ShouldSettle, ModeNeeded, SetpointNeeded, Captured, AttrNeeded
<1>8. FlightOK'
  BY <1>1, <1>2, <1>3, <1>4, <1>5 DEF FlightOK, Opening, Preparing, Sends, MvInitial
<1>9. ArrivedOK'
  BY <1>1, <1>2, <1>3, <1>4, <1>5 DEF ArrivedOK, Sends
<1>10. MvOK'
  BY <1>1, <1>2, <1>3, <1>4, <1>5
     DEF MvOK, RestoringMv, RestoringRest, Opening, Preparing, MvMoved
<1>11. ManualOK'
  BY <1>1, <1>2, <1>3, <1>4, <1>5
     DEF ManualOK, ShouldSettle, RestoringMv, RestoringRest, Opening, Preparing, GuardOK,
         KeepManual
<1>12. DoneOK'
  BY <1>1, <1>2, <1>3, <1>4, <1>5
     DEF DoneOK, ModeNeeded, KeepManual, ShouldSettle, SetpointNeeded, Captured, AttrNeeded,
         ModeTried, SpTried, AttrTried, RestoringRest, GuardOK
<1>13. QED
  BY <1>6, <1>7, <1>8, <1>9, <1>10, <1>11, <1>12 DEF IInv

\* A write that the driver refused, in each of the remaining steps.
LEMMA StepRefusedStep ==
  ASSUME IInv, StepAnswered, Refused,
         report' = [report EXCEPT ![StepAt[pc]] = "failed"]
  PROVE  IInv'
<1>1. UNCHANGED <<guard, signal, presses, poll, expired, hold, attempt, outcome>>
  BY DEF StepAnswered, rest, Stay
<1>2. /\ pc \in {"mode_back", "sp_back", "attr_back"}
      /\ pc = "mode_back" => pc' = "rest_sp" /\ StepAt[pc] = "mode"
      /\ pc = "sp_back" => pc' = "rest_attr" /\ StepAt[pc] = "sp"
      /\ pc = "attr_back" => pc' = "rest_done" /\ StepAt[pc] = "attr"
  BY DEF StepAnswered, StepAt, AfterStep
<1>3. /\ report' \in [Steps -> StepOutcome]
      /\ report'["mv"] = report["mv"]
      /\ report'["mode"] = IF pc = "mode_back" THEN "failed" ELSE report["mode"]
      /\ report'["sp"] = IF pc = "sp_back" THEN "failed" ELSE report["sp"]
      /\ report'["attr"] = IF pc = "attr_back" THEN "failed" ELSE report["attr"]
  BY <1>2 DEF IInv, TypeOK, Steps, StepOutcome
<1>4. /\ UNCHANGED <<policy, loop>>
      /\ lost' \in BOOLEAN
      /\ ~ lost' => ~ lost
      /\ \A w \in flight' : w \in flight
      /\ ~ lost' => \A w \in flight' : w[1] = "mv"
      /\ ~ lost' /\ ~ policy.live => \A w \in flight' : w[1] # "mv"
  BY <1>2, RefusedFacts DEF Sends
<1>5. TypeOK /\ GuardOK /\ FlightOK /\ ArrivedOK /\ MvOK /\ ManualOK /\ DoneOK
  BY DEF IInv
<1>6. TypeOK'
  BY <1>1, <1>2, <1>3, <1>4, <1>5
     DEF TypeOK, LoopRec, PCs, Preparing, Restoring, RestoringMv, RestoringRest
<1>7. GuardOK'
  BY <1>1, <1>2, <1>3, <1>4, <1>5
     DEF GuardOK, KeepManual, ShouldSettle, ModeNeeded, SetpointNeeded, Captured, AttrNeeded
<1>8. FlightOK'
  BY <1>1, <1>2, <1>3, <1>4, <1>5 DEF FlightOK, Opening, Preparing, Sends, MvInitial
<1>9. ArrivedOK'
  BY <1>1, <1>2, <1>3, <1>4, <1>5 DEF ArrivedOK, Sends
<1>10. MvOK'
  BY <1>1, <1>2, <1>3, <1>4, <1>5
     DEF MvOK, RestoringMv, RestoringRest, Opening, Preparing, MvMoved
<1>11. ManualOK'
  BY <1>1, <1>2, <1>3, <1>4, <1>5
     DEF ManualOK, ShouldSettle, RestoringMv, RestoringRest, Opening, Preparing, GuardOK,
         KeepManual
<1>12. DoneOK'
  BY <1>1, <1>2, <1>3, <1>4, <1>5
     DEF DoneOK, ModeNeeded, KeepManual, ShouldSettle, SetpointNeeded, Captured, AttrNeeded,
         ModeTried, SpTried, AttrTried, RestoringRest, GuardOK
<1>13. QED
  BY <1>6, <1>7, <1>8, <1>9, <1>10, <1>11, <1>12 DEF IInv


-----------------------------------------------------------------------------
(* The invariant and what follows from it *)


\* A stuttering step.
LEMMA StutterStep ==
  ASSUME IInv, UNCHANGED vars
  PROVE  IInv'
<1>1. UNCHANGED <<policy, loop, flight, lost, pc, guard, signal, presses, poll, expired,
                  hold, report, attempt, outcome>>
  BY DEF vars, world
<1>2. \A place : WriteAt(place)' = WriteAt(place)
  BY <1>1 DEF WriteAt
<1>3. TypeOK /\ GuardOK /\ FlightOK /\ ArrivedOK /\ MvOK /\ ManualOK /\ DoneOK
  BY DEF IInv
<1>4. TypeOK'
  BY <1>1, <1>2, <1>3 DEF TypeOK, LoopRec
<1>5. GuardOK'
  BY <1>1, <1>2, <1>3
     DEF GuardOK, KeepManual, ShouldSettle, ModeNeeded, SetpointNeeded, Captured, AttrNeeded
<1>6. FlightOK'
  BY <1>1, <1>2, <1>3 DEF FlightOK, Opening, Preparing, Sends
<1>7. ArrivedOK'
  BY <1>1, <1>2, <1>3 DEF ArrivedOK, Sends
<1>8. MvOK'
  BY <1>1, <1>2, <1>3 DEF MvOK, RestoringMv, RestoringRest, Opening, Preparing
<1>9. ManualOK'
  BY <1>1, <1>2, <1>3
     DEF ManualOK, ShouldSettle, RestoringMv, RestoringRest, Opening, Preparing
<1>10. DoneOK'
  BY <1>1, <1>2, <1>3
     DEF DoneOK, ModeNeeded, KeepManual, ShouldSettle, SetpointNeeded, Captured, AttrNeeded,
         ModeTried, SpTried, AttrTried, RestoringRest
<1>11. QED
  BY <1>4, <1>5, <1>6, <1>7, <1>8, <1>9, <1>10 DEF IInv

LEMMA TransitionStep ==
  ASSUME IInv, TransitionAnswered
  PROVE  IInv'
BY TransitionAcceptedStep, TransitionRefusedStep DEF TransitionAnswered

LEMMA MvAnsweredStep ==
  ASSUME IInv, MvAnswered
  PROVE  IInv'
BY MvAcceptedStep, FileMvAcceptedStep, MvRefusedStep DEF MvAnswered

LEMMA AnsweredStep ==
  ASSUME IInv, StepAnswered
  PROVE  IInv'
BY StepAcceptedStep, StepRefusedStep DEF StepAnswered

\* Every step keeps the invariant.
LEMMA NextIInv == IInv /\ [Next]_vars => IInv'
<1> SUFFICES ASSUME IInv, [Next]_vars PROVE IInv'
  OBVIOUS
<1>1. CASE ReadInitial
  BY <1>1, ReadStep
<1>2. CASE SendAttr
  BY <1>2, SendAttrStep
<1>3. CASE SendMode
  BY <1>3, SendModeStep
<1>4. CASE PollEnds
  BY <1>4, PollEndsStep
<1>5. CASE ChooseMv
  BY <1>5, ChooseMvStep
<1>6. CASE HandoffReturns
  BY <1>6, HandoffStep
<1>7. CASE MvChecked
  BY <1>7, MvCheckedStep
<1>8. CASE ChoosePolicy
  BY <1>8, ChoosePolicyStep
<1>9. CASE Settle
  BY <1>9, SettleStep
<1>10. CASE SendModeBack
  BY <1>10, SendModeBackStep
<1>11. CASE SendSetpointBack
  BY <1>11, SendSetpointBackStep
<1>12. CASE SendAttrBack
  BY <1>12, SendAttrBackStep
<1>13. CASE RestDone
  BY <1>13, RestDoneStep
<1>14. CASE RestoreMvExpires
  BY <1>14, MvExpiresStep
<1>15. CASE RestoreMvInterrupted
  BY <1>15, MvInterruptedStep
<1>16. CASE RestInterrupted
  BY <1>16, RestInterruptedStep
<1>17. CASE RestExpires
  BY <1>17, RestExpiresStep
<1>18. CASE FinishRun
  BY <1>18, FinishStep
<1>19. CASE WriteBack
  BY <1>19, WriteBackStep
<1>20. CASE PressCtrlC
  BY <1>20, PressStep
<1>21. CASE Expire
  BY <1>21, ExpireStep
<1>22. CASE Land
  BY <1>22, LandStep
<1>23. CASE SetpointTracks
  BY <1>23, TracksStep
<1>24. CASE TransitionAnswered
  BY <1>24, TransitionStep
<1>25. CASE MvAnswered
  BY <1>25, MvAnsweredStep
<1>26. CASE StepAnswered
  BY <1>26, AnsweredStep
<1>27. CASE Returned \/ UNCHANGED vars
  BY <1>27, StutterStep DEF Returned
<1>28. QED
  BY <1>1, <1>2, <1>3, <1>4, <1>5, <1>6, <1>7, <1>8, <1>9, <1>10, <1>11, <1>12, <1>13,
     <1>14, <1>15, <1>16, <1>17, <1>18, <1>19, <1>20, <1>21, <1>22, <1>23, <1>24, <1>25,
     <1>26, <1>27 DEF Next, Unbounded, Own, Driver

\* At every point of the restore the writes under way, the loop, the report and
\* the guard fit together, for every policy (tune/restore.rs).
THEOREM Invariance == Spec => []IInv
<1>1. QED
  BY InitIInv, NextIInv, PTL DEF Spec

\* What each step amounts to once it has been tried.
LEMMA Outcomes ==
  ASSUME IInv, ~ lost, attempt \in {"confirmed", "failed"}
  PROVE  /\ report["mv"] \in {"succeeded", "failed"}
         /\ report["mv"] = "succeeded" => loop.mv = "initial"
         /\ ModeNeeded /\ ~ KeepManual => report["mode"] \in {"succeeded", "failed"}
         /\ report["mode"] = "succeeded" => loop.mode = policy.init
         /\ SetpointNeeded => report["sp"] \in {"succeeded", "failed"}
         /\ report["sp"] = "succeeded" => loop.sp = "initial" \/ loop.mode = "manual"
         /\ AttrNeeded => report["attr"] \in {"succeeded", "failed"}
         /\ report["attr"] = "succeeded" => loop.attr = "initial"
<1>1. report \in [Steps -> StepOutcome]
  BY DEF IInv, TypeOK
<1>2. \A s \in Steps : report[s] \in {"not_needed", "succeeded", "failed"}
  BY <1>1 DEF StepOutcome
<1>3. ModeTried /\ SpTried /\ AttrTried
  BY DEF ModeTried, SpTried, AttrTried
<1>4. MvOK /\ DoneOK
  BY DEF IInv
<1>5. QED
  BY <1>2, <1>3, <1>4 DEF MvOK, DoneOK, Steps

LEMMA ConfirmedIsRestored == IInv => ConfirmedMeansRestored
<1> SUFFICES ASSUME IInv, attempt = "confirmed", ~ lost
             PROVE  \A s \in Steps : Back(s)
  BY DEF ConfirmedMeansRestored
<1>1. /\ \A s \in Steps : report[s] # "failed"
      /\ hold # "failed"
  BY DEF IInv, DoneOK, ManualOK
<1>2. report["mv"] = "succeeded" /\ loop.mv = "initial"
  BY <1>1, Outcomes DEF Steps
<1>3. policy \in Policies /\ GuardOK
  BY DEF IInv, TypeOK
<1>4. guard.mode /\ policy.revert => loop.mode = policy.init
  <2>1. guard.mode /\ policy.revert => ModeNeeded
    BY <1>3 DEF GuardOK, ModeNeeded
  <2>2. ~ KeepManual
    BY <1>1, <1>2 DEF KeepManual
  <2>3. QED
    BY <1>1, <2>1, <2>2, Outcomes DEF Steps
<1>5. SetpointNeeded => loop.sp = "initial"
  <2>1. SetpointNeeded => guard.mode /\ policy.revert /\ policy.init = "auto"
    BY DEF SetpointNeeded, Captured
  <2>2. SetpointNeeded => report["sp"] = "succeeded"
    BY <1>1, Outcomes DEF Steps
  <2>3. QED
    BY <1>4, <2>1, <2>2, Outcomes
<1>6. loop.attr = "initial" \/ policy.programmed
  <2>1. loop.attr # "initial" /\ ~ policy.programmed => AttrNeeded
    BY <1>3 DEF GuardOK, AttrNeeded
  <2>2. QED
    BY <1>1, <2>1, Outcomes DEF Steps
<1>7. QED
  BY <1>2, <1>4, <1>5, <1>6 DEF Back, Steps

LEMMA NothingIsSkipped == IInv => NothingSkipped
<1> SUFFICES ASSUME IInv, attempt \in {"confirmed", "failed"}, ~ lost, NEW s \in Steps
             PROVE  \/ Back(s)
                    \/ report[s] = "failed"
                    \/ s = "mode" /\ KeepManual
                    \/ s = "sp" /\ loop.mode = "manual"
  BY DEF NothingSkipped
<1>1. policy \in Policies /\ GuardOK
  BY DEF IInv, TypeOK
<1>2. CASE s = "mv"
  BY <1>2, Outcomes DEF Back
<1>3. CASE s = "mode"
  <2>1. guard.mode /\ policy.revert => ModeNeeded
    BY <1>1 DEF GuardOK, ModeNeeded
  <2>2. QED
    BY <1>3, <2>1, Outcomes DEF Back
<1>4. CASE s = "sp"
  BY <1>4, Outcomes DEF Back
<1>5. CASE s = "attr"
  <2>1. loop.attr # "initial" /\ ~ policy.programmed => AttrNeeded
    BY <1>1 DEF GuardOK, AttrNeeded
  <2>2. QED
    BY <1>5, <2>1, Outcomes DEF Back
<1>6. QED
  BY <1>2, <1>3, <1>4, <1>5 DEF Steps

\* What a restore reports is so, and the guard knows what the tune changed:
\* ConfirmedMeansRestored, NothingSkipped, FailedHoldKeepsManual and
\* MutationIsGuarded of tune/restore.rs, for every policy, whatever the driver
\* answers, whenever a write arrives and however often Ctrl+C is pressed.
THEOREM RestoreReportsTheLoop == Spec => []RestoreSafe
<1>1. IInv => TypeOK /\ FailedHoldKeepsManual /\ MutationIsGuarded
  BY DEF IInv, ManualOK, GuardOK, FailedHoldKeepsManual, MutationIsGuarded
<1>2. IInv => RestoreSafe
  BY <1>1, ConfirmedIsRestored, NothingIsSkipped DEF RestoreSafe
<1>3. QED
  BY <1>2, Invariance, PTL

\* When the release to Auto is under way the MV step has succeeded.
LEMMA MvBackAtRelease ==
  ASSUME IInv, pc = "mode_back", policy.init = "auto", ~ lost
  PROVE  loop.mv = "initial"
<1>1. policy.mode /\ guard.mode /\ policy.revert /\ ~ KeepManual
  BY DEF IInv, GuardOK, ModeNeeded
<1>2. policy.live
  BY <1>1, PolicyFacts DEF IInv, TypeOK
<1>3. ShouldSettle
  BY <1>1, <1>2 DEF ShouldSettle
<1>4. report["mv"] = "succeeded"
  BY <1>1, <1>3 DEF KeepManual
<1>5. QED
  BY <1>4 DEF IInv, MvOK

LEMMA ReleaseStep ==
  ASSUME IInv, [Next]_vars, loop.mode = "manual", loop'.mode = "auto", ~ lost
  PROVE  loop.mv = "initial"
<1>1. TypeOK /\ GuardOK /\ FlightOK
  BY DEF IInv
<1>2. CASE Land
  <2>1. PICK w \in flight : Reach(w)
    BY <1>2 DEF Land
  <2>2. w \in Writes
    BY <1>1 DEF TypeOK
  <2>3. w[1] = "mode" /\ w[2] = "auto"
    BY <1>1, <2>1, <2>2, ReachFacts
  <2>4. pc \in Sends /\ w = WriteAt(pc)
    BY <1>1, <2>3 DEF FlightOK
  <2>5. pc = "mode_back" /\ policy.init = "auto"
    BY <2>3, <2>4, PlaceFacts DEF Sends, MvInitial
  <2>6. QED
    BY <2>5, MvBackAtRelease
<1>3. CASE pc \in Sends /\ Accepted
  <2>1. pc = "mode_back" /\ policy.init = "auto"
    BY <1>3, AcceptedFacts
  <2>2. QED
    BY <2>1, MvBackAtRelease
<1>4. CASE SetpointTracks \/ PollEnds
  <2>1. loop'.mode = loop.mode
    BY <1>1, <1>4 DEF SetpointTracks, PollEnds, TypeOK
  <2>2. QED
    BY <2>1
<1>5. CASE loop' = loop
  BY <1>5
<1>6. TransitionAnswered \/ MvAnswered \/ StepAnswered => loop' = loop \/ (pc \in Sends /\ Accepted)
  BY DEF TransitionAnswered, MvAnswered, StepAnswered, StepAt, Refused, Abandoned, Sends
<1>7. ReadInitial \/ WriteBack \/ SendAttr \/ SendMode \/ ChooseMv \/ HandoffReturns \/ MvChecked
        => loop' = loop
  BY DEF ReadInitial, WriteBack, SendAttr, SendMode, ChooseMv, HandoffReturns, MvChecked, Send,
         world
<1>8. SendModeBack \/ SendSetpointBack \/ SendAttrBack => loop' = loop
  BY DEF SendModeBack, SendSetpointBack, SendAttrBack, SendStep, Send, world
<1>9. RestoreMvExpires \/ RestoreMvInterrupted \/ RestInterrupted \/ RestExpires => loop' = loop
  BY DEF RestoreMvExpires, RestoreMvInterrupted, RestInterrupted, RestExpires, Abandoned, world
<1>10. ChoosePolicy \/ Settle \/ RestDone \/ FinishRun \/ PressCtrlC \/ Expire => loop' = loop
  BY DEF ChoosePolicy, Settle, RestDone, FinishRun, PressCtrlC, Expire, world
<1>11. Returned \/ UNCHANGED vars => loop' = loop
  BY DEF Returned, vars, world
<1>12. QED
  BY <1>2, <1>3, <1>4, <1>5, <1>6, <1>7, <1>8, <1>9, <1>10, <1>11
     DEF Next, Unbounded, Own, Driver

\* The loop is given back to Auto only with its MV where Auto left it, unless a
\* write of unknown fate is about: RestoreModePolicy and the order of the steps
\* in tune/restore.rs.
THEOREM ReleasedAtInitialMv == Spec => AutoReleasedAtInitialMv
<1>1. IInv /\ [Next]_vars =>
        [loop.mode = "manual" /\ loop'.mode = "auto" /\ ~ lost => loop.mv = "initial"]_vars
  BY ReleaseStep
<1>2. QED
  BY <1>1, Invariance, PTL DEF Spec, AutoReleasedAtInitialMv


=============================================================================
