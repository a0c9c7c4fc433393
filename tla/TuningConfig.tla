---------------------------- MODULE TuningConfig ----------------------------
(***************************************************************************)
(* The [tuning] table of bhtune.toml: five optional values, the built-in  *)
(* defaults that stand in for absent ones, and the validation every tune  *)
(* and every save of the configuration page goes through.                 *)
(*                                                                         *)
(* A table is a function on the five keys; None is an absent key.          *)
(***************************************************************************)
EXTENDS Integers

CONSTANT None

TuningKeys == {"mrft_delay_secs", "poll_interval_ms", "timeout_secs",
               "op_timeout_secs", "restore_timeout_secs"}

DefaultTuning ==
    [mrft_delay_secs |-> 0, poll_interval_ms |-> 800, timeout_secs |-> 3600,
     op_timeout_secs |-> 30, restore_timeout_secs |-> 30]

MaxMrftDelaySecs == 3600
MinOpcRestoreTimeoutSecs == 4

NoTuning == [k \in TuningKeys |-> None]

ResolveTuning(raw) ==
    [k \in TuningKeys |-> IF raw[k] = None THEN DefaultTuning[k] ELSE raw[k]]

\* The OPC DA minimum is the confirmation window of a restored MV.
ValidateTuning(eff, opc) ==
    /\ eff.mrft_delay_secs <= MaxMrftDelaySecs
    /\ eff.poll_interval_ms # 0
    /\ eff.timeout_secs # 0
    /\ eff.op_timeout_secs # 0
    /\ eff.restore_timeout_secs >= IF opc THEN MinOpcRestoreTimeoutSecs ELSE 1

TuningIsValid(raw, opc) == ValidateTuning(ResolveTuning(raw), opc)
=============================================================================
