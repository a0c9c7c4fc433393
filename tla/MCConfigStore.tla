--------------------------- MODULE MCConfigStore ----------------------------
(***************************************************************************)
(* Two browser tabs, an editor with five texts (none, a hand-written file, *)
(* a file whose [tuning] table is not valid, a Demo file with a value the  *)
(* policy does not allow, a file that is not TOML), and four requests.     *)
(***************************************************************************)
EXTENDS ConfigStore

MCEnv == [mode |-> None, bind |-> None, origin |-> None, templates |-> None,
          retention |-> None]

Plain   == [EmptyText EXCEPT !.retention = 30,
                             !.tuning = [NoTuning EXCEPT !.timeout_secs = 60]]
Invalid == [EmptyText EXCEPT !.tuning = [NoTuning EXCEPT !.poll_interval_ms = 0]]
Demo    == [EmptyText EXCEPT !.site = [NoSite EXCEPT !.mode = "demo",
                                                     !.demo = [run_timeout_secs |-> 60]]]

Symmetry == Permutations(Client)

MCEditorTexts == {None, Plain, Invalid, Demo, TornText}

MCUpdates ==
    {[allow |-> FALSE, retention |-> 30, tuning |-> None],
     [allow |-> TRUE, retention |-> 0, tuning |-> None],
     [allow |-> TRUE, retention |-> None,
      tuning |-> [NoTuning EXCEPT !.restore_timeout_secs = 2]],
     [allow |-> FALSE, retention |-> None,
      tuning |-> [NoTuning EXCEPT !.timeout_secs = 10000]]}
=============================================================================
