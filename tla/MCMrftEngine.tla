---------------------------- MODULE MCMrftEngine ----------------------------
EXTENDS MrftEngine

\* Both directions, with and without hysteresis, hold-off and skipped cycle; a
\* relay step that fits, that is clamped at either end of the range, and that
\* is clamped to less than a switch (validate_relay_actuation_step refuses the
\* last one for OPC DA; a simulated run may have it).
Shape == {[skip |-> 0, count |-> 2, noise |-> 0, beta |-> 43],
          [skip |-> 1, count |-> 2, noise |-> 3, beta |-> 43],
          [skip |-> 0, count |-> 1, noise |-> 2, beta |-> 0]}
Tests(shapes) ==
    {[skip |-> s.skip, count |-> s.count, noise |-> s.noise, beta |-> s.beta,
      amp |-> 50, action |-> a, low |-> 0, high |-> 8, ini |-> i] :
        s \in shapes, a \in {1, -1}, i \in {1, 3, 4, 6}}
MCConfigs == Tests(Shape)

MCPVs == -2..2
=============================================================================
