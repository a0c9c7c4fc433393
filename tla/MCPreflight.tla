---------------------------- MODULE MCPreflight -----------------------------
(***************************************************************************)
(* Worlds for the preflight: a healthy OPC DA loop and a simulator request *)
(* with up to two independent deviations each, so that every check is met  *)
(* both alone and together with one other.                                 *)
(***************************************************************************)
EXTENDS Preflight

Num(n)  == [num |-> TRUE, v |-> n]
Text(n) == [num |-> FALSE, v |-> n]
Reading(value, quality) == [value |-> value, quality |-> quality]
Good(value) == <<Reading(value, "good")>>

\* Mode texts: 0 Manual, 1 Auto, 2 Cascade; 7 is the program attribute.
FullDef ==
    [has |-> OptionalRoles \cup FixableRoles, manual |-> Text(0), auto |-> Text(1),
     program |-> Text(7)]
BareDef ==
    [has |-> RangeRoles \cup {"controller_direction"}, manual |-> Text(0),
     auto |-> Text(1), program |-> None]

HealthyPlant ==
    [tag \in Roles \cup {""} |->
        CASE tag = "" -> <<>>
          [] tag = "controller_mode" -> Good(Text(1))
          [] tag = "mode_attribute" -> Good(Text(7))
          [] tag = "controller_direction" -> Good(Text(0))
          [] tag \in {"upper_pv_range", "upper_mv_range"} -> Good(Num(10))
          [] tag \in {"lower_pv_range", "lower_mv_range"} -> Good(Num(0))
          [] OTHER -> Good(Num(5))]

Healthy ==
    [driver |-> "opcda", process |-> "flow", controller |-> "pi", finite |-> TRUE,
     cycles |-> None, overridesOk |-> TRUE, relay |-> 200, fixed |-> [r \in FixableRoles |-> None],
     alias |-> [r \in Roles |-> None], writePid |-> FALSE, yes |-> FALSE,
     server |-> TRUE, tuning |-> NoTuning, allowUncertain |-> TRUE,
     builtin |-> FullDef, catalog |-> None,
     older |-> [builtin |-> None, catalog |-> None], edits |-> 0,
     compat |-> "full", registered |-> TRUE, plant |-> HealthyPlant,
     unexpected |-> FALSE, taken |-> FALSE]

Simulated ==
    [Healthy EXCEPT
        !.driver = "simulator", !.server = FALSE,
        !.fixed = [r \in FixableRoles |->
                      IF r \in {"upper_pv_range", "upper_mv_range"} THEN 10 ELSE 0]]

MCDefinitions == {FullDef, BareDef}

\* The answers a tag may give instead of its healthy one.
OddAnswers(tag) ==
    {<<>>, Good(Text(2)), Good(Num(0)), Good(Num(10)), Good(Num(11)),
     <<Reading(HealthyPlant[tag][1].value, "uncertain")>>,
     <<Reading(HealthyPlant[tag][1].value, "bad")>>,
     <<HealthyPlant[tag][1], Reading(HealthyPlant[tag][1].value, "bad")>>,
     <<HealthyPlant[tag][1], Reading(Num(11), "good")>>}

PlantDeviations(w, roles) ==
    {[w EXCEPT !.plant[tag] = a] : <<tag, a>> \in
        UNION {{tag} \X OddAnswers(tag) : tag \in roles}}

OtherDeviations(w) ==
    {[w EXCEPT !.finite = FALSE], [w EXCEPT !.cycles = 0],
     [w EXCEPT !.overridesOk = FALSE], [w EXCEPT !.controller = "pid"],
     [w EXCEPT !.controller = "pid", !.process = "temperature_mixing"],
     [w EXCEPT !.relay = 0],
     [w EXCEPT !.server = FALSE], [w EXCEPT !.relay = 500], [w EXCEPT !.writePid = TRUE],
     [w EXCEPT !.writePid = TRUE, !.yes = TRUE], [w EXCEPT !.allowUncertain = FALSE],
     [w EXCEPT !.registered = FALSE], [w EXCEPT !.unexpected = TRUE],
     [w EXCEPT !.taken = TRUE],
     [w EXCEPT !.tuning.restore_timeout_secs = 3], [w EXCEPT !.tuning.op_timeout_secs = 0],
     [w EXCEPT !.fixed["upper_mv_range"] = 4], [w EXCEPT !.fixed["upper_pv_range"] = 0],
     [w EXCEPT !.fixed["controller_direction"] = None],
     [w EXCEPT !.alias["setpoint_variable"] = "process_variable"],
     [w EXCEPT !.alias["controller_mode"] = "process_variable"]}
    \cup {[w EXCEPT !.compat = c] : c \in {"partial", "unknown", "incompatible"}}

\* Every mix of shipped definitions, older ones, and two edits of the row.
TemplateDeviations(w) ==
    {[w EXCEPT !.builtin = b, !.catalog = c, !.older = o, !.edits = 2] :
             b \in {None, FullDef}, c \in {None, BareDef},
             o \in [builtin : {None, BareDef}, catalog : {None, FullDef}]}

\* One tag of each kind, for the pairs.
PairedRoles == {"manipulated_variable", "setpoint_variable", "controller_mode",
                "mode_attribute", "upper_mv_range", "proportional_constant"}

\* Two deviations at once, at most one of them in the plant.
MCWorlds ==
    UNION {{w} \cup PlantDeviations(w, Roles) \cup OtherDeviations(w)
            \cup UNION {PlantDeviations(v, PairedRoles) \cup OtherDeviations(v) :
                           v \in OtherDeviations(w) \cup TemplateDeviations(w)} :
              w \in {Healthy, Simulated}}
=============================================================================
