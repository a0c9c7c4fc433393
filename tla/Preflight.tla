----------------------------- MODULE Preflight ------------------------------
(***************************************************************************)
(* `bhtune check` (and POST /api/runs/preflight), followed by the start of *)
(* the very tune it was asked about.                                       *)
(*                                                                         *)
(* The preflight is a chain of local checks and of gateway calls, each of  *)
(* which may fail or time out; some failures end it with an error, others  *)
(* become a line of its report.  The start then repeats, in its own code   *)
(* and in another order, what the preflight looked at: it seeds and reads  *)
(* the templates from the database instead of resolving them in memory,    *)
(* asks the gateway for its compatibility again, takes ownership of the    *)
(* loop, and reads a smaller batch of tags.  Any of its database calls may *)
(* fail.  The world (request, configuration, templates, gateway, plant) *)
(* is chosen initially and does not change, so whatever the two disagree   *)
(* about is a disagreement of the code and not of the plant.               *)
(*                                                                         *)
(* A world w is a record:                                                  *)
(*   driver, process, controller, finite, cycles, overridesOk, relay,      *)
(*   fixed, alias, writePid, yes, server    the request                    *)
(*   tuning, allowUncertain           the configuration                    *)
(*   builtin, catalog, older          the definitions under the requested  *)
(*                                    name, None where there is none, and  *)
(*                                    those of the last installed version  *)
(*   edits                            how often the row may be edited      *)
(*   compat, registered               the gateway                          *)
(*   taken                            another live operation holds the     *)
(*                                    database, or the claim on the loop   *)
(*                                    is still some owner's                *)
(*   plant, unexpected                what a read returns: per tag the     *)
(*                                    readings in the order of the answer  *)
(* A tag's value is [num, v]: numeric or not, and which one it is.         *)
(***************************************************************************)
EXTENDS TuningConfig, Sequences, FiniteSets

CONSTANTS
    Worlds,
    Definitions     \* what a user may store under the name

\* What a read returns, and what the row of a name may hold.
Readings == [value : [num : BOOLEAN, v : Int], quality : {"good", "uncertain", "bad"}]

Shipped(w) == {w.builtin, w.catalog, w.older.builtin, w.older.catalog} \ {None}
Rows == [origin : {"builtin", "catalog", "user"},
         def : Definitions \cup UNION {Shipped(w) : w \in Worlds}]

\* None is no definition and no row; a read returns readings.
ASSUME PreflightAssumption ==
    /\ None \notin Definitions \cup Rows
    /\ \A w \in Worlds : w.plant \in [DOMAIN w.plant -> Seq(Readings)]

VARIABLES
    world,      \* chosen initially, never changes
    stage,      \* where the preflight is
    def,        \* the template definition the preflight resolved
    checks,     \* the report: check -> status
    reads,      \* the report: tag -> status
    dbRow,      \* the dcs_templates row of the requested name
    rowEdits,   \* how often it was edited
    start,      \* where the start is
    reason      \* why the start was refused

preflightVars == <<world, stage, def, checks, reads, dbRow, rowEdits, start, reason>>

RangeRoles == {"upper_pv_range", "lower_pv_range", "upper_mv_range", "lower_mv_range"}
PidRoles   == {"proportional_constant", "integral_constant", "derivative_constant"}
OptionalRoles == {"setpoint_variable", "controller_mode", "mode_attribute"} \cup PidRoles
FixableRoles  == RangeRoles \cup {"controller_direction"}
Roles == {"process_variable", "manipulated_variable"} \cup OptionalRoles \cup FixableRoles
NumericRoles == Roles \ {"controller_mode", "mode_attribute", "controller_direction"}

Statuses == {"pass", "warn", "fail"}
Checks == {"tuning", "template", "loop", "info", "compat", "progid", "caps",
           "tags", "mode", "attribute", "initial", "writeback"}

-----------------------------------------------------------------------------
(* The request and the tags it derives.                                    *)

\* ValidatedTuneRequest::try_from
RequestIsValid(w) == w.finite /\ (w.cycles # None => w.cycles > 0) /\ w.overridesOk

\* In tenths of a percent of the MV range.
RelayAmp == 1 .. 500
TemperatureTypes == {"temperature_mixing", "temperature_heat_exchange"}

\* build_loop_config_with_timing and LoopConfig::validate.  The defaults of
\* every process type measure at least one cycle.
LoopConfigIsValid(w) ==
    /\ w.controller = "pid" => w.process \in TemperatureTypes
    /\ w.relay \in RelayAmp
    /\ w.cycles # None => w.cycles >= 1
    /\ ResolveTuning(w.tuning).mrft_delay_secs <= MaxMrftDelaySecs

NoSource == [kind |-> "none", tag |-> "", value |-> 0]

\* A blank suffix disables an optional role; a range or the direction falls
\* back to the tag with the empty name.
DeriveTag(d, role) ==
    IF role \in d.has \cup {"process_variable", "manipulated_variable"}
    THEN [NoSource EXCEPT !.kind = "tag", !.tag = role]
    ELSE IF role \in FixableRoles THEN [NoSource EXCEPT !.kind = "tag"]
    ELSE NoSource

\* Tag overrides first, then the fixed values, which stay authoritative.
OpcTags(w, d) ==
    [role \in Roles |->
        IF role \in FixableRoles /\ w.fixed[role] # None
        THEN [NoSource EXCEPT !.kind = "value", !.value = w.fixed[role]]
        ELSE IF w.alias[role] # None
        THEN [NoSource EXCEPT !.kind = "tag", !.tag = w.alias[role]]
        ELSE DeriveTag(d, role)]

SimulatorTags(w) ==
    [role \in Roles |->
        IF role \in FixableRoles
        THEN [NoSource EXCEPT !.kind = "value", !.value = w.fixed[role]]
        ELSE IF role \in {"process_variable", "manipulated_variable"}
        THEN [NoSource EXCEPT !.kind = "tag", !.tag = role]
        ELSE NoSource]

\* The simulator has no tags for the ranges and the direction.
LoopTagsExist(w) ==
    w.driver = "simulator" => \A role \in FixableRoles : w.fixed[role] # None

BuildLoopTags(w, d) == IF w.driver = "simulator" THEN SimulatorTags(w) ELSE OpcTags(w, d)

TagsOf(tags, roles) == {tags[role].tag : role \in {r \in roles : tags[r].kind = "tag"}}
HasTag(tags, role) == tags[role].kind = "tag"

-----------------------------------------------------------------------------
(* Templates.                                                              *)

\* Mutant of ResolveTemplate: without a row the user catalog wins.
ResolveCatalogFirst(w, row) ==
    IF row # None
    THEN CASE row.origin = "builtin" /\ w.builtin # None -> w.builtin
           [] row.origin = "catalog" /\ w.catalog # None -> w.catalog
           [] OTHER -> row.def
    ELSE IF w.catalog # None THEN w.catalog ELSE w.builtin

\* resolve_template: the row decides whose template it is; a shipped one is
\* then taken from where the next startup would seed it from.
ResolveTemplate(w, row) ==
    IF row # None
    THEN CASE row.origin = "builtin" /\ w.builtin # None -> w.builtin
           [] row.origin = "catalog" /\ w.catalog # None -> w.catalog
           [] OTHER -> row.def
    ELSE IF w.builtin # None THEN w.builtin ELSE w.catalog

\* DcsTemplateRow::insert and update: an update keeps the owner of the row.
InsertRow(d, origin) == [origin |-> origin, def |-> d]
UpdateRow(row, d) == [row EXCEPT !.def = d]

\* seed_templates for the one name: insert, update a row of the same origin,
\* leave a row of another origin alone.
SeedTemplate(row, d, origin) ==
    IF d = None THEN row
    ELSE IF row = None THEN InsertRow(d, origin)
    ELSE IF row.origin = origin THEN UpdateRow(row, d) ELSE row

\* Every open of the database seeds the built-ins and then the catalog.
SeedAll(w, row) == SeedTemplate(SeedTemplate(row, w.builtin, "builtin"), w.catalog, "catalog")

-----------------------------------------------------------------------------
(* How the row came about.                                                 *)

\* The last start of the version installed before.
OlderStart ==
    /\ stage = "older"
    /\ dbRow' = SeedAll(world.older, dbRow)
    /\ stage' = "edit"
    /\ UNCHANGED <<world, def, checks, reads, rowEdits, start, reason>>

Edit(row) ==
    /\ stage = "edit" /\ rowEdits < world.edits
    /\ rowEdits' = rowEdits + 1
    /\ dbRow' = row
    /\ UNCHANGED <<world, stage, def, checks, reads, start, reason>>

\* POST /api/templates: a taken name is refused.
CreateTemplate(d) == dbRow = None /\ Edit(InsertRow(d, "user"))

\* PUT /api/templates/{name}: only a user's row.
UpdateTemplate(d) == dbRow # None /\ dbRow.origin = "user" /\ Edit(UpdateRow(dbRow, d))

\* DELETE /api/templates/{name}: anyone's row.
DeleteTemplate == dbRow # None /\ Edit(None)

\* `bhtune template import`: one JSON template refuses a taken name, a TOML
\* catalog skips it; what is inserted is the user's either way.
ImportTemplate(d) == dbRow = None /\ Edit(InsertRow(d, "user"))

\* `bhtune template delete`: anyone's row too; a shipped one comes back.
RemoveTemplate == dbRow # None /\ Edit(None)

EditsDone ==
    /\ stage = "edit"
    /\ stage' = "request"
    /\ UNCHANGED <<world, def, checks, reads, dbRow, rowEdits, start, reason>>

-----------------------------------------------------------------------------
(* Reading tags.                                                           *)

QualityOk(w, q) == q = "good" \/ (q = "uncertain" /\ w.allowUncertain)

Answers(w, tag) == w.plant[tag]
FirstReading(w, tag) == Answers(w, tag)[1]
LastReading(w, tag)  == Answers(w, tag)[Len(Answers(w, tag))]

\* A batch keyed by tag holds one reading of each tag that was answered: the
\* first answer or the last one.
Answered(w)   == {tag \in DOMAIN w.plant : Answers(w, tag) # <<>>}
FirstBatch(w) == [tag \in Answered(w) |-> FirstReading(w, tag)]
LastBatch(w)  == [tag \in Answered(w) |-> LastReading(w, tag)]

\* Usable: it is there and its quality is accepted.
Usable(w, batch, tag) == tag \in DOMAIN batch /\ QualityOk(w, batch[tag].quality)

NumberUsable(w, batch, source) ==
    \/ source.kind = "value"
    \/ Usable(w, batch, source.tag) /\ batch[source.tag].value.num

NumberOf(batch, source) ==
    IF source.kind = "value" THEN source.value ELSE batch[source.tag].value.v

InAuto(batch, d, tags) ==
    /\ HasTag(tags, "controller_mode")
    /\ batch[tags["controller_mode"].tag].value = d.auto

\* Everything read before the mode transition, for either batch.  The
\* setpoint is asked for only when the loop is found in Auto.
InitialReadable(w, batch, d, tags) ==
    /\ \A role \in {"process_variable", "manipulated_variable"} \cup RangeRoles :
          NumberUsable(w, batch, tags[role])
    /\ \A role \in {"controller_mode", "mode_attribute", "controller_direction"} :
          HasTag(tags, role) => Usable(w, batch, tags[role].tag)
    /\ (HasTag(tags, "setpoint_variable") /\ InAuto(batch, d, tags)) =>
          NumberUsable(w, batch, tags["setpoint_variable"])

\* validate_initial_state
InitialStateIsValid(batch, tags) ==
    LET n(role) == NumberOf(batch, tags[role])
    IN  /\ n("upper_pv_range") # n("lower_pv_range")
        /\ n("lower_mv_range") < n("upper_mv_range")
        /\ n("manipulated_variable") \in n("lower_mv_range") .. n("upper_mv_range")

\* clamp_relay_amplitude and the smallest step that can be told apart from
\* rounding; only an OPC DA run has to confirm its steps.
RelayStepIsVerifiable(w, batch, tags) ==
    LET n(role) == NumberOf(batch, tags[role])
        high == n("upper_mv_range")
        low  == n("lower_mv_range")
        ini  == n("manipulated_variable")
        raw  == (w.relay * (high - low)) \div 1000
        step == IF ini + raw > high THEN high - ini
                ELSE IF ini - raw < low THEN ini - low ELSE raw
    IN  w.driver = "opcda" => step > 0

-----------------------------------------------------------------------------
(* The report.                                                             *)

Worst(statuses) ==
    IF "fail" \in statuses THEN "fail" ELSE IF "warn" \in statuses THEN "warn" ELSE "pass"

ReportStatuses == {checks[c] : c \in DOMAIN checks} \cup {reads[t] : t \in DOMAIN reads}

Passes(strict) ==
    /\ "fail" \notin ReportStatuses
    /\ strict => "warn" \notin ReportStatuses

\* New lines of the report.
Report(lines) ==
    checks' = [c \in DOMAIN checks \cup DOMAIN lines |->
                  IF c \in DOMAIN lines THEN lines[c] ELSE checks[c]]
Push(name, status) == Report([c \in {name} |-> status])

\* assess_tag_read
AssessTagRead(w, tags, tag) ==
    LET roles == {r \in Roles : HasTag(tags, r) /\ tags[r].tag = tag}
        r     == FirstReading(w, tag)
    IN  IF Answers(w, tag) = <<>> THEN "fail"
        ELSE IF Len(Answers(w, tag)) > 1 \/ ~QualityOk(w, r.quality) THEN "fail"
        ELSE IF roles \cap NumericRoles # {} /\ ~r.value.num THEN "fail"
        ELSE IF r.quality = "uncertain" THEN "warn" ELSE "pass"

\* mode_status: only the template's Manual and Auto values are accepted.
ModeStatus(w, d, tags, read) ==
    LET tag == tags["controller_mode"].tag
    IN  IF ~HasTag(tags, "controller_mode") THEN "pass"
        ELSE IF read[tag] = "fail" THEN "fail"
        ELSE IF FirstReading(w, tag).value \in {d.manual, d.auto} THEN read[tag]
        ELSE "fail"

ModeAttributeStatus(w, d, tags, read) ==
    LET tag == tags["mode_attribute"].tag
    IN  IF ~HasTag(tags, "mode_attribute") THEN "pass"
        ELSE IF d.program = None \/ read[tag] = "fail" THEN "fail"
        ELSE IF FirstReading(w, tag).value = d.program THEN read[tag]
        ELSE "warn"

\* write_back_status
WriteBackStatus(w, tags, read, attribute) ==
    LET of(role) == read[tags[role].tag]
    IN  IF w.driver = "simulator" THEN IF w.writePid THEN "fail" ELSE "pass"
        ELSE IF \E role \in PidRoles : ~HasTag(tags, role)
             THEN IF w.writePid THEN "fail" ELSE "warn"
        ELSE IF attribute = "fail" \/ (w.writePid /\ attribute = "warn") THEN "fail"
        ELSE Worst({of(role) : role \in PidRoles} \cup ({attribute} \cap {"warn"}))

\* Mutant of InitialStatus: the values are read but not checked together.
InitialReadOnlyStatus(w, d, tags) ==
    IF InitialReadable(w, FirstBatch(w), d, tags) THEN "pass" ELSE "fail"

\* initial_state_from_batch followed by validate_initial_state
InitialStatus(w, d, tags) ==
    IF /\ InitialReadable(w, FirstBatch(w), d, tags)
       /\ InitialStateIsValid(FirstBatch(w), tags)
    THEN "pass" ELSE "fail"

CompatibilityStatus(c) ==
    CASE c = "full" -> "pass" [] c \in {"partial", "unknown"} -> "warn" [] OTHER -> "fail"

-----------------------------------------------------------------------------
(* The preflight.  A fault is an error or a timeout of one call.           *)

Untouched == UNCHANGED <<world, dbRow, rowEdits, start, reason>>

\* POST /api/runs/preflight and `bhtune check`: an invalid request is an
\* error, not a line of the report.
RequestPreflight ==
    /\ stage = "request"
    /\ stage' = IF RequestIsValid(world) THEN "local" ELSE "error"
    /\ UNCHANGED <<def, checks, reads>>
    /\ Untouched

\* build_with_poll_interval: the simulator is built in process, the OPC DA
\* driver needs the gateway, which may be out of reach.
DriverBuilds(w) == IF w.driver = "simulator" THEN {TRUE} ELSE {TRUE, FALSE}

NotApplicable == {"info", "compat", "progid"}

\* What follows the look-up of the template, in its order.
ResolveLocally(d) ==
    IF d = None
    THEN stage' = "done" /\ Push("template", "fail") /\ UNCHANGED def
    ELSE IF ~LoopConfigIsValid(world)
    THEN stage' = "done" /\ Push("loop", "fail") /\ def' = d
    ELSE IF ~LoopTagsExist(world)
    THEN stage' = "done" /\ Push("template", "fail") /\ def' = d
    ELSE /\ def' = d
         /\ checks' = [c \in {"tuning", "template", "loop"} \cup
                         IF world.driver = "simulator" THEN NotApplicable ELSE {}
                         |-> "pass"]
         /\ stage' = IF world.driver = "simulator" THEN "connect"
                  ELSE IF world.server THEN "info" ELSE "error"

\* Everything that needs neither the gateway nor the plant.  The look-up of
\* the template in the database may fail.
CheckLocal ==
    /\ stage = "local"
    /\ LET d == ResolveTemplate(world, dbRow)
       IN  IF ~TuningIsValid(world.tuning, world.driver = "opcda")
           THEN stage' = "done" /\ Push("tuning", "fail") /\ UNCHANGED def
           ELSE \/ stage' = "error" /\ UNCHANGED <<def, checks>>
                \/ ResolveLocally(d)
    /\ UNCHANGED reads
    /\ Untouched

\* Gateway metadata that cannot be read is a warning.
GatewayInfo ==
    /\ stage = "info"
    /\ \E status \in {"pass", "warn"} : Push("info", status)
    /\ stage' = "compat"
    /\ UNCHANGED <<def, reads>>
    /\ Untouched

\* A classification that cannot be made ends the preflight with an error.
GatewayCompatibility ==
    /\ stage = "compat"
    /\ \/ /\ Push("compat", CompatibilityStatus(world.compat))
          /\ stage' = "progid"
       \/ stage' = "error" /\ UNCHANGED checks
    /\ UNCHANGED <<def, reads>>
    /\ Untouched

\* The ProgID is looked up even on an incompatible gateway.
ServerDiscovery ==
    /\ stage = "progid"
    /\ \/ /\ Push("progid", IF world.registered THEN "pass" ELSE "fail")
          /\ stage' = IF world.registered /\ world.compat # "incompatible"
                   THEN "connect" ELSE "done"
       \/ stage' = "error" /\ UNCHANGED checks
    /\ UNCHANGED <<def, reads>>
    /\ Untouched

\* build_with_poll_interval, wrapped in the driver that refuses writes, and
\* the server's capabilities.
ConnectReadOnly ==
    /\ stage = "connect"
    /\ \E built \in DriverBuilds(world) :
          \/ /\ built
             /\ \E status \in {"pass", "warn"} :
                   /\ world.driver = "simulator" => status = "pass"
                   /\ Push("caps", status)
             /\ stage' = "read"
          \/ ~built /\ stage' = "error" /\ UNCHANGED checks
    /\ UNCHANGED <<def, reads>>
    /\ Untouched

\* One batch for every derived tag, and every check made on its answer.
ReadDerivedTags ==
    /\ stage = "read"
    /\ stage' = "done"
    /\ \/ /\ world.driver = "opcda"
          /\ Push("tags", "fail")
          /\ UNCHANGED reads
       \/ LET tags == BuildLoopTags(world, def)
              read == [t \in TagsOf(tags, Roles) |-> AssessTagRead(world, tags, t)]
              attr == ModeAttributeStatus(world, def, tags, read)
          IN  /\ reads' = read
              /\ Report([tags      |-> IF world.unexpected THEN "fail"
                                       ELSE Worst({read[t] : t \in DOMAIN read}),
                         mode      |-> ModeStatus(world, def, tags, read),
                         attribute |-> attr,
                         initial   |-> InitialStatus(world, def, tags),
                         writeback |-> WriteBackStatus(world, tags, read, attr)])
    /\ UNCHANGED def
    /\ Untouched

-----------------------------------------------------------------------------
(* The start of the tune.                                                  *)

Refuse(why) == start' = "refused" /\ reason' = why
Kept == UNCHANGED <<world, stage, def, checks, reads, rowEdits>>

\* A database call of the start that fails.
DatabaseFails == Refuse("database") /\ UNCHANGED dbRow

\* db::open: migrations, then the seeding of both template catalogs.
OpenDatabase ==
    /\ stage \in {"done", "error"} /\ start = "none"
    /\ \/ DatabaseFails
       \/ dbRow' = SeedAll(world, dbRow) /\ start' = "open" /\ UNCHANGED reason
    /\ Kept

\* prepare_internal up to the gateway: nothing has been asked of the plant.
PrepareLocal ==
    /\ start = "open"
    /\ IF ~RequestIsValid(world) THEN Refuse("request")
       ELSE IF world.writePid /\ ~world.yes THEN Refuse("yes")
       ELSE IF ~TuningIsValid(world.tuning, world.driver = "opcda") THEN Refuse("tuning")
       ELSE IF world.driver = "opcda" /\ ~world.server THEN Refuse("server")
       ELSE \/ DatabaseFails
            \/ IF dbRow = None THEN Refuse("template")
               ELSE IF ~LoopConfigIsValid(world) THEN Refuse("loop")
               ELSE IF ~LoopTagsExist(world) THEN Refuse("tags")
               ELSE start' = "gateway" /\ UNCHANGED reason
    /\ UNCHANGED dbRow
    /\ Kept

\* require_live_gateway_compatible, for the OPC DA driver only.
PrepareGateway ==
    /\ start = "gateway"
    /\ \/ world.driver = "opcda" /\ Refuse("transport")
       \/ IF world.driver = "opcda" /\ world.compat = "incompatible"
          THEN Refuse("incompatible")
          ELSE start' = "own" /\ UNCHANGED reason
    /\ UNCHANGED dbRow
    /\ Kept

\* The row of the run and its metadata, for OPC DA the lock of the database
\* and the claim on the loop (LiveOperationGuard::acquire), then the live
\* driver.  Whatever fails refuses the start.
TakeOwnership ==
    /\ start = "own"
    /\ \/ DatabaseFails
       \/ IF world.driver = "opcda" /\ world.taken THEN Refuse("owned")
          ELSE \E built \in DriverBuilds(world) :
                  IF built THEN start' = "initial" /\ UNCHANGED reason
                  ELSE Refuse("transport")
    /\ UNCHANGED dbRow
    /\ Kept

\* The setpoint is not in the batch: it is read alone, its first answer kept.
SetpointReadable(w, d, tags) ==
    (HasTag(tags, "setpoint_variable") /\ InAuto(LastBatch(w), d, tags)) =>
        NumberUsable(w, FirstBatch(w), tags["setpoint_variable"])

\* The batch of read_initial_values is collected into a map: of two answers
\* for a tag the last one stays.
InitialBatchReadable(w, d, tags) ==
    /\ InitialReadable(w, LastBatch(w), d,
                       [tags EXCEPT !["setpoint_variable"] = NoSource])
    /\ SetpointReadable(w, d, tags)

\* execute_with_timing up to the first write: the checks, then what is read
\* recorded in the row and in the owner's restore intent.
ReadInitial ==
    /\ start = "initial"
    /\ LET d == dbRow.def
           tags == BuildLoopTags(world, d)
       IN  \/ DatabaseFails
           \/ world.driver = "opcda" /\ Refuse("transport")
           \/ IF ~InitialBatchReadable(world, d, tags) THEN Refuse("unreadable")
              ELSE IF ~InitialStateIsValid(LastBatch(world), tags) THEN Refuse("range")
              ELSE IF ~RelayStepIsVerifiable(world, LastBatch(world), tags) THEN Refuse("relay")
              ELSE start' = "accepted" /\ UNCHANGED reason
    /\ UNCHANGED dbRow
    /\ Kept

Settled == start \in {"accepted", "refused"} /\ UNCHANGED preflightVars

PreflightInit ==
    /\ world \in Worlds
    /\ stage = "older"
    /\ def = None
    /\ checks = <<>> /\ reads = <<>>
    /\ dbRow = None /\ rowEdits = 0
    /\ start = "none" /\ reason = "none"

PreflightNext ==
    \/ OlderStart \/ EditsDone
    \/ \E d \in Definitions : CreateTemplate(d) \/ UpdateTemplate(d) \/ ImportTemplate(d)
    \/ DeleteTemplate \/ RemoveTemplate
    \/ RequestPreflight \/ CheckLocal \/ GatewayInfo \/ GatewayCompatibility \/ ServerDiscovery
    \/ ConnectReadOnly \/ ReadDerivedTags
    \/ OpenDatabase \/ PrepareLocal \/ PrepareGateway \/ TakeOwnership \/ ReadInitial
    \/ Settled

PreflightSpec == PreflightInit /\ [][PreflightNext]_preflightVars

-----------------------------------------------------------------------------
(* Properties.                                                             *)

ReportPasses == stage = "done" /\ Passes(FALSE)

\* On an unchanged plant, a start that is refused after a passing preflight
\* met a gateway or database call that failed, or one of the three things the
\* preflight does not look at: a write-back without --yes, a loop or database
\* another live operation still owns, and a relay step too small to confirm.
\* Everything else prepare and read_initial_values refuse, in their own order
\* and from their own smaller batch, the report has already called a failure.
NotLookedAt == {"yes", "owned", "relay"}

RefusalWasForetold ==
    (ReportPasses /\ start = "refused") =>
        reason \in {"transport", "database"} \cup NotLookedAt

\* The template the preflight resolved in memory is the one the start reads
\* back from the database after the seeding, whoever owns the row.
SameTemplate ==
    (start = "initial" /\ stage = "done" /\ def # None) => dbRow.def = def
=============================================================================
