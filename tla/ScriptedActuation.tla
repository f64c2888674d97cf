-------------------------- MODULE ScriptedActuation --------------------------
(***************************************************************************)
(* The scripted actuator test (Module 5): ActuatorController, which in one *)
(* window of an intervention run sets one approved actuator and resets it  *)
(* after the window, in a control run only watches, and records events;    *)
(* what the script makes of the run; and validate_actuator_test.py, which  *)
(* judges the files that are left.                                         *)
(*                                                                         *)
(* The controller is a record, and its methods are operators from a record *)
(* to the records it may become: an exception leaves a record whose        *)
(* callback_errors are not empty.                                          *)
(***************************************************************************)
EXTENDS EnergyPlusRun, FiniteSets

CONSTANTS
  WindowStart, WindowEnd,        \* the window, in timesteps: [start, end)
  BaselineSetpoint,              \* baseline_setpoint_celsius
  Offset,                        \* offset_celsius
  MinimumApproved, MaximumApproved,
  RecoverySteps                  \* observations that may show the recovery: 8

ASSUME ScriptAssumption ==
  /\ {WindowStart, WindowEnd, BaselineSetpoint, Offset,
      MinimumApproved, MaximumApproved, RecoverySteps} \subseteq Int
  /\ WindowStart < WindowEnd

VARIABLES
  runType,        \* "control" or "intervention"
  controller,     \* ActuatorController
  files,          \* the output files that are complete
  inputs          \* whether model and weather are those of MODEL_MANIFEST

scriptVars == <<runType, controller, files, inputs>>

-----------------------------------------------------------------------------
(* ActuatorPlan.                                                           *)

\* build_plan: the requested setpoint within the absolute limits.
ApprovedSetpoint ==
  LET requested == BaselineSetpoint + Offset
      atLeast == IF requested < MinimumApproved THEN MinimumApproved ELSE requested
  IN  IF atLeast > MaximumApproved THEN MaximumApproved ELSE atLeast

Position(t) ==
  IF t < WindowStart THEN "before" ELSE IF t < WindowEnd THEN "during" ELSE "after"

\* Whether the controller has been called since the window ended.
CalledAfterWindow == timestep > WindowEnd \/ (timestep = WindowEnd /\ calls > 0)

-----------------------------------------------------------------------------
(* ActuatorController.                                                     *)

NewController ==
  [handle |-> "unknown",        \* registry: unknown, None or the approved one
   registryErrors |-> FALSE,    \* registry.api_error_count > 0
   variables |-> "unknown",     \* setpoint_handle and occupancy_handle
   overrideActive |-> FALSE, resetComplete |-> FALSE,
   setCalls |-> 0, resetCalls |-> 0,
   apiErrors |-> FALSE,         \* api_error_activations > 0
   errors |-> FALSE,            \* callback_errors is not empty
   events |-> {}]

Raises(c) == [c EXCEPT !.errors = TRUE]

Event(type, effective) == [type |-> type, timestep |-> timestep, effective |-> effective]

\* _emit is the last thing a callback does.
Emit(c, event) ==
  {[c EXCEPT !.events = @ \cup {event}]} \cup (IF May("event") THEN {Raises(c)} ELSE {})

\* ActuatorRegistry.initialize: decided once, for the whole run.
Registered(c) ==
  IF c.handle # "unknown" THEN {c}
  ELSE {[c EXCEPT !.handle = "approved"]} \cup
       (IF May("discovery")
          THEN {[c EXCEPT !.handle = "none"],
                [c EXCEPT !.handle = "none", !.registryErrors = TRUE],
                [c EXCEPT !.handle = "approved", !.registryErrors = TRUE]}
          ELSE {})

\* The handles of the target variables: once they are stored, -1 or not, they
\* are not asked for again.
Observed(c) ==
  IF c.variables # "unknown" THEN {[c |-> c, ready |-> TRUE]}
  ELSE {[c |-> d, ready |-> ~d.errors] :
          d \in Emit([c EXCEPT !.variables = "found"], Event("HANDLE_ACQUIRED", None))} \cup
       (IF May("variable")
          THEN {[c |-> Raises([c EXCEPT !.variables = "missing"]), ready |-> FALSE]}
          ELSE {})

\* _ensure_handles: what has become of the controller, and whether to go on.
Ensured(c) ==
  UNION {IF d.handle = "none" THEN {[c |-> d, ready |-> FALSE]} ELSE Observed(d) :
           d \in Registered(c)}

\* A variable whose handle is -1 reads as zero.
ReadsOccupied(c) == c.variables = "found" /\ occupied

ReadsEffective(c) == IF c.variables = "found" THEN Effective ELSE 0

\* Outcomes of a callback: the controller, and the override.
Outcomes(records, o) == {[c |-> c, override |-> o] : c \in records}

\* Mutant: the API error flag is not looked at.
FlagIgnored(written) == FALSE /\ written.flag

Flagged(written) == written.flag

\* _api_call: a raised flag is an exception, whatever the call has done; after
\* are the records the controller goes on to be.
ApiCall(c, value, after) ==
  UNION {Outcomes(IF Flagged(w) THEN {Raises([c EXCEPT !.apiErrors = TRUE])} ELSE after,
                  w.override) : w \in Writes(value)}

Applied(c) ==
  Emit([c EXCEPT !.overrideActive = TRUE, !.setCalls = @ + 1],
       Event(IF c.overrideActive THEN "OVERRIDE_REAPPLIED" ELSE "OVERRIDE_APPLIED", None))

ResetDone(c) ==
  Emit([c EXCEPT !.overrideActive = FALSE, !.resetComplete = TRUE, !.resetCalls = @ + 1],
       Event("OVERRIDE_RESET", None))

\* actuation_callback, when the handles are there.  In a zone that has become
\* vacant the override stands until the window ends.
Actuated(c) ==
  CASE Position(timestep) = "during" /\ runType = "intervention" /\ ReadsOccupied(c) ->
         ApiCall(c, ApprovedSetpoint, Applied(c))
    [] Position(timestep) = "during" /\ runType = "intervention" /\ ~ReadsOccupied(c) ->
         Outcomes(Emit(c, Event("WRITE_REJECTED", None)), override)
    [] Position(timestep) = "after" /\ c.overrideActive /\ ~c.resetComplete ->
         ApiCall(c, None, ResetDone(c))
    [] OTHER -> Outcomes({c}, override)

Actuate ==
  /\ SystemTimestep
  /\ \E h \in Ensured(controller) :
       \E o \in (IF h.ready THEN Actuated(h.c) ELSE Outcomes({h.c}, override)) :
         controller' = o.c /\ override' = o.override
  /\ UNCHANGED <<runType, files, inputs>>

\* observation_callback, when the handles are there.
Observation(c) ==
  Emit(c, Event(IF c.resetComplete /\ Position(timestep) = "after"
                  THEN "POST_RESET_VERIFIED" ELSE "CONTROL_RUN_OBSERVATION",
                ReadsEffective(c)))

\* The end of a timestep; this controller does not use the sensors.
Observe ==
  /\ ZoneTimestep({BaselineSetpoint})
  /\ SensorCounts \/ SensorFails
  /\ \E h \in Ensured(controller) :
       controller' \in IF h.ready THEN Observation(h.c) ELSE {h.c}
  /\ UNCHANGED <<runType, files, inputs>>

-----------------------------------------------------------------------------
(* The end of the run.                                                     *)

\* The last reset is not an _api_call: its error flag is not looked at.
ControllerClose ==
  IF controller.overrideActive /\ controller.handle = "approved"
    THEN /\ controller' = [controller EXCEPT !.overrideActive = FALSE, !.resetCalls = @ + 1]
         /\ override' \in {w.override : w \in Writes(None)}
    ELSE UNCHANGED <<controller, override>>

\* CompositeExtension.close: the controller's files, then the sensors'; after
\* an exception the others are not closed.
ScriptClose ==
  /\ files = {}
  /\ ~Running
  /\ ControllerClose
  /\ \/ files' = {"closed", "actuator", "sensors"}
     \/ May("close") /\ files' \in {{"closed"}, {"closed", "actuator"}}
  /\ UNCHANGED <<faults, plantVars, endVars, sensorVars, runType, inputs>>

\* Mutant: the script looks at its own errors only.
ScriptPassesAnyway ==
  /\ files # {}
  /\ exitCode = 0
  /\ snapshots = Steps
  /\ controller.handle = "approved"
  /\ runType = "control" \/ controller.setCalls > 0

\* run_experiment prints PASS, from its objects' counters and the exit code: it
\* opens no file.
ScriptPasses ==
  /\ files # {}
  /\ exitCode = 0
  /\ ~controller.errors /\ ~sensorErrors
  /\ snapshots = Steps
  /\ controller.handle = "approved"
  /\ runType = "control" \/ controller.setCalls > 0

-----------------------------------------------------------------------------
(* validate_actuator_test.py, of one run.                                  *)

\* The source, the baseline or the weather under models/ and weather/ becomes
\* another, before the run or at any time until the validation: load_run_config
\* takes files with the right checksums from where it finds them, and looks at
\* the source not at all.
ExchangeInputs ==
  /\ May("inputs")
  /\ inputs
  /\ inputs' = FALSE
  /\ UNCHANGED <<faults, plantVars, endVars, override, sensorVars, runType, controller, files>>

EventsOf(types) == {e \in controller.events : e.type \in types}

WriteEvents == EventsOf({"OVERRIDE_APPLIED", "OVERRIDE_REAPPLIED"})

Observations(position) ==
  {e \in EventsOf({"CONTROL_RUN_OBSERVATION", "POST_RESET_VERIFIED"}) :
     Position(e.timestep) = position}

\* after[:8], as there is one observation in a timestep.
FirstAfter ==
  {e \in Observations("after") :
     Cardinality({f \in Observations("after") : f.timestep < e.timestep}) < RecoverySteps}

ValidatorPasses ==
  /\ files = {"closed", "actuator", "sensors"}
  /\ exitCode = 0 /\ ~severe
  /\ inputs
  /\ snapshots = Steps
  /\ controller.handle = "approved"
  /\ ~controller.errors /\ ~controller.apiErrors /\ ~controller.registryErrors
  /\ \A e \in WriteEvents : Position(e.timestep) = "during"
  /\ IF runType = "control"
       THEN WriteEvents = {} /\ controller.setCalls = 0
       ELSE /\ WriteEvents # {} /\ controller.setCalls > 0
            /\ EventsOf({"OVERRIDE_RESET"}) # {} /\ controller.resetCalls > 0
            /\ \E e \in Observations("during") : e.effective = ApprovedSetpoint
            /\ \E e \in FirstAfter : e.effective = BaselineSetpoint

-----------------------------------------------------------------------------

ScriptInit ==
  /\ runType \in {"control", "intervention"}
  /\ controller = NewController
  /\ files = {}
  /\ inputs = TRUE

ScriptNext == Actuate \/ Observe \/ ScriptClose \/ ExchangeInputs

=============================================================================
