--------------------------- MODULE SupervisorPolicy -------------------------
(***************************************************************************)
(* What the supervisor knows of objectives, tools and arguments before it  *)
(* runs a session (Module 10): the evidence an objective requires, the     *)
(* tools a model is offered for it, what becomes of the arguments a model  *)
(* writes, and which calls are refused.  A request has the fields of       *)
(* SupervisorRequest; controlText says that its objective_text mentions    *)
(* the control tool.                                                       *)
(***************************************************************************)
EXTENDS ToolHandlers, Sequences

LOCAL INSTANCE Functions

CONSTANTS
  ModelCalls            \* by request id, what a model calls without being offered it

NoZone == ""
NoPlan == ""

-----------------------------------------------------------------------------
(* Objectives.                                                             *)

RequiredEvidence(objective) ==
  CASE objective = "EXPLAIN_MICROTWIN_VALIDATION" ->
         <<"get_microtwin_status", "get_microtwin_validation">>
    [] objective = "COMPARE_MICROTWIN_ROLLOUTS" -> <<"compare_microtwin_rollouts">>
    [] objective = "RECOMMEND_MICROTWIN_RANKED_PLAN" -> <<"rank_plans_with_microtwin">>
    [] objective = "EXPLAIN_COMFORT_LEDGER" ->
         <<"get_comfort_ledger_status", "get_comfort_ledger_entries">>
    [] objective \in {"EXPLAIN_COMFORT_DEBT", "EXPLAIN_RECOVERY_OBLIGATION"} ->
         <<"get_comfort_ledger_status">>
    [] objective \in {"COMPARE_COMFORT_LEDGER_PLANS", "EXPLAIN_COMFORT_EQUITY_SCORE"} ->
         <<"compare_comfort_ledger_evaluations">>
    [] objective = "EXPLAIN_THERMAL_BANK" ->
         <<"get_thermal_bank_status", "evaluate_plan_thermal_bank">>
    [] objective = "COMPARE_THERMAL_BANK_PLANS" -> <<"evaluate_plan_thermal_bank">>
    [] objective = "RECOMMEND_LEDGER_AWARE_PLAN" -> <<"rank_plans_with_ledger">>
    [] objective = "EXPLAIN_LEDGER_LIMITATIONS" ->
         <<"get_comfort_ledger_status", "get_thermal_bank_status">>
    [] objective = "EXPLAIN_EXECUTION_APPROVAL" -> <<"get_execution_approval_status">>
    [] objective = "EXPLAIN_EXECUTION_STATUS" -> <<"get_plan_execution_status">>
    [] objective \in {"EXPLAIN_EXECUTION_FALLBACK", "EXPLAIN_EXECUTION_AUDIT"} ->
         <<"get_plan_execution_audit">>
    [] objective = "COMPARE_SHORT_EXECUTION_RUNS" -> <<"compare_execution_runs">>
    [] objective = "EXPLAIN_SIMULATION_RECONCILIATION" ->
         <<"compare_execution_runs", "get_microtwin_rollout">>
    [] OTHER -> <<>>

\* ToolPolicy.allowed_names.
AllowedNames == {tool \in Tools : Enabled(tool) /\ tool \notin ControlCapable}

\* The tools that _catalogue offers where they are not the required ones.
OfferedTools(r) ==
  AllowedNames \cap
  CASE r.controlText -> {}
    [] ~r.controlText /\ r.objective = "DESCRIBE_CURRENT_STATE" -> {"get_building_state"}
    [] ~r.controlText /\ r.objective = "EXPLAIN_SAFETY_STATUS" -> {"get_safety_guard_status"}
    [] ~r.controlText /\ r.objective = "ASSESS_CONTROL_PROPOSAL_DRY_RUN" ->
         {"validate_control_proposal"}
    [] ~r.controlText /\ r.objective = "EXPLAIN_FORECAST_CONTEXT" -> {"get_forecast_context"}
    [] ~r.controlText /\ r.objective = "GENERATE_CANDIDATE_PLANS" ->
         {"generate_candidate_plans"}
    [] ~r.controlText /\ r.objective = "COMPARE_CANDIDATE_PLANS" ->
         {"compare_candidate_plans"}
    [] ~r.controlText /\ r.objective = "RECOMMEND_ADVISORY_PLAN" -> {"select_advisory_plan"}
    [] ~r.controlText /\ r.objective = "EXPLAIN_MICROTWIN_STATUS" -> {"get_microtwin_status"}
    [] ~r.controlText /\ r.objective = "EVALUATE_PLAN_WITH_MICROTWIN" ->
         {"evaluate_plan_with_microtwin"}
    [] ~r.controlText /\ r.objective \in {"EXPLAIN_RANKING_DIFFERENCE",
                                          "EXPLAIN_MICROTWIN_UNCERTAINTY"} ->
         {"compare_microtwin_rollouts"}
    [] ~r.controlText /\ r.objective = "EXPLAIN_THERMAL_BANK" -> {"get_thermal_bank_status"}
    [] OTHER -> LET required == RequiredEvidence(r.objective)
                IN  IF required = <<>> THEN AllowedNames
                    ELSE {required[i] : i \in 1 .. Len(required)}

Zone(r) == IF r.zone = NoZone THEN "SPACE3-1" ELSE r.zone

PlanningArguments(r) ==
  [run_id |-> r.run, environment_id |-> r.environment, source_state_id |-> r.state,
   zone |-> Zone(r), horizon |-> 12]

SelectionArguments(r, plan) ==
  [run_id |-> r.run, environment_id |-> r.environment, source_state_id |-> r.state,
   zone |-> Zone(r), horizon |-> 12, plan_id |-> plan]

\* trusted_control_arguments; the value is the request's own.
TrustedControlArguments(r) ==
  [run_id |-> r.run, environment_id |-> r.environment,
   source_state_sequence |-> r.state, current_sequence |-> r.state + 1,
   decision_sequence |-> r.state, valid_from_sequence |-> r.state + 1,
   expires_after_sequence |-> r.state + 2,
   component_type |-> "Zone Temperature Control", control_type |-> "Cooling Setpoint",
   actuator_key |-> Zone(r), zone |-> Zone(r), units |-> "C",
   requested_value |-> r.proposal, client_request_id |-> r.id, rationale |-> "trusted"]

\* What a model that keeps to the schema of an offered tool calls it with.
OfferedArguments(tool, r) ==
  CASE tool \in {"evaluate_plan_thermal_bank", "evaluate_plan_with_microtwin"} ->
         {[plan_id |-> plan] : plan \in Range(r.candidates)}
    [] tool = "select_advisory_plan" -> {SelectionArguments(r, plan) : plan \in Range(r.candidates)}
    [] tool \in {"get_forecast_context", "generate_candidate_plans",
                 "compare_candidate_plans"} -> {PlanningArguments(r)}
    [] tool = "get_building_state" -> {[run_id |-> r.run, state_id |-> r.state]}
    [] OTHER -> {NoArguments}

ModelCall(tool, arguments) == [tool |-> tool, arguments |-> arguments]

CallsOf(r) ==
  ModelCalls[r.id] \cup UNION {{ModelCall(tool, a) : a \in OfferedArguments(tool, r)} :
                           tool \in OfferedTools(r)}

\* The call is of a plan that the request does not offer, or the request has
\* not what the trusted arguments need: _canonicalise raises, and so does run.
CanonicaliseRaises(r, call) ==
  \/ /\ call.tool \in {"evaluate_plan_with_microtwin", "select_advisory_plan"}
     /\ r.selected \notin Range(r.candidates)
  \/ /\ call.tool = "validate_control_proposal"
     /\ r.objective = "ASSESS_CONTROL_PROPOSAL_DRY_RUN"
     /\ r.state = NoState

\* Fields the request fixes are the request's, whatever the model wrote.
Canonicalise(r, call) ==
  ModelCall(call.tool,
    CASE call.tool = "get_building_state" -> [run_id |-> r.run, state_id |-> r.state]
      [] call.tool \in {"get_safety_guard_status", "get_microtwin_status",
                        "get_microtwin_validation", "compare_microtwin_rollouts",
                        "rank_plans_with_microtwin"} -> NoArguments
      [] call.tool = "evaluate_plan_with_microtwin" -> [plan_id |-> r.selected]
      [] call.tool \in {"get_forecast_context", "generate_candidate_plans",
                        "compare_candidate_plans"} -> PlanningArguments(r)
      [] call.tool = "select_advisory_plan" -> SelectionArguments(r, r.selected)
      [] call.tool = "validate_control_proposal"
         /\ r.objective = "ASSESS_CONTROL_PROPOSAL_DRY_RUN" -> TrustedControlArguments(r)
      [] OTHER -> call.arguments)

ForbiddenFields ==
  {"enable_control", "admin", "bypass_guard", "approved", "emergency", "system_override"}

\* ToolPolicy.validate.
PolicyAccepts(call) ==
  /\ call.tool \in AllowedNames
  /\ DOMAIN call.arguments \cap ForbiddenFields = {}

\* The plan that a prefetch asks about: the selected one, or the first candidate.
PrefetchPlans(r) ==
  IF r.selected # NoPlan THEN {r.selected}
  ELSE {r.candidates[i] : i \in {1} \cap DOMAIN r.candidates}

PlanTools == {"evaluate_plan_thermal_bank", "evaluate_plan_comfort_ledger"}

PrefetchArguments(tool, r) ==
  IF tool \in PlanTools
    THEN [plan_id |-> CHOOSE plan \in PrefetchPlans(r) : TRUE]
    ELSE NoArguments

\* _execute_required_prefetch raises before it calls the tool.
PrefetchRaises(tool, r) ==
  \/ tool \notin AllowedNames
  \/ tool \in PlanTools /\ PrefetchPlans(r) = {}

=============================================================================
