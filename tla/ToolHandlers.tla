---------------------------- MODULE ToolHandlers ----------------------------
(***************************************************************************)
(* What the tools of MCPToolService answer (Modules 9 to 14).  A call's    *)
(* arguments are a record of the fields that were supplied.  The disk is   *)
(* the set of recorded artifacts, pairs of a kind and a run (or Shared):   *)
(*   summary, state, decisions, safety   of a run: its summary, its state  *)
(*            database, the controller's tables in it, its guard database; *)
(*   model, qualified   the micro-twin's files, and its qualification;     *)
(*   bank, execution    tables of microtwin.db that others create.         *)
(* An answer is the code of the envelope, "ok" for a success: which data   *)
(* it carries is fixed by the call and the artifacts.  What build_context  *)
(* makes of a state is its planning context; its candidate plans are the   *)
(* same few ids for each context.                                          *)
(***************************************************************************)
EXTENDS Integers

CONSTANTS
  Runs,                            \* settings.runs
  RecordedStates,                  \* sequences in every state database
  StateEnvironment,                \* the environment of these states
  Zones, PlanningZones,            \* of a state, and settings.allowed_zones
  Horizons, DefaultHorizon,        \* minimum_horizon .. maximum_horizon
  DefaultRun, DefaultState,        \* of _planning
  DefaultRows, MaximumRows,        \* limits.default_rows, maximum_rows
  CandidateIds, EligibleIds,       \* the plans of a context, and the eligible ones
  BestId,                          \* the plan select_deterministic takes
  RankedIds,                       \* eligible plans with a rollout fit for ranking
  LedgerIds,                       \* plans the comfort ledger finds eligible
  LedgerAccepts,                   \* whether evaluate_candidates raises nothing
  ControlEnabled                   \* mcp.control_tools_enabled

ASSUME HandlersAssumption ==
  /\ LedgerIds \cup RankedIds \subseteq EligibleIds
  /\ EligibleIds \subseteq CandidateIds
  /\ BestId \in EligibleIds
  /\ {DefaultRows, MaximumRows} \subseteq Nat \ {0}
  /\ LedgerAccepts \in BOOLEAN /\ ControlEnabled \in BOOLEAN

Shared == "shared"
NoState == 0           \* a state_id of None: a real one is positive

-----------------------------------------------------------------------------
(* The registry.                                                           *)

ProposalOnly ==
  {"validate_control_proposal", "generate_candidate_plans", "select_advisory_plan",
   "evaluate_plan_with_microtwin", "rank_plans_with_microtwin",
   "evaluate_plan_comfort_ledger", "evaluate_plan_thermal_bank",
   "rank_plans_with_ledger", "select_ledger_advisory_plan"}

ControlCapable == {"propose_guarded_control"}

ReadOnly ==
  {"list_available_runs", "get_run_metadata", "get_building_state", "get_zone_state",
   "get_recent_state_history", "get_controller_status", "get_controller_decisions",
   "get_safety_guard_status", "get_safety_decisions", "get_physical_write_audit",
   "inspect_energyplus_errors", "get_energyplus_execution_status",
   "list_available_actuators", "get_run_energy_summary", "compare_runs",
   "get_comfort_evidence", "get_forecast_context", "evaluate_candidate_plan",
   "compare_candidate_plans", "get_planning_session", "get_microtwin_status",
   "get_microtwin_validation", "compare_microtwin_rollouts", "get_microtwin_rollout",
   "get_comfort_ledger_status", "get_comfort_ledger_entries",
   "compare_comfort_ledger_evaluations", "get_thermal_bank_status",
   "get_thermal_bank_transactions", "get_ledger_ranking",
   "get_execution_approval_status", "get_plan_execution_status",
   "get_plan_execution_audit", "compare_execution_runs"}

Tools == ReadOnly \cup ProposalOnly \cup ControlCapable

Enabled(tool) == tool \in Tools /\ (tool \notin ControlCapable \/ ControlEnabled)

-----------------------------------------------------------------------------
(* Arguments.                                                              *)

\* arguments.get(field, default).
Get(a, field, default) == IF field \in DOMAIN a THEN a[field] ELSE default

\* KeyError, ValueError, ValidationError and sqlite3.Error are "invalid_request",
\* any other exception (a missing file, an empty ranking) is "handler_error".
Answer(valid, found) ==
  CASE ~valid -> "invalid_request"
    [] valid /\ ~found -> "handler_error"
    [] OTHER -> "ok"

RunKnown(a, field) == field \in DOMAIN a /\ a[field] \in Runs

LimitOK(a) == Get(a, "limit", DefaultRows) \in 1 .. MaximumRows

\* A cursor is the name of the tool it was issued by.
CursorOK(a, tool) == Get(a, "cursor", tool) = tool

StateDatabase(a, d) == RunKnown(a, "run_id") /\ <<"state", a["run_id"]>> \in d

SafetyDatabase(a, d) == RunKnown(a, "run_id") /\ <<"safety", a["run_id"]>> \in d

-----------------------------------------------------------------------------
(* Recorded runs.                                                          *)

ListAvailableRuns(a) == Answer(LimitOK(a) /\ CursorOK(a, "list_available_runs"), TRUE)

GetRunMetadata(a) == Answer(RunKnown(a, "run_id"), TRUE)

StateFound(a, d) ==
  /\ StateDatabase(a, d)
  /\ \/ Get(a, "state_id", NoState) = NoState /\ RecordedStates # {}
     \/ Get(a, "state_id", NoState) \in RecordedStates

GetBuildingState(a, d) == Answer(StateFound(a, d), TRUE)

GetZoneState(a, d) ==
  Answer("zone" \in DOMAIN a /\ StateFound(a, d) /\ a["zone"] \in Zones, TRUE)

GetRecentStateHistory(a, d) == Answer(LimitOK(a) /\ StateDatabase(a, d), TRUE)

GetControllerStatus == Answer(TRUE, TRUE)

GetControllerDecisions(a, d) ==
  Answer(LimitOK(a) /\ StateDatabase(a, d) /\ <<"decisions", a["run_id"]>> \in d, TRUE)

GetSafetyGuardStatus == Answer(TRUE, TRUE)

GetSafetyDecisions(a, d) == Answer(LimitOK(a) /\ SafetyDatabase(a, d), TRUE)

GetPhysicalWriteAudit(a, d) == Answer(LimitOK(a) /\ SafetyDatabase(a, d), TRUE)

InspectEnergyPlusErrors(a) == Answer(RunKnown(a, "run_id"), TRUE)

GetEnergyPlusExecutionStatus(a, d) ==
  Answer(RunKnown(a, "run_id"), <<"summary", Get(a, "run_id", Shared)>> \in d)

ListAvailableActuators(a) == Answer(LimitOK(a), TRUE)

GetRunEnergySummary(a, d) == Answer(StateDatabase(a, d), TRUE)

\* All annual state databases hold equally many states.
CompareRuns(a, d) ==
  Answer(\A field \in {"reference_run_id", "experimental_run_id"} :
           RunKnown(a, field) /\ <<"state", a[field]>> \in d, TRUE)

GetComfortEvidence(a, d) == Answer(StateDatabase(a, d), TRUE)

-----------------------------------------------------------------------------
(* Dry runs and planning.                                                  *)

ProposalFields ==
  {"run_id", "environment_id", "source_state_sequence", "current_sequence",
   "component_type", "control_type", "actuator_key", "zone", "units",
   "requested_value", "client_request_id"}
OptionalProposalFields ==
  {"decision_sequence", "valid_from_sequence", "expires_after_sequence", "rationale"}

\* The guard answers any well-formed proposal, and no writer is there.
ValidateControlProposal(a) ==
  Answer(/\ ProposalFields \subseteq DOMAIN a
         /\ DOMAIN a \subseteq ProposalFields \cup OptionalProposalFields
         /\ a["source_state_sequence"] > 0 /\ a["current_sequence"] > 0, TRUE)

\* Disabled, not in guarded_control mode, or without a live run.
ProposeGuardedControl == Answer(FALSE, TRUE)

\* The context that _planning builds, by what context_id is a hash of.
PlanningContext(a) ==
  [run     |-> Get(a, "run_id", DefaultRun),
   state   |-> Get(a, "source_state_id", DefaultState),
   zone    |-> Get(a, "zone", "SPACE3-1"),
   horizon |-> Get(a, "horizon", DefaultHorizon)]

\* build_context finds what it needs.
ContextBuilt(a, d) ==
  LET c == PlanningContext(a)
  IN  /\ c.run \in Runs /\ <<"state", c.run>> \in d
      /\ c.horizon \in Horizons
      /\ c.zone \in PlanningZones
      /\ c.state \in RecordedStates
      /\ Get(a, "environment_id", "weather-3") = StateEnvironment

GetForecastContext(a, d) == Answer(ContextBuilt(a, d), TRUE)

GenerateCandidatePlans(a, d) == Answer(ContextBuilt(a, d), TRUE)

PlanIn(a, ids) == "plan_id" \in DOMAIN a /\ a["plan_id"] \in ids

EvaluateCandidatePlan(a, d) == Answer(ContextBuilt(a, d) /\ PlanIn(a, CandidateIds), TRUE)

CompareCandidatePlans(a, d) == Answer(ContextBuilt(a, d), TRUE)

\* sessions: what planning_sessions holds, by context and selected plan.
GetPlanningSession(a, d, sessions) ==
  Answer(ContextBuilt(a, d) /\ "session_id" \in DOMAIN a /\ a["session_id"] \in sessions, TRUE)

SelectAdvisoryPlan(a, d) == Answer(ContextBuilt(a, d) /\ PlanIn(a, EligibleIds), TRUE)

-----------------------------------------------------------------------------
(* Micro-twin, comfort ledger and thermal bank.                            *)

NoArguments == [field \in {} |-> Shared]

\* The context of _microtwin, whatever was asked for, and its rollouts: a
\* model that is not qualified is a ValueError, a missing file is not.
RolloutsMade(d) ==
  /\ ContextBuilt(NoArguments, d)
  /\ <<"model", Shared>> \in d => <<"qualified", Shared>> \in d

ModelFound(d) == <<"model", Shared>> \in d

GetMicrotwinStatus(d) == Answer(RolloutsMade(d), ModelFound(d))

GetMicrotwinValidation(d) == Answer(RolloutsMade(d), ModelFound(d))

EvaluatePlanWithMicrotwin(a, d) ==
  Answer(RolloutsMade(d) /\ (ModelFound(d) => PlanIn(a, EligibleIds)), ModelFound(d))

CompareMicrotwinRollouts(d) == Answer(RolloutsMade(d), ModelFound(d))

\* A rollout is known by its plan: its id is a hash of model, plan and context.
GetMicrotwinRollout(a, d) ==
  Answer(/\ RolloutsMade(d)
         /\ ModelFound(d) => "rollout_id" \in DOMAIN a /\ a["rollout_id"] \in EligibleIds,
         ModelFound(d))

RankPlansWithMicrotwin(d) == Answer(RolloutsMade(d), ModelFound(d) /\ RankedIds # {})

\* evaluate_candidates and rank_evaluations.
LedgerMade(d) == RolloutsMade(d) /\ (ModelFound(d) => LedgerAccepts /\ LedgerIds # {})

GetComfortLedgerStatus(d) == Answer(LedgerMade(d), ModelFound(d))

GetComfortLedgerEntries(a, d) ==
  Answer(/\ LedgerMade(d)
         /\ ModelFound(d) => LimitOK(a) /\ CursorOK(a, "get_comfort_ledger_entries"),
         ModelFound(d))

Authoritative == {"closing_debt", "bank_balance", "equity_score", "ledger_aware_score"}

LedgerEvaluation(a, d) ==
  Answer(/\ LedgerMade(d)
         /\ ModelFound(d) => PlanIn(a, EligibleIds) /\ Authoritative \cap DOMAIN a = {},
         ModelFound(d))

EvaluatePlanComfortLedger(a, d) == LedgerEvaluation(a, d)

CompareComfortLedgerEvaluations(d) == Answer(LedgerMade(d), ModelFound(d))

GetThermalBankStatus == Answer(TRUE, TRUE)

GetThermalBankTransactions(a, d) == Answer(LimitOK(a) /\ <<"bank", Shared>> \in d, TRUE)

EvaluatePlanThermalBank(a, d) == LedgerEvaluation(a, d)

RankPlansWithLedger(d) == Answer(LedgerMade(d), ModelFound(d))

GetLedgerRanking(d) == Answer(LedgerMade(d), ModelFound(d))

\* It records nothing.
SelectLedgerAdvisoryPlan(a, d) ==
  Answer(LedgerMade(d) /\ (ModelFound(d) => PlanIn(a, LedgerIds)), ModelFound(d))

-----------------------------------------------------------------------------
(* Execution evidence: the latest row, or none.                            *)

ExecutionTables(d) == <<"execution", Shared>> \in d

GetExecutionApprovalStatus(d) == Answer(ExecutionTables(d), TRUE)

GetPlanExecutionStatus(d) == Answer(ExecutionTables(d), TRUE)

GetPlanExecutionAudit(a, d) == Answer(LimitOK(a) /\ ExecutionTables(d), TRUE)

CompareExecutionRuns(d) == Answer(ExecutionTables(d), TRUE)

-----------------------------------------------------------------------------

\* The handler of a registered tool.
Handled(tool, a, d, sessions) ==
  CASE tool = "list_available_runs" -> ListAvailableRuns(a)
    [] tool = "get_run_metadata" -> GetRunMetadata(a)
    [] tool = "get_building_state" -> GetBuildingState(a, d)
    [] tool = "get_zone_state" -> GetZoneState(a, d)
    [] tool = "get_recent_state_history" -> GetRecentStateHistory(a, d)
    [] tool = "get_controller_status" -> GetControllerStatus
    [] tool = "get_controller_decisions" -> GetControllerDecisions(a, d)
    [] tool = "get_safety_guard_status" -> GetSafetyGuardStatus
    [] tool = "get_safety_decisions" -> GetSafetyDecisions(a, d)
    [] tool = "get_physical_write_audit" -> GetPhysicalWriteAudit(a, d)
    [] tool = "inspect_energyplus_errors" -> InspectEnergyPlusErrors(a)
    [] tool = "get_energyplus_execution_status" -> GetEnergyPlusExecutionStatus(a, d)
    [] tool = "list_available_actuators" -> ListAvailableActuators(a)
    [] tool = "get_run_energy_summary" -> GetRunEnergySummary(a, d)
    [] tool = "compare_runs" -> CompareRuns(a, d)
    [] tool = "get_comfort_evidence" -> GetComfortEvidence(a, d)
    [] tool = "validate_control_proposal" -> ValidateControlProposal(a)
    [] tool = "propose_guarded_control" -> ProposeGuardedControl
    [] tool = "get_forecast_context" -> GetForecastContext(a, d)
    [] tool = "generate_candidate_plans" -> GenerateCandidatePlans(a, d)
    [] tool = "evaluate_candidate_plan" -> EvaluateCandidatePlan(a, d)
    [] tool = "compare_candidate_plans" -> CompareCandidatePlans(a, d)
    [] tool = "get_planning_session" -> GetPlanningSession(a, d, sessions)
    [] tool = "select_advisory_plan" -> SelectAdvisoryPlan(a, d)
    [] tool = "get_microtwin_status" -> GetMicrotwinStatus(d)
    [] tool = "get_microtwin_validation" -> GetMicrotwinValidation(d)
    [] tool = "evaluate_plan_with_microtwin" -> EvaluatePlanWithMicrotwin(a, d)
    [] tool = "compare_microtwin_rollouts" -> CompareMicrotwinRollouts(d)
    [] tool = "get_microtwin_rollout" -> GetMicrotwinRollout(a, d)
    [] tool = "rank_plans_with_microtwin" -> RankPlansWithMicrotwin(d)
    [] tool = "get_comfort_ledger_status" -> GetComfortLedgerStatus(d)
    [] tool = "get_comfort_ledger_entries" -> GetComfortLedgerEntries(a, d)
    [] tool = "evaluate_plan_comfort_ledger" -> EvaluatePlanComfortLedger(a, d)
    [] tool = "compare_comfort_ledger_evaluations" -> CompareComfortLedgerEvaluations(d)
    [] tool = "get_thermal_bank_status" -> GetThermalBankStatus
    [] tool = "get_thermal_bank_transactions" -> GetThermalBankTransactions(a, d)
    [] tool = "evaluate_plan_thermal_bank" -> EvaluatePlanThermalBank(a, d)
    [] tool = "rank_plans_with_ledger" -> RankPlansWithLedger(d)
    [] tool = "get_ledger_ranking" -> GetLedgerRanking(d)
    [] tool = "select_ledger_advisory_plan" -> SelectLedgerAdvisoryPlan(a, d)
    [] tool = "get_execution_approval_status" -> GetExecutionApprovalStatus(d)
    [] tool = "get_plan_execution_status" -> GetPlanExecutionStatus(d)
    [] tool = "get_plan_execution_audit" -> GetPlanExecutionAudit(a, d)
    [] tool = "compare_execution_runs" -> CompareExecutionRuns(d)

\* The tools whose handlers begin with _planning, and those that plan the
\* default context.
PlansRequested ==
  {"get_forecast_context", "generate_candidate_plans", "evaluate_candidate_plan",
   "compare_candidate_plans", "get_planning_session", "select_advisory_plan"}

PlansDefault ==
  {"get_microtwin_status", "get_microtwin_validation", "evaluate_plan_with_microtwin",
   "compare_microtwin_rollouts", "get_microtwin_rollout", "rank_plans_with_microtwin",
   "get_comfort_ledger_status", "get_comfort_ledger_entries",
   "evaluate_plan_comfort_ledger", "compare_comfort_ledger_evaluations",
   "evaluate_plan_thermal_bank", "rank_plans_with_ledger", "get_ledger_ranking",
   "select_ledger_advisory_plan"}

\* The context a call stores with its plans, also when it fails afterwards.
Persisted(tool, a, d) ==
  LET planned == IF tool \in PlansDefault THEN NoArguments ELSE a
  IN  IF tool \in PlansRequested \cup PlansDefault /\ ContextBuilt(planned, d)
        THEN {PlanningContext(planned)}
        ELSE {}

=============================================================================
