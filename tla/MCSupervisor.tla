--------------------------- MODULE MCSupervisor ---------------------------
(***************************************************************************)
(* Two supervisors and one direct caller over shared databases.  Session   *)
(* "explain" has two required tools, one of them of no use until the state *)
(* database is recorded; "select" and "other" are one request id with      *)
(* different plans.                                                        *)
(***************************************************************************)
EXTENDS Supervisor, TLC

CONSTANTS s1, s2, c1

SupervisorRequest(id, objective, candidates, selected) ==
  [id |-> id, objective |-> objective, controlText |-> FALSE, run |-> "live",
   environment |-> "weather-3", state |-> 1, zone |-> "", proposal |-> 24,
   candidates |-> candidates, selected |-> selected]

MCSupervisorRequests ==
  [explain |-> SupervisorRequest("r1", "EXPLAIN_THERMAL_BANK", <<"p1">>, ""),
   select  |-> SupervisorRequest("r2", "RECOMMEND_ADVISORY_PLAN", <<"p1", "p2">>, "p1"),
   other   |-> SupervisorRequest("r2", "RECOMMEND_ADVISORY_PLAN", <<"p1", "p2">>, "p2")]

MCModelCalls ==
  [r1 |-> {ModelCall("evaluate_plan_thermal_bank", [plan_id |-> "p1"]),
           ModelCall("propose_guarded_control", NoArguments)},
   r2 |-> {}]

ClientId == [session |-> "client", kind |-> "client", iteration |-> 0, n |-> 0]

MCClientRequests ==
  {ToolRequest(ClientId, "get_everything", NoArguments, 1),
   ToolRequest(ClientId, "get_safety_guard_status", NoArguments, 1),
   ToolRequest(ClientId, "get_safety_guard_status", NoArguments, 2)}

MCArtifacts == {<<"state", "live">>}
MCRecorded  == {<<"model", Shared>>, <<"qualified", Shared>>}

MCGiven == s1 :> {"explain", "select"} @@ s2 :> {"select", "other"}

=============================================================================
