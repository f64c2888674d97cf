-------------------------- MODULE MCPlanExecution --------------------------
(***************************************************************************)
(* Approved plans of a few contexts, executed by the three runners in      *)
(* sessions that meet no faults, every fault, or every fault but a failing *)
(* or refused reset.                                                       *)
(***************************************************************************)
EXTENDS PlanExecution

Situation(setpoint, peak, futureOccupied, occupied, hot) ==
  [setpoint |-> setpoint, peak |-> peak, futureOccupied |-> futureOccupied,
   occupied |-> occupied, hot |-> hot]

\* The canonical context, a vacancy, and setpoints at and beyond the bounds.
MCCanonical == Situation(3000, TRUE, TRUE, FALSE, TRUE)

MCContexts == {MCCanonical,
               Situation(None, FALSE, TRUE, TRUE, TRUE),
               Situation(2260, TRUE, TRUE, TRUE, TRUE),
               Situation(3020, FALSE, TRUE, FALSE, FALSE)}

MCNoFaults == {{}}

MCFaultSets == {{}, FaultKinds, FaultKinds \ {"reset", "unfit"}}
=============================================================================
