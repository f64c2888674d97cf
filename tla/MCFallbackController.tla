------------------------ MODULE MCFallbackController ------------------------
(***************************************************************************)
(* FallbackController with two history variables, so that what a zone is   *)
(* promised over time can be stated: how long the conditions that call for *)
(* another setpoint have lasted.                                           *)
(***************************************************************************)
EXTENDS FallbackController

VARIABLES
  hot,        \* consecutive evaluations with occupants above HotThreshold
  protected   \* consecutive evaluations at or above ProtectionThreshold

history == <<hot, protected>>

Streak(count, holds) == IF holds THEN Lesser(count + 1, MinimumHold + 1) ELSE 0

HistoryInit ==
  /\ ControllerInit
  /\ hot = [z \in Zones |-> 0]
  /\ protected = [z \in Zones |-> 0]

Observe(state) ==
  LET known(z) == None \notin {state[z].temperature, state[z].effective}
  IN  /\ hot' = [z \in Zones |->
           Streak(hot[z], known(z) /\ state[z].occupied
                                   /\ state[z].temperature > HotThreshold)]
      /\ protected' = [z \in Zones |->
           Streak(protected[z], known(z) /\ state[z].temperature >= ProtectionThreshold)]

HistoryNext ==
  \E gap \in Gaps, state \in [Zones -> ZoneState] :
    /\ lastSequence + gap <= MaximumSequence
    /\ Evaluate(lastSequence + gap, state)
    /\ Observe(state)

HistorySpec == HistoryInit /\ [][HistoryNext]_<<controllerVars, history>>

-----------------------------------------------------------------------------

\* Relaxation ends within the hold: once a zone has been occupied, or at or above
\* the protection threshold, for more than MinimumHold evaluations, the setpoint
\* is at most the native one, whatever mode the hold carried over.
RelaxationYields ==
  \A z \in Zones :
    memory[z].active /\ (memory[z].occupied > MinimumHold \/ protected[z] > MinimumHold) =>
      memory[z].command <= memory[z].native

\* Recovery acts within the hold: after more than MinimumHold evaluations with
\* occupants above the hot threshold, the zone is commanded to the recovery
\* setpoint or as far towards it as the allowed delta reaches.
RecoveryWithinHold ==
  \A z \in Zones :
    hot[z] > MinimumHold =>
      /\ memory[z].active
      /\ memory[z].command <= Greater(RecoverySetpoint, memory[z].native - MaximumDelta)
=============================================================================
