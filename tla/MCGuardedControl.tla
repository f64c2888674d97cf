--------------------------- MODULE MCGuardedControl ---------------------------
(***************************************************************************)
(* Fairness for GuardedControl, for the properties that need it.           *)
(***************************************************************************)
EXTENDS GuardedControl

\* EnergyPlus keeps calling back until the run ends: the system callback runs
\* in every timestep, and sensors that fail do not fail for good.
FairSpec ==
  /\ ControlSpec
  /\ WF_controlVars(SystemTimestep)
  /\ SF_controlVars(RepeatedSequence \/ PublishSnapshot)

\* Every timestep's snapshot is decided on in the end, unless the run is closed
\* first: no reading that fails makes the collector's and the normaliser's
\* counts disagree.
SnapshotsDecided == <>(snapshots = MaximumSequence \/ closed)

\* A decision to reset the zone gives the actuator back, unless the run is
\* closed first.
ResetsReachActuator ==
  (Settled /\ decision[RealZone].action = "RESET") ~> (override = None \/ closed)

=============================================================================
