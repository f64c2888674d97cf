---------------------------- MODULE UnguardedRun ----------------------------
(***************************************************************************)
(* The runs in which no guard stands before the actuator: the scripted     *)
(* test of Module 5 and the fallback control of Module 7.                  *)
(***************************************************************************)
EXTENDS ScriptedActuation, FallbackActuation

CONSTANT Kinds

ASSUME KindsAssumption == Kinds \subseteq {"script", "fallback"}

VARIABLE kind

unguardedVars == <<kind, faults, plantVars, override, endVars, sensorVars,
                   scriptVars, fallbackVars>>

UnguardedInit ==
  /\ kind \in Kinds
  /\ PlantInit
  /\ native \in IF kind = "script" THEN {BaselineSetpoint} ELSE NativeSetpoints
  /\ ScriptInit
  /\ FallbackInit

UnguardedNext ==
  \/ kind = "script" /\ ScriptNext /\ UNCHANGED <<kind, fallbackVars>>
  \/ kind = "fallback" /\ FallbackNext /\ UNCHANGED <<kind, scriptVars>>
  \/ Exit /\ UNCHANGED <<kind, scriptVars, fallbackVars>>

UnguardedSpec == UnguardedInit /\ [][UnguardedNext]_unguardedVars

-----------------------------------------------------------------------------

\* "External override is not released" (docs/RISK_REGISTER.md): once the
\* controller has been called after the window, an override that stands has left
\* an error on record, also when the call that set it raised and the controller
\* does not know of it (actuator_controller.py, 138-239).
OverrunIsReported ==
  kind = "script" /\ CalledAfterWindow /\ override # None => controller.errors

\* What the script's verdict does not look at: the error file, the checksums, the
\* errors of the actuator's registration, and whether close completed the files.
Overlooked ==
  severe \/ ~inputs \/ controller.registryErrors \/ files # {"closed", "actuator", "sensors"}

\* A run whose script printed PASS is refused by the independent validator only
\* for one of the four things that the script overlooks: its writes were all in
\* the window, it took effect, was reset and recovered, without errors
\* (run_actuator_test.py, 115-123; validate_actuator_test.py, 77-231).
PassIsValidated ==
  kind = "script" /\ ScriptPasses /\ ~Overlooked => ValidatorPasses

\* Whatever the executor has done or left undone in a system timestep, what stands
\* afterwards was asked for by a command that is valid in that period; and when
\* the run is closed nothing stands (fallback_executor.py, 33-94).
UnguardedReleases ==
  kind = "fallback" /\ "api" \notin faults /\ override # None =>
    /\ ~closed
    /\ calls > 0 =>
         \E d \in published :
           /\ d.approved = override
           /\ currentSequence \in Fallback!ValidFrom(d) .. Fallback!ExpiresAfter(d)

=============================================================================
