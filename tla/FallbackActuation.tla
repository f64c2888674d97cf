-------------------------- MODULE FallbackActuation --------------------------
(***************************************************************************)
(* Fallback control without the safety guard (Module 7, live_control): the *)
(* snapshot hook lets the fallback controller decide and puts its command  *)
(* in the LatestCommandBuffer, and FallbackExecutor, in the callback after *)
(* the predictor, sets the actuator to what the buffer holds, or resets it *)
(* when the buffer holds nothing that is valid.                            *)
(***************************************************************************)
EXTENDS EnergyPlusRun

CONSTANTS
  MinimumSetpoint, MaximumSetpoint, MaximumDelta, HotThreshold, RecoverySetpoint,
  Hysteresis, RelaxedOffset, MaximumRelaxed, ProtectionThreshold, MinimumHold,
  OccupancyGrace, MaximumSequenceGap, CommandTtl,      \* as in FallbackController
  Temperatures

ASSUME FallbackAssumption ==
  /\ {MinimumSetpoint, MaximumSetpoint, HotThreshold, RecoverySetpoint, MaximumRelaxed,
      ProtectionThreshold} \cup Temperatures \subseteq Int
  /\ {MaximumDelta, Hysteresis, RelaxedOffset, MinimumHold, OccupancyGrace,
      MaximumSequenceGap, CommandTtl} \subseteq Nat

VARIABLES
  lastSequence, memory, decision,     \* the fallback controller
  normalised,                         \* StateNormalizer._last_sequence
  published,                          \* the decisions of the commands published
  latest,                             \* LatestCommandBuffer._latest
  currentSequence, active, handle,    \* FallbackExecutor
  closed

fallbackVars == <<lastSequence, memory, decision, normalised, published, latest,
                  currentSequence, active, handle, closed>>

RealZone == "SPACE3-1"

Fallback == INSTANCE FallbackController WITH
  Zones <- {RealZone}, ApprovedZones <- {RealZone}, Gaps <- {1},
  Setpoints <- NativeSetpoints, MaximumSequence <- Steps

-----------------------------------------------------------------------------
(* LatestCommandBuffer.                                                    *)

\* publish raises for an id that is known, or a sequence that decreases.
PublishRaises(d) == \E c \in published : c = d \/ d.sequence < c.sequence

Expired(d, sequence) == sequence > Fallback!ExpiresAfter(d)

\* latest: what the buffer keeps, and what it returns.
Kept(sequence) == IF latest # None /\ Expired(latest, sequence) THEN None ELSE latest

Fetched(sequence) ==
  IF Kept(sequence) = None \/ sequence < Fallback!ValidFrom(latest) THEN None ELSE latest

-----------------------------------------------------------------------------
(* FallbackExecutor.                                                       *)

\* Mutant: a reset is noted and not made.
ExecuteForgetting(command) ==
  IF command = None \/ command.action = "RESET"
    THEN active' = FALSE /\ UNCHANGED override
    ELSE override' \in {w.override : w \in Writes(command.approved)} /\ active' = TRUE

\* Without a valid command the actuator is reset, as it is when the command asks
\* for it.  The flag of the API is not looked at.
Execute(command) ==
  IF command = None \/ command.action = "RESET"
    THEN /\ override' \in IF active THEN {w.override : w \in Writes(None)} ELSE {override}
         /\ active' = FALSE
    ELSE override' \in {w.override : w \in Writes(command.approved)} /\ active' = TRUE

Control ==
  /\ SystemTimestep
  /\ \/ /\ handle' = TRUE
        /\ latest' = Kept(currentSequence)
        /\ Execute(Fetched(currentSequence))
     \/ /\ May("handle") /\ ~handle
        /\ UNCHANGED <<handle, latest, override, active>>
  /\ UNCHANGED <<lastSequence, memory, decision, normalised, published,
                 currentSequence, closed>>

\* close: the last reset, and no command after it.
FallbackClose ==
  /\ ~closed
  /\ ~Running
  /\ IF active /\ handle
       THEN /\ override' \in {w.override : w \in Writes(None)}
            /\ active' = FALSE
       ELSE UNCHANGED <<override, active>>
  /\ latest' = None
  /\ closed' = TRUE
  /\ UNCHANGED <<faults, plantVars, endVars, sensorVars, lastSequence, memory, decision,
                 normalised, published, currentSequence, handle>>

-----------------------------------------------------------------------------
(* The end of a zone timestep: the collector's callback and publish_snapshot. *)

Reading ==
  [occupied    : {occupied},
   temperature : Temperatures,
   effective   : {Effective} \cup (IF May("effective") THEN {None} ELSE {})]

\* No snapshot could be built; or the normaliser has seen its sequence.
NoSnapshot ==
  /\ ZoneTimestep(NativeSetpoints)
  /\ \/ SensorFails
     \/ snapshots + 1 <= normalised /\ sensorErrors' = TRUE /\ UNCHANGED snapshots
  /\ UNCHANGED fallbackVars

Decided(sequence) ==
  /\ sequence > normalised
  /\ normalised' = sequence
  /\ \E reading \in Reading : Fallback!Evaluate(sequence, [z \in {RealZone} |-> reading])

\* The decision cannot be queued, or its command is refused: the hook raises
\* with the controller's memory advanced.
HookRaises ==
  /\ ZoneTimestep(NativeSetpoints)
  /\ Decided(snapshots + 1)
  /\ \/ May("enqueue")
     \/ Fallback!HasCommand(decision'[RealZone]) /\ PublishRaises(decision'[RealZone])
  /\ sensorErrors' = TRUE
  /\ UNCHANGED <<snapshots, published, latest, currentSequence, active, handle, closed>>

Publish ==
  /\ ZoneTimestep(NativeSetpoints)
  /\ Decided(snapshots + 1)
  /\ LET d == decision'[RealZone]
     IN  IF Fallback!HasCommand(d)
           THEN ~PublishRaises(d) /\ latest' = d /\ published' = published \cup {d}
           ELSE UNCHANGED <<latest, published>>
  /\ currentSequence' = normalised' + 1
  /\ SensorCounts
  /\ UNCHANGED <<active, handle, closed>>

-----------------------------------------------------------------------------

FallbackInit ==
  /\ Fallback!ControllerInit
  /\ normalised = 0
  /\ published = {}
  /\ latest = None
  /\ currentSequence = 0
  /\ active = FALSE
  /\ handle = FALSE
  /\ closed = FALSE

FallbackNext == Control \/ NoSnapshot \/ HookRaises \/ Publish \/ FallbackClose

=============================================================================
