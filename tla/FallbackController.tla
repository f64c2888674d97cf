------------------------- MODULE FallbackController -------------------------
(***************************************************************************)
(* The deterministic fallback controller (Module 7): the pure per-zone     *)
(* policy evaluate_zone and the FallbackDecisionEngine that feeds it one   *)
(* canonical state after another and keeps one memory per zone.            *)
(*                                                                         *)
(* Temperatures and setpoints are integers (hundredths of a degree), and   *)
(* None stands for a reading that is missing or not finite.  Of the zone   *)
(* memory only the fields a later evaluation reads are kept: the others    *)
(* (previous mode, sequence stamps, reason) are written for the record.    *)
(***************************************************************************)
EXTENDS Integers

CONSTANTS
  Zones,                \* the zones the engine evaluates (live: one; shadow: all)
  ApprovedZones,        \* targets.approved_zone_names
  MinimumSetpoint,      \* occupied_policy.minimum_setpoint_celsius
  MaximumSetpoint,      \* occupied_policy.maximum_setpoint_celsius
  MaximumDelta,         \* maximum_delta_from_baseline_celsius
  HotThreshold,         \* hot_temperature_threshold_celsius
  RecoverySetpoint,     \* recovery_setpoint_celsius
  Hysteresis,           \* hysteresis_celsius
  RelaxedOffset,        \* unoccupied_policy.relaxed_offset_celsius
  MaximumRelaxed,       \* maximum_relaxed_setpoint_celsius
  ProtectionThreshold,  \* temperature_protection_threshold_celsius
  MinimumHold,          \* minimum_hold_zone_timesteps
  OccupancyGrace,       \* occupancy_grace_zone_timesteps
  MaximumSequenceGap,   \* staleness.maximum_sequence_gap
  CommandTtl,           \* staleness.command_ttl_zone_timesteps
  Temperatures,         \* zone temperatures the building may show
  Setpoints,            \* effective cooling setpoints the building may show
  Gaps,                 \* increments between the sequences of two states
  MaximumSequence,      \* bound on the sequences explored
  None

ASSUME ControllerAssumption ==
  /\ None \notin Int
  /\ {MinimumSetpoint, MaximumSetpoint, HotThreshold, RecoverySetpoint,
      MaximumRelaxed, ProtectionThreshold} \subseteq Int
  /\ {MaximumDelta, Hysteresis, RelaxedOffset, MinimumHold, OccupancyGrace,
      MaximumSequenceGap, CommandTtl, MaximumSequence} \subseteq Nat
  /\ MinimumSetpoint <= MaximumSetpoint
  /\ Temperatures \subseteq Int
  /\ Setpoints \subseteq Int
  /\ Gaps \subseteq Nat \ {0}

VARIABLES
  lastSequence,  \* FallbackDecisionEngine._last_sequence
  memory,        \* ControllerMemory: the ZoneControllerMemory of each zone
  decision       \* what the latest evaluation decided for each zone

controllerVars == <<lastSequence, memory, decision>>

Lesser(a, b)  == IF a <= b THEN a ELSE b
Greater(a, b) == IF a >= b THEN a ELSE b

-----------------------------------------------------------------------------
(* Data.                                                                   *)

Modes == {"NATIVE", "OCCUPIED_NORMAL", "OCCUPIED_RECOVERY", "VACANCY_GRACE",
          "UNOCCUPIED_RELAXED", "HOLD", "FAILSAFE_RESET"}

Actions == {"APPLY_SETPOINT", "RESET", "REJECT", "NO_ACTION"}

ZoneState == [occupied    : BOOLEAN,
              temperature : Temperatures \cup {None},
              effective   : Setpoints \cup {None}]

ZoneMemory == [occupied : Nat,          \* consecutive_occupied_timesteps
               vacant   : Nat,          \* consecutive_unoccupied_timesteps
               hold     : Nat,          \* hold_timesteps_remaining
               recovery : BOOLEAN,      \* recovery_active
               active   : BOOLEAN,      \* active_command
               native   : Int \cup {None},   \* last_native_setpoint
               command  : Int \cup {None}]   \* last_command_setpoint

Decision == [sequence : Nat,
             mode     : Modes,
             action   : Actions,
             approved : Int \cup {None}]

NewMemory == [occupied |-> 0, vacant |-> 0, hold |-> 0, recovery |-> FALSE,
              active |-> FALSE, native |-> None, command |-> None]

NoDecision == [sequence |-> 0, mode |-> "NATIVE", action |-> "NO_ACTION",
               approved |-> None]

-----------------------------------------------------------------------------
(* evaluate_zone.                                                          *)

\* Mutant: a countdown that waits for vacancy.
CountedWhileVacant(zone, m) ==
  [m EXCEPT !.occupied = IF zone.occupied THEN @ + 1 ELSE 0,
            !.vacant   = IF zone.occupied THEN 0 ELSE @ + 1,
            !.hold     = IF zone.occupied THEN @ ELSE Greater(0, @ - 1)]

\* The counters every evaluation advances first (base_memory).
Counted(zone, m) ==
  [m EXCEPT !.occupied = IF zone.occupied THEN @ + 1 ELSE 0,
            !.vacant   = IF zone.occupied THEN 0 ELSE @ + 1,
            !.hold     = Greater(0, @ - 1)]

\* _result: a decision that picks no new setpoint, and its memory.
Unchosen(m, mode, action, value) ==
  [mode |-> mode, action |-> action, approved |-> value,
   memory |-> [m EXCEPT !.active = (action = "APPLY_SETPOINT")]]

\* While a command is active the native setpoint first seen stays the baseline.
Baseline(zone, m) ==
  IF m.active /\ m.native # None THEN m.native ELSE zone.effective

\* Mutant: a recovery that is never begun.
RecoveringStill(zone, m) ==
  m.recovery /\ zone.temperature > HotThreshold - Hysteresis

Recovering(zone, m) ==
  \/ zone.temperature > HotThreshold
  \/ m.recovery /\ zone.temperature > HotThreshold - Hysteresis

\* Temperature protection keeps a vacant zone from being relaxed.
Protected(zone) == zone.temperature >= ProtectionThreshold

\* The mode and the setpoint the occupancy branch asks for.
Wanted(zone, m, baseline) ==
  CASE zone.occupied /\ Recovering(zone, m) ->
         [mode |-> "OCCUPIED_RECOVERY", setpoint |-> Lesser(baseline, RecoverySetpoint)]
    [] zone.occupied /\ ~Recovering(zone, m) ->
         [mode |-> "OCCUPIED_NORMAL", setpoint |-> baseline]
    [] ~zone.occupied /\ m.vacant + 1 <= OccupancyGrace ->
         [mode |-> "VACANCY_GRACE", setpoint |-> baseline]
    [] ~zone.occupied /\ m.vacant + 1 > OccupancyGrace /\ Protected(zone) ->
         [mode |-> "OCCUPIED_NORMAL", setpoint |-> baseline]
    [] OTHER ->
         [mode |-> "UNOCCUPIED_RELAXED",
          setpoint |-> Lesser(baseline + RelaxedOffset, MaximumRelaxed)]

\* Mutant: the absolute bounds alone.
BoundedAbsolutely(setpoint, baseline) ==
  Lesser(Greater(setpoint, MinimumSetpoint), MaximumSetpoint)

\* The setpoint clamped to the absolute bounds and the delta from the baseline.
Bounded(setpoint, baseline) ==
  LET lower == Greater(MinimumSetpoint, baseline - MaximumDelta)
      upper == Lesser(MaximumSetpoint, baseline + MaximumDelta)
  IN  Lesser(Greater(setpoint, lower), upper)

\* A newly chosen setpoint restarts the hold and takes the zone over.
Chosen(zone, m) ==
  LET baseline == Baseline(zone, m)
      wanted   == Wanted(zone, m, baseline)
      approved == Bounded(wanted.setpoint, baseline)
  IN  [mode |-> wanted.mode, action |-> "APPLY_SETPOINT", approved |-> approved,
       memory |-> [Counted(zone, m) EXCEPT
                     !.native   = baseline,
                     !.command  = approved,
                     !.hold     = MinimumHold,
                     !.recovery = (wanted.mode = "OCCUPIED_RECOVERY"),
                     !.active   = TRUE]]

\* Mutant: a hold without a command.
MustHoldUnowned(m) == m.hold > 0

\* Whether the minimum hold of the zone's command still runs.
MustHold(m) == m.hold > 0 /\ m.active

EvaluateZone(name, zone, m) ==
  IF name \notin ApprovedZones
    THEN Unchosen(Counted(zone, m), "NATIVE", "REJECT", None)
  ELSE IF None \in {zone.temperature, zone.effective}
    THEN Unchosen(Counted(zone, m), "FAILSAFE_RESET", "RESET", None)
  ELSE IF MustHold(m)
    THEN Unchosen(Counted(zone, m), "HOLD", "APPLY_SETPOINT", m.command)
  ELSE Chosen(zone, m)

-----------------------------------------------------------------------------
(* FallbackDecisionEngine.                                                 *)

Gap(sequence) == IF lastSequence = 0 THEN 1 ELSE sequence - lastSequence

\* A gap in the sequence turns the decision into a reset; the memory the
\* policy computed for the decision it replaces is stored all the same.
Decide(sequence, policy) ==
  IF Gap(sequence) > MaximumSequenceGap
    THEN [sequence |-> sequence, mode |-> policy.mode, action |-> "RESET",
          approved |-> None]
    ELSE [sequence |-> sequence, mode |-> policy.mode, action |-> policy.action,
          approved |-> policy.approved]

Evaluate(sequence, state) ==
  /\ sequence > lastSequence
  /\ LET policy == [z \in Zones |-> EvaluateZone(z, state[z], memory[z])]
     IN  /\ memory' = [z \in Zones |-> policy[z].memory]
         /\ decision' = [z \in Zones |-> Decide(sequence, policy[z])]
  /\ lastSequence' = sequence

\* _command: the sequences for which the command of a decision is valid.
HasCommand(d) == d.action \in {"APPLY_SETPOINT", "RESET"}
ValidFrom(d)    == d.sequence + 1
ExpiresAfter(d) == d.sequence + CommandTtl

ControllerInit ==
  /\ lastSequence = 0
  /\ memory = [z \in Zones |-> NewMemory]
  /\ decision = [z \in Zones |-> NoDecision]

ControllerNext ==
  \E gap \in Gaps, state \in [Zones -> ZoneState] :
    /\ lastSequence + gap <= MaximumSequence
    /\ Evaluate(lastSequence + gap, state)

ControllerSpec == ControllerInit /\ [][ControllerNext]_controllerVars

-----------------------------------------------------------------------------
(* Properties.                                                             *)

\* The type of the engine's state.
ControllerTypeOK ==
  /\ lastSequence \in Nat
  /\ memory \in [Zones -> ZoneMemory]
  /\ decision \in [Zones -> Decision]

\* Whatever sequence of holds, recoveries, relaxations and resets led here,
\* the setpoint a zone is commanded to lies in the absolute bounds and within
\* the allowed delta of the native setpoint the engine keeps for the zone
\* (evaluate_zone clamps it against a baseline frozen at take-over).
CommandWithinAuthority ==
  \A z \in Zones :
    memory[z].active =>
      /\ memory[z].command \in MinimumSetpoint .. MaximumSetpoint
      /\ memory[z].command - memory[z].native \in -MaximumDelta .. MaximumDelta

\* HOLD_CURRENT_COMMAND repeats the command that is current: a hold decision
\* that applies a setpoint follows a decision that applied the same setpoint.
HoldRepeatsCommand ==
  [][\A z \in Zones :
       decision'[z].mode = "HOLD" /\ decision'[z].action = "APPLY_SETPOINT" =>
         /\ decision[z].action = "APPLY_SETPOINT"
         /\ decision'[z].approved = decision[z].approved]_controllerVars
=============================================================================
