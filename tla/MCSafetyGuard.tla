---------------------------- MODULE MCSafetyGuard ----------------------------
(***************************************************************************)
(* Proposals for SafetyGuard: the commands the controller makes from two   *)
(* states, with values near and far on both sides of the bounds, and the   *)
(* second command with one thing wrong with it at a time.                  *)
(***************************************************************************)
EXTENDS SafetyGuard

Live == [run |-> "run-1", environment |-> "weather-1"]
NextRun == [run |-> "run-2", environment |-> "weather-1"]

MCContexts == {Live}

MCNames == STRING

Space3 == [component |-> "Zone Temperature Control", control |-> "Cooling Setpoint",
           key |-> "SPACE3-1", units |-> "C"]

IdOf == <<"c1", "c2">>

MCCommandIds == {"c1", "c2", NoCommandId}

\* The proposal from_control_command makes of the command issued for state n.
Command(n, value) ==
  [id |-> IdOf[n], context |-> Live, environment |-> 3, zone |-> "SPACE3-1",
   actuator |-> Space3, value |-> value, source |-> n, decided |-> n,
   validFrom |-> n + 1, expires |-> n + 2, current |-> n + 1,
   warmup |-> FALSE, ready |-> TRUE, reset |-> FALSE, schema |-> 1]

\* The command for state 2 with one defect.
Defective ==
  LET p == Command(2, 2390)
  IN  {[p EXCEPT !.warmup = TRUE],
       [p EXCEPT !.ready = FALSE],
       [p EXCEPT !.schema = 2],
       [p EXCEPT !.id = NoCommandId],
       [p EXCEPT !.context = NextRun],
       [p EXCEPT !.context.environment = "weather-2"],
       [p EXCEPT !.environment = 1],
       [p EXCEPT !.source = 3],
       [p EXCEPT !.current = 2],
       [p EXCEPT !.current = 5],
       [p EXCEPT !.current = 6, !.expires = 9],
       [p EXCEPT !.zone = "PLENUM-1"],
       [p EXCEPT !.zone = "SPACE1-1"],
       [p EXCEPT !.actuator.component = "People"],
       [p EXCEPT !.actuator.control = "Heating Setpoint"],
       [p EXCEPT !.actuator.key = "SPACE1-1"],
       [p EXCEPT !.actuator.units = "F"]}

\* Commands whose value is no setpoint, and the release of the actuator.
Valueless == {Command(2, v) : v \in Unusable}
               \cup {[Command(2, None) EXCEPT !.reset = TRUE]}

\* Values near and far on both sides of the bounds, one of them also stale.
EveryValue ==
  {Command(n, v) : n \in 1 .. 2, v \in {2300, 2400, 3020, 3200}}
    \cup {[Command(2, 2990) EXCEPT !.current = 5, !.expires = 6]}

\* The second command made from the third state.
Later(value) ==
  [Command(2, value) EXCEPT !.source = 3, !.decided = 3, !.validFrom = 4,
                            !.expires = 5, !.current = 4]

EveryProposal == EveryValue \cup {Later(2300), Later(2990)} \cup Defective \cup Valueless

-----------------------------------------------------------------------------

=============================================================================
