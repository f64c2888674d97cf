----------------------- MODULE FallbackControllerProofs -----------------------
(***************************************************************************)
(* Theorems about FallbackController, for every value of its constants,    *)
(* and about what MCFallbackController says of it over time.               *)
(*                                                                         *)
(* CommandWithinAuthority is not inductive: what keeps a command near its  *)
(* baseline is that the baseline of an active zone stays the setpoint that *)
(* was read when the zone was taken over, and that a building's setpoint   *)
(* is never so far outside the absolute bounds that the two clamps cannot  *)
(* both hold.                                                              *)
(***************************************************************************)
EXTENDS MCFallbackController, TLAPS

\* The building's setpoints reach outside the bounds by at most the delta.
NearBounds ==
  Setpoints \subseteq (MinimumSetpoint - MaximumDelta) .. (MaximumSetpoint + MaximumDelta)

\* An active zone's command, and the baseline it is relative to.
WithinAuthority(m) ==
  m.active =>
    /\ m.native \in Setpoints
    /\ m.command \in MinimumSetpoint .. MaximumSetpoint
    /\ m.command - m.native \in -MaximumDelta .. MaximumDelta

\* r is a proper result of the policy for a zone remembered as m.
Proper(m, r) ==
  /\ r.memory \in ZoneMemory
  /\ r.mode \in Modes
  /\ r.action \in Actions
  /\ r.approved \in Int \cup {None}
  /\ NearBounds /\ WithinAuthority(m) => WithinAuthority(r.memory)

ControllerInv ==
  ControllerTypeOK /\ (NearBounds => \A z \in Zones : WithinAuthority(memory[z]))

-----------------------------------------------------------------------------
(* The operators of the policy.                                            *)

\* The delta clamp and the absolute clamp hold together.
LEMMA BoundedFacts ==
  ASSUME NEW setpoint \in Int, NEW baseline \in Int
  PROVE  /\ Bounded(setpoint, baseline) \in Int
         /\ baseline \in (MinimumSetpoint - MaximumDelta) .. (MaximumSetpoint + MaximumDelta) =>
              /\ Bounded(setpoint, baseline) \in MinimumSetpoint .. MaximumSetpoint
              /\ Bounded(setpoint, baseline) - baseline \in -MaximumDelta .. MaximumDelta
BY ControllerAssumption DEF Bounded, Lesser, Greater

\* Counting changes nothing but the counters.
LEMMA CountedFacts ==
  ASSUME NEW s \in ZoneState, NEW m \in ZoneMemory
  PROVE  /\ Counted(s, m) \in ZoneMemory
         /\ Counted(s, m).native = m.native
         /\ Counted(s, m).command = m.command
         /\ Counted(s, m).active <=> m.active
<1> DEFINE occupied == IF s.occupied THEN m.occupied + 1 ELSE 0
<1> DEFINE vacant   == IF s.occupied THEN 0 ELSE m.vacant + 1
<1> DEFINE hold     == Greater(0, m.hold - 1)
<1>1. occupied \in Nat /\ vacant \in Nat
  BY DEF ZoneMemory
<1>2. hold \in Nat
  BY DEF ZoneMemory, Greater
<1>3. Counted(s, m) = [m EXCEPT !.occupied = occupied, !.vacant = vacant, !.hold = hold]
  BY DEF Counted, ZoneMemory
<1> HIDE DEF occupied, vacant, hold
<1> QED
  BY <1>1, <1>2, <1>3 DEF ZoneMemory

\* The occupancy branch asks for an integer in one of the modes.
LEMMA WantedFacts ==
  ASSUME NEW s \in ZoneState, NEW m \in ZoneMemory, NEW baseline \in Int
  PROVE  /\ Wanted(s, m, baseline).mode \in Modes
         /\ Wanted(s, m, baseline).setpoint \in Int
<1>1. /\ Lesser(baseline, RecoverySetpoint) \in Int
      /\ Lesser(baseline + RelaxedOffset, MaximumRelaxed) \in Int
  BY ControllerAssumption DEF Lesser
<1> QED
  BY <1>1 DEF Wanted, Modes

\* A decision that picks no setpoint keeps the zone's baseline and command, and
\* applies a setpoint only to a zone that was active.
LEMMA UnchosenFacts ==
  ASSUME NEW m \in ZoneMemory, NEW mode \in Modes, NEW action \in Actions,
         NEW value \in Int \cup {None},
         action = "APPLY_SETPOINT" => m.active
  PROVE  Proper(m, Unchosen(m, mode, action, value))
<1> DEFINE u == Unchosen(m, mode, action, value)
<1>1. u.mode = mode /\ u.action = action /\ u.approved = value
  BY DEF Unchosen
<1>2. u.memory = [m EXCEPT !.active = (action = "APPLY_SETPOINT")]
  BY DEF Unchosen
<1>3. u.memory \in ZoneMemory /\ u.memory.native = m.native /\ u.memory.command = m.command
  BY <1>2 DEF ZoneMemory
<1>4. u.memory.active => action = "APPLY_SETPOINT"
  BY <1>2 DEF ZoneMemory
<1> HIDE DEF u
<1>5. WithinAuthority(m) => WithinAuthority(u.memory)
  BY <1>3, <1>4 DEF WithinAuthority
<1> QED
  BY <1>1, <1>3, <1>5 DEF u, Proper

\* A zone with a usable reading and no hold gets a setpoint near its baseline.
LEMMA ChosenFacts ==
  ASSUME NEW s \in ZoneState, NEW m \in ZoneMemory, s.effective # None
  PROVE  Proper(m, Chosen(s, m))
<1> DEFINE b == Baseline(s, m)
<1> DEFINE w == Wanted(s, m, b)
<1> DEFINE a == Bounded(w.setpoint, b)
<1> DEFINE recovers == w.mode = "OCCUPIED_RECOVERY"
<1>1. b \in Int
  BY ControllerAssumption DEF Baseline, ZoneMemory, ZoneState
<1>2. w.mode \in Modes /\ w.setpoint \in Int
  BY <1>1, WantedFacts
<1>3. a \in Int
  BY <1>1, <1>2, BoundedFacts
<1>4. /\ Chosen(s, m).mode = w.mode
      /\ Chosen(s, m).action = "APPLY_SETPOINT"
      /\ Chosen(s, m).approved = a
      /\ Chosen(s, m).memory = [Counted(s, m) EXCEPT
                                  !.native = b, !.command = a, !.hold = MinimumHold,
                                  !.recovery = recovers, !.active = TRUE]
  BY DEF Chosen
<1> HIDE DEF w, a, b, recovers
<1>5. /\ Chosen(s, m).memory \in ZoneMemory
      /\ Chosen(s, m).memory.native = b
      /\ Chosen(s, m).memory.command = a
  <2>1. recovers \in BOOLEAN /\ MinimumHold \in Nat
    BY ControllerAssumption DEF recovers
  <2>2. Counted(s, m) \in ZoneMemory
    BY CountedFacts
  <2>3. PICK e0 : e0 = [Counted(s, m) EXCEPT !.native = b, !.command = a]
    OBVIOUS
  <2>4. e0 \in ZoneMemory /\ e0.native = b /\ e0.command = a
    BY <1>1, <1>3, <2>2, <2>3 DEF ZoneMemory
  <2>5. PICK e1 : e1 = [e0 EXCEPT !.hold = MinimumHold, !.recovery = recovers, !.active = TRUE]
    OBVIOUS
  <2>6. e1 \in ZoneMemory /\ e1.native = b /\ e1.command = a
    BY <2>1, <2>4, <2>5 DEF ZoneMemory
  <2>7. Chosen(s, m).memory = e1
    BY <1>4, <2>3, <2>5
  <2> QED
    BY <2>6, <2>7
<1>6. ASSUME NearBounds, WithinAuthority(m)
      PROVE  WithinAuthority(Chosen(s, m).memory)
  <2>1. b \in Setpoints
    BY <1>6 DEF WithinAuthority, Baseline, ZoneState, b
  <2>2. a \in MinimumSetpoint .. MaximumSetpoint /\ a - b \in -MaximumDelta .. MaximumDelta
    BY <1>1, <1>2, <1>6, <2>1, BoundedFacts DEF NearBounds, a
  <2> QED
    BY <1>5, <2>1, <2>2 DEF WithinAuthority
<1> QED
  BY <1>2, <1>3, <1>4, <1>5, <1>6 DEF Actions, Proper

\* What the policy does with a zone keeps its memory typed and in authority.
LEMMA EvaluateZoneFacts ==
  ASSUME NEW name \in Zones, NEW s \in ZoneState, NEW m \in ZoneMemory
  PROVE  Proper(m, EvaluateZone(name, s, m))
<1> DEFINE c == Counted(s, m)
<1>1. /\ c \in ZoneMemory
      /\ c.native = m.native /\ c.command = m.command /\ (c.active <=> m.active)
  BY CountedFacts
<1> HIDE DEF c
<1>2. ASSUME NEW r, Proper(c, r)
      PROVE  Proper(m, r)
  BY <1>1, <1>2 DEF Proper, WithinAuthority
<1>3. CASE name \notin ApprovedZones
  <2>1. Proper(c, Unchosen(c, "NATIVE", "REJECT", None))
    BY <1>1, UnchosenFacts DEF Modes, Actions
  <2> QED
    BY <1>2, <1>3, <2>1 DEF EvaluateZone, c
<1>4. CASE name \in ApprovedZones /\ None \in {s.temperature, s.effective}
  <2>1. Proper(c, Unchosen(c, "FAILSAFE_RESET", "RESET", None))
    BY <1>1, UnchosenFacts DEF Modes, Actions
  <2> QED
    BY <1>2, <1>4, <2>1 DEF EvaluateZone, c
<1>5. CASE name \in ApprovedZones /\ None \notin {s.temperature, s.effective}
  <2>1. CASE MustHold(m)
    <3>1. m.command \in Int \cup {None}
      BY DEF ZoneMemory
    <3>2. Proper(c, Unchosen(c, "HOLD", "APPLY_SETPOINT", m.command))
      BY <1>1, <2>1, <3>1, UnchosenFacts DEF Modes, Actions, MustHold
    <3> QED
      BY <1>2, <1>5, <2>1, <3>2 DEF EvaluateZone, c
  <2>2. CASE ~MustHold(m)
    <3>1. Proper(m, Chosen(s, m))
      BY <1>5, ChosenFacts
    <3> QED
      BY <1>5, <2>2, <3>1 DEF EvaluateZone
  <2> QED
    BY <2>1, <2>2
<1> QED
  BY <1>3, <1>4, <1>5

\* The baseline of an active zone is one of the setpoints it may be taken over
\* at, and a zone that is approved is made inactive only by a reset.
LEMMA EvaluateZoneKeeps ==
  ASSUME NEW name \in ApprovedZones, NEW s \in ZoneState, NEW m \in ZoneMemory,
         NEW natives \in SUBSET Int,
         m.active => m.native \in natives,
         ~m.active => s.effective \in natives \cup {None}
  PROVE  /\ EvaluateZone(name, s, m).memory.active =>
              EvaluateZone(name, s, m).memory.native \in natives
         /\ ~EvaluateZone(name, s, m).memory.active =>
              EvaluateZone(name, s, m).action = "RESET"
<1> DEFINE c == Counted(s, m)
<1>1. c \in ZoneMemory /\ c.native = m.native /\ (c.active <=> m.active)
  BY CountedFacts
<1>2. ASSUME NEW mode, NEW action, NEW value
      PROVE  /\ Unchosen(c, mode, action, value).action = action
             /\ Unchosen(c, mode, action, value).memory.native = m.native
             /\ Unchosen(c, mode, action, value).memory.active <=> (action = "APPLY_SETPOINT")
  BY <1>1 DEF Unchosen, ZoneMemory
<1> HIDE DEF c
<1>3. CASE None \in {s.temperature, s.effective}
  <2>1. EvaluateZone(name, s, m) = Unchosen(c, "FAILSAFE_RESET", "RESET", None)
    BY <1>3 DEF EvaluateZone, c
  <2> QED
    BY <1>2, <2>1
<1>4. CASE None \notin {s.temperature, s.effective} /\ MustHold(m)
  <2>1. EvaluateZone(name, s, m) = Unchosen(c, "HOLD", "APPLY_SETPOINT", m.command)
    BY <1>4 DEF EvaluateZone, c
  <2> QED
    BY <1>4, <1>2, <2>1 DEF MustHold
<1>5. CASE None \notin {s.temperature, s.effective} /\ ~MustHold(m)
  <2>1. EvaluateZone(name, s, m) = Chosen(s, m)
    BY <1>5 DEF EvaluateZone
  <2> DEFINE b == Baseline(s, m)
             w == Wanted(s, m, b)
             a == Bounded(w.setpoint, b)
             recovers == w.mode = "OCCUPIED_RECOVERY"
  <2>2. b \in natives
    BY <1>5, ControllerAssumption DEF Baseline
  <2>3. Chosen(s, m).memory = [c EXCEPT !.native = b, !.command = a, !.hold = MinimumHold,
                                        !.recovery = recovers, !.active = TRUE]
    BY DEF Chosen, c
  <2> HIDE DEF w, a, b, recovers
  <2>4. Chosen(s, m).memory.active /\ Chosen(s, m).memory.native = b
    BY <1>1, <2>3 DEF ZoneMemory
  <2> QED
    BY <2>1, <2>2, <2>4
<1> QED
  BY <1>3, <1>4, <1>5

-----------------------------------------------------------------------------
(* The invariant.                                                          *)

LEMMA InitInv == ControllerInit => ControllerInv
BY DEF ControllerInit, ControllerInv, ControllerTypeOK, NewMemory, NoDecision,
       ZoneMemory, Decision, Modes, Actions, WithinAuthority

LEMMA EvaluateInv ==
  ASSUME ControllerInv, NEW sequence \in Nat, NEW state \in [Zones -> ZoneState],
         Evaluate(sequence, state)
  PROVE  ControllerInv'
<1> DEFINE policy == [z \in Zones |-> EvaluateZone(z, state[z], memory[z])]
<1>1. ASSUME NEW z \in Zones
      PROVE  /\ policy[z].memory \in ZoneMemory
             /\ policy[z].mode \in Modes
             /\ policy[z].action \in Actions
             /\ policy[z].approved \in Int \cup {None}
             /\ NearBounds => WithinAuthority(policy[z].memory)
  BY EvaluateZoneFacts DEF ControllerInv, ControllerTypeOK, Proper
<1>2. /\ memory' = [z \in Zones |-> policy[z].memory]
      /\ decision' = [z \in Zones |-> Decide(sequence, policy[z])]
      /\ lastSequence' = sequence
  BY DEF Evaluate
<1> HIDE DEF policy
<1>3. memory' \in [Zones -> ZoneMemory]
  BY <1>1, <1>2
<1>4. ASSUME NEW z \in Zones
      PROVE  Decide(sequence, policy[z]) \in Decision
  BY <1>1 DEF Decide, Decision, Actions
<1>5. decision' \in [Zones -> Decision]
  BY <1>2, <1>4
<1>6. NearBounds => \A z \in Zones : WithinAuthority(memory'[z])
  BY <1>1, <1>2
<1> QED
  BY <1>2, <1>3, <1>5, <1>6 DEF ControllerInv, ControllerTypeOK, NearBounds, WithinAuthority

LEMMA StepInv == ControllerInv /\ [ControllerNext]_controllerVars => ControllerInv'
<1> SUFFICES ASSUME ControllerInv, [ControllerNext]_controllerVars
             PROVE  ControllerInv'
  OBVIOUS
<1>1. CASE ControllerNext
  <2>1. PICK gap \in Gaps, state \in [Zones -> ZoneState] :
          Evaluate(lastSequence + gap, state)
    BY <1>1 DEF ControllerNext
  <2>2. lastSequence + gap \in Nat
    BY ControllerAssumption DEF ControllerInv, ControllerTypeOK
  <2> QED
    BY <2>1, <2>2, EvaluateInv
<1>2. CASE UNCHANGED controllerVars
  BY <1>2 DEF ControllerInv, ControllerTypeOK, NearBounds, WithinAuthority, controllerVars
<1> QED
  BY <1>1, <1>2

LEMMA SpecInv == ControllerSpec => []ControllerInv
BY InitInv, StepInv, PTL DEF ControllerSpec

-----------------------------------------------------------------------------
(* The theorems.                                                           *)

\* The engine's memory and decisions have their types, whatever states the
\* building shows and whatever sequences are skipped.
THEOREM TypeCorrect == ControllerSpec => []ControllerTypeOK
<1>1. ControllerInv => ControllerTypeOK
  BY DEF ControllerInv
<1> QED
  BY <1>1, SpecInv, PTL

\* For every threshold, offset, hold and delta: whatever evaluate_zone commands
\* a zone to lies within the absolute bounds and within the delta of the
\* baseline, provided the building's own setpoints are near the bounds.
THEOREM Authority ==
  ASSUME NearBounds
  PROVE  ControllerSpec => []CommandWithinAuthority
<1>1. ControllerInv => CommandWithinAuthority
  BY DEF ControllerInv, CommandWithinAuthority, WithinAuthority
<1> QED
  BY <1>1, SpecInv, PTL

-----------------------------------------------------------------------------
(* Holding.                                                                *)

\* A result or decision d agrees with the memory m stored with it.
Agrees(d, m) == m.active => d.action = "APPLY_SETPOINT" /\ d.approved = m.command

\* r holds the command of a zone remembered as m, if it holds one at all.
Holds(m, r) ==
  r.mode = "HOLD" /\ r.action = "APPLY_SETPOINT" => m.active /\ r.approved = m.command

LEMMA UnchosenAgrees ==
  ASSUME NEW m \in ZoneMemory, NEW mode, NEW action, NEW value,
         action = "APPLY_SETPOINT" => value = m.command
  PROVE  Agrees(Unchosen(m, mode, action, value), Unchosen(m, mode, action, value).memory)
<1> DEFINE u == Unchosen(m, mode, action, value)
<1>1. u.memory = [m EXCEPT !.active = (action = "APPLY_SETPOINT")]
  BY DEF Unchosen
<1>2. u.action = action /\ u.approved = value
  BY DEF Unchosen
<1>3. (u.memory.active => action = "APPLY_SETPOINT") /\ u.memory.command = m.command
  BY <1>1 DEF ZoneMemory
<1> HIDE DEF u
<1>4. Agrees(u, u.memory)
  BY <1>2, <1>3 DEF Agrees
<1> QED
  BY <1>4 DEF u

LEMMA ChosenAgrees ==
  ASSUME NEW s \in ZoneState, NEW m \in ZoneMemory
  PROVE  /\ Agrees(Chosen(s, m), Chosen(s, m).memory)
         /\ Chosen(s, m).mode # "HOLD"
<1> DEFINE b == Baseline(s, m)
<1> DEFINE w == Wanted(s, m, b)
<1>1. w.mode # "HOLD"
  BY DEF Wanted
<1>2. /\ Chosen(s, m).mode = w.mode
      /\ Chosen(s, m).action = "APPLY_SETPOINT"
      /\ Chosen(s, m).memory.command = Chosen(s, m).approved
  BY CountedFacts DEF Chosen, ZoneMemory
<1> HIDE DEF w
<1> QED
  BY <1>1, <1>2 DEF Agrees

LEMMA EvaluateZoneAgrees ==
  ASSUME NEW name \in Zones, NEW s \in ZoneState, NEW m \in ZoneMemory
  PROVE  /\ Agrees(EvaluateZone(name, s, m), EvaluateZone(name, s, m).memory)
         /\ Holds(m, EvaluateZone(name, s, m))
<1> DEFINE c == Counted(s, m)
<1>1. c \in ZoneMemory /\ c.command = m.command
  BY CountedFacts
<1> HIDE DEF c
<1>2. CASE name \notin ApprovedZones
  <2> DEFINE u == Unchosen(c, "NATIVE", "REJECT", None)
  <2>1. Agrees(u, u.memory)
    BY <1>1, UnchosenAgrees
  <2>2. Holds(m, u)
    BY DEF Unchosen, Holds
  <2> HIDE DEF u
  <2> QED
    BY <1>2, <2>1, <2>2 DEF EvaluateZone, c, u
<1>3. CASE name \in ApprovedZones /\ None \in {s.temperature, s.effective}
  <2> DEFINE u == Unchosen(c, "FAILSAFE_RESET", "RESET", None)
  <2>1. Agrees(u, u.memory)
    BY <1>1, UnchosenAgrees
  <2>2. Holds(m, u)
    BY DEF Unchosen, Holds
  <2> HIDE DEF u
  <2> QED
    BY <1>3, <2>1, <2>2 DEF EvaluateZone, c, u
<1>4. CASE name \in ApprovedZones /\ None \notin {s.temperature, s.effective}
  <2>1. CASE MustHold(m)
    <3> DEFINE u == Unchosen(c, "HOLD", "APPLY_SETPOINT", m.command)
    <3>1. Agrees(u, u.memory)
      BY <1>1, UnchosenAgrees
    <3>2. Holds(m, u)
      BY <2>1 DEF Unchosen, Holds, MustHold
    <3> HIDE DEF u
    <3> QED
      BY <1>4, <2>1, <3>1, <3>2 DEF EvaluateZone, c, u
  <2>2. CASE ~MustHold(m)
    BY <1>4, <2>2, ChosenAgrees DEF EvaluateZone, Holds
  <2> QED
    BY <2>1, <2>2
<1> QED
  BY <1>2, <1>3, <1>4

\* What HoldRepeatsCommand rests on.
HoldInv == ControllerTypeOK /\ \A z \in Zones : Agrees(decision[z], memory[z])

\* When no state follows its predecessor by more than MaximumSequenceGap, a
\* hold always repeats the setpoint of the decision before it, for every hold,
\* threshold and delta (evaluate_zone's active flag, and the engine's memory).
THEOREM HoldRepeats ==
  ASSUME Gaps \subseteq 1 .. MaximumSequenceGap
  PROVE  ControllerSpec => HoldRepeatsCommand
<1> DEFINE Repeats ==
      \A z \in Zones :
        decision'[z].mode = "HOLD" /\ decision'[z].action = "APPLY_SETPOINT" =>
          /\ decision[z].action = "APPLY_SETPOINT"
          /\ decision'[z].approved = decision[z].approved
<1>1. ControllerInit => HoldInv
  <2>1. ControllerInit => ControllerTypeOK
    BY InitInv DEF ControllerInv
  <2>2. ControllerInit => \A z \in Zones : Agrees(decision[z], memory[z])
    BY DEF ControllerInit, NewMemory, Agrees
  <2> QED
    BY <2>1, <2>2 DEF HoldInv
<1>2. ASSUME ControllerTypeOK, ControllerTypeOK', HoldInv, ControllerNext
      PROVE  HoldInv' /\ Repeats
  <2>1. PICK gap \in Gaps, state \in [Zones -> ZoneState] :
          Evaluate(lastSequence + gap, state)
    BY <1>2 DEF ControllerNext
  <2> DEFINE policy == [z \in Zones |-> EvaluateZone(z, state[z], memory[z])]
  <2>2. /\ memory' = [z \in Zones |-> policy[z].memory]
        /\ decision' = [z \in Zones |-> Decide(lastSequence + gap, policy[z])]
    BY <2>1 DEF Evaluate
  <2>3. ASSUME NEW z \in Zones
        PROVE  Agrees(policy[z], policy[z].memory) /\ Holds(memory[z], policy[z])
    BY <1>2, EvaluateZoneAgrees DEF ControllerTypeOK
  <2> HIDE DEF policy
  <2>4. Gap(lastSequence + gap) <= MaximumSequenceGap
    BY <1>2, ControllerAssumption DEF Gap, ControllerTypeOK
  <2>5. ASSUME NEW z \in Zones
        PROVE  /\ decision'[z].mode = policy[z].mode
               /\ decision'[z].action = policy[z].action
               /\ decision'[z].approved = policy[z].approved
    <3>1. Gap(lastSequence + gap) \in Int
      BY <1>2, ControllerAssumption DEF Gap, ControllerTypeOK
    <3>2. ~(Gap(lastSequence + gap) > MaximumSequenceGap)
      BY <2>4, <3>1, ControllerAssumption
    <3> QED
      BY <2>2, <3>2 DEF Decide
  <2>6. \A z \in Zones : Agrees(decision'[z], memory'[z])
    BY <2>2, <2>3, <2>5 DEF Agrees
  <2>7. Repeats
    BY <1>2, <2>3, <2>5 DEF HoldInv, Agrees, Holds
  <2> QED
    BY <1>2, <2>6, <2>7 DEF HoldInv, Agrees
<1>3. HoldInv /\ UNCHANGED controllerVars => HoldInv'
  BY DEF HoldInv, ControllerTypeOK, Agrees, controllerVars
<1>4. ControllerTypeOK /\ ControllerTypeOK' /\ HoldInv /\ [ControllerNext]_controllerVars
        => HoldInv' /\ [Repeats]_controllerVars
  BY <1>2, <1>3
<1> QED
  BY <1>1, <1>4, TypeCorrect, PTL DEF ControllerSpec, HoldRepeatsCommand

-----------------------------------------------------------------------------
(* How long a setpoint may outlast what called for another one.  A command *)
(* is held while hold counts down from MinimumHold, and the streaks count  *)
(* up meanwhile, so that a streak and the hold that is left stay within    *)
(* MinimumHold until a setpoint is chosen that answers the streak.         *)

\* The building's setpoints do not lie under the controller's minimum.
AboveMinimum == \A setpoint \in Setpoints : MinimumSetpoint <= setpoint

\* The readings of z are there, and it is occupied and hot; or it is protected.
ShowsHot(s) ==
  None \notin {s.temperature, s.effective} /\ s.occupied /\ s.temperature > HotThreshold

ShowsProtected(s) ==
  None \notin {s.temperature, s.effective} /\ s.temperature >= ProtectionThreshold

\* A command above the baseline is younger than any streak that forbids it.
Yields(m, streak) ==
  m.active =>
    /\ m.native \in Setpoints
    /\ \/ m.command <= m.native
       \/ m.occupied + m.hold <= MinimumHold /\ streak + m.hold <= MinimumHold

\* A command that does not recover is younger than the heat.
Recovers(m, streak) ==
  /\ m.hold <= MinimumHold
  /\ streak > 0 => m.active
  /\ \/ streak + m.hold <= MinimumHold
     \/ m.command <= Greater(RecoverySetpoint, m.native - MaximumDelta)

LEMMA StreakFacts ==
  ASSUME NEW count \in Nat, NEW holds \in BOOLEAN
  PROVE  /\ Streak(count, holds) \in Nat
         /\ Streak(count, holds) <= count + 1
         /\ ~holds => Streak(count, holds) = 0
BY ControllerAssumption DEF Streak, Lesser

LEMMA CountedFields ==
  ASSUME NEW s \in ZoneState, NEW m \in ZoneMemory
  PROVE  /\ Counted(s, m).hold \in Nat
         /\ Counted(s, m).hold = IF m.hold > 0 THEN m.hold - 1 ELSE 0
         /\ Counted(s, m).occupied \in Nat
         /\ Counted(s, m).occupied <= m.occupied + 1
         /\ ~s.occupied => Counted(s, m).occupied = 0
<1>1. /\ Counted(s, m).hold = Greater(0, m.hold - 1)
      /\ Counted(s, m).occupied = IF s.occupied THEN m.occupied + 1 ELSE 0
  BY DEF Counted, ZoneMemory
<1>2. m.hold \in Nat /\ m.occupied \in Nat
  BY DEF ZoneMemory
<1> QED
  BY <1>1, <1>2 DEF Greater

\* What a policy that picks no setpoint leaves of a zone's memory.
LEMMA UnchosenFields ==
  ASSUME NEW s \in ZoneState, NEW m \in ZoneMemory, NEW mode, NEW action, NEW value
  PROVE  LET u == Unchosen(Counted(s, m), mode, action, value).memory
         IN  /\ u.hold = Counted(s, m).hold /\ u.occupied = Counted(s, m).occupied
             /\ u.native = m.native /\ u.command = m.command
             /\ u.active <=> (action = "APPLY_SETPOINT")
<1>1. PICK c : c = Counted(s, m)
  OBVIOUS
<1>2. c \in ZoneMemory /\ c.native = m.native /\ c.command = m.command
  BY <1>1, CountedFacts
<1>3. PICK u : u = [c EXCEPT !.active = (action = "APPLY_SETPOINT")]
  OBVIOUS
<1>4. /\ u.hold = c.hold /\ u.occupied = c.occupied
      /\ u.native = c.native /\ u.command = c.command
  BY <1>2, <1>3 DEF ZoneMemory
<1>5. u.active <=> (action = "APPLY_SETPOINT")
  BY <1>2, <1>3 DEF ZoneMemory
<1>6. Unchosen(Counted(s, m), mode, action, value).memory = u
  BY <1>1, <1>3 DEF Unchosen
<1> QED
  BY <1>1, <1>2, <1>4, <1>5, <1>6

\* What a newly chosen setpoint leaves of it.
LEMMA ChosenFields ==
  ASSUME NEW s \in ZoneState, NEW m \in ZoneMemory
  PROVE  LET k == Chosen(s, m).memory
             b == Baseline(s, m)
         IN  /\ k.native = b /\ k.command = Bounded(Wanted(s, m, b).setpoint, b)
             /\ k.hold = MinimumHold /\ k.occupied = Counted(s, m).occupied
             /\ k.active
<1>1. PICK c : c = Counted(s, m)
  OBVIOUS
<1>2. c \in ZoneMemory
  BY <1>1, CountedFacts
<1>3. PICK b, a, recovers :
        /\ b = Baseline(s, m)
        /\ a = Bounded(Wanted(s, m, b).setpoint, b)
        /\ recovers = (Wanted(s, m, b).mode = "OCCUPIED_RECOVERY")
  OBVIOUS
<1>4. PICK k : k = [c EXCEPT !.native = b, !.command = a, !.hold = MinimumHold,
                             !.recovery = recovers, !.active = TRUE]
  OBVIOUS
<1>5. /\ k.native = b /\ k.command = a /\ k.hold = MinimumHold /\ k.occupied = c.occupied
      /\ k.active
  BY <1>2, <1>4 DEF ZoneMemory
<1>6. Chosen(s, m).memory = k
  BY <1>1, <1>3, <1>4 DEF Chosen
<1> QED
  BY <1>1, <1>3, <1>5, <1>6

-----------------------------------------------------------------------------

\* A setpoint no warmer than the baseline stays so when it is clamped.
LEMMA BoundedBelow ==
  ASSUME NEW setpoint \in Int, NEW baseline \in Int,
         setpoint <= baseline, MinimumSetpoint <= baseline
  PROVE  Bounded(setpoint, baseline) <= baseline
BY ControllerAssumption DEF Bounded, Lesser, Greater

\* The recovery setpoint is reached, or approached by the whole delta.
LEMMA BoundedRecovery ==
  ASSUME NEW baseline \in Int, MinimumSetpoint <= RecoverySetpoint
  PROVE  Bounded(Lesser(baseline, RecoverySetpoint), baseline)
           <= Greater(RecoverySetpoint, baseline - MaximumDelta)
BY ControllerAssumption DEF Bounded, Lesser, Greater

\* Only a vacant zone that needs no protection is relaxed.
LEMMA WantedBelow ==
  ASSUME NEW s \in ZoneState, NEW m \in ZoneMemory, NEW baseline \in Int,
         s.occupied \/ Protected(s)
  PROVE  Wanted(s, m, baseline).setpoint <= baseline
<1>1. Lesser(baseline, RecoverySetpoint) <= baseline
  BY ControllerAssumption DEF Lesser
<1>2. s.occupied => Wanted(s, m, baseline).setpoint <= baseline
  BY <1>1 DEF Wanted
<1>3. ~s.occupied /\ Protected(s) => Wanted(s, m, baseline).setpoint <= baseline
  <2>1. m.vacant + 1 <= OccupancyGrace \/ m.vacant + 1 > OccupancyGrace
    BY ControllerAssumption DEF ZoneMemory
  <2> QED
    BY <2>1 DEF Wanted
<1> QED
  BY <1>2, <1>3

LEMMA YieldsKept ==
  ASSUME NEW name \in Zones, NEW s \in ZoneState, NEW m \in ZoneMemory, NEW streak \in Nat,
         AboveMinimum, Yields(m, streak)
  PROVE  Yields(EvaluateZone(name, s, m).memory, Streak(streak, ShowsProtected(s)))
<1>1. PICK next : next = Streak(streak, ShowsProtected(s))
  OBVIOUS
<1>2. /\ next \in Nat /\ next <= streak + 1
      /\ ~ShowsProtected(s) => next = 0
  BY <1>1, StreakFacts DEF ShowsProtected
<1>3. PICK e : e = EvaluateZone(name, s, m).memory
  OBVIOUS
<1>4. CASE \/ name \notin ApprovedZones
           \/ None \in {s.temperature, s.effective}
  <2>1. \/ e = Unchosen(Counted(s, m), "NATIVE", "REJECT", None).memory
        \/ e = Unchosen(Counted(s, m), "FAILSAFE_RESET", "RESET", None).memory
    BY <1>3, <1>4 DEF EvaluateZone
  <2>2. ~e.active
    BY <2>1, UnchosenFields
  <2> QED
    BY <1>1, <1>3, <2>2 DEF Yields
<1>5. CASE name \in ApprovedZones /\ None \notin {s.temperature, s.effective} /\ MustHold(m)
  <2>1. e = Unchosen(Counted(s, m), "HOLD", "APPLY_SETPOINT", m.command).memory
    BY <1>3, <1>5 DEF EvaluateZone
  <2>2. /\ e.hold = Counted(s, m).hold /\ e.occupied = Counted(s, m).occupied
        /\ e.native = m.native /\ e.command = m.command
    BY <2>1, UnchosenFields
  <2>3. m.hold \in Nat /\ m.hold > 0 /\ m.occupied \in Nat /\ m.active
    BY <1>5 DEF MustHold, ZoneMemory
  <2>4. e.hold \in Nat /\ e.hold = m.hold - 1 /\ e.occupied \in Nat /\ e.occupied <= m.occupied + 1
    BY <2>2, <2>3, CountedFields
  <2>5. m.occupied + m.hold <= MinimumHold /\ streak + m.hold <= MinimumHold
          => e.occupied + e.hold <= MinimumHold /\ next + e.hold <= MinimumHold
    BY <1>2, <2>3, <2>4, ControllerAssumption
  <2>6. m.native \in Setpoints
        /\ \/ m.command <= m.native
           \/ m.occupied + m.hold <= MinimumHold /\ streak + m.hold <= MinimumHold
    BY <2>3 DEF Yields
  <2>7. Yields(e, next)
    BY <2>2, <2>5, <2>6 DEF Yields
  <2> QED
    BY <1>1, <1>3, <2>7
<1>6. CASE name \in ApprovedZones /\ None \notin {s.temperature, s.effective} /\ ~MustHold(m)
  <2>1. e = Chosen(s, m).memory
    BY <1>3, <1>6 DEF EvaluateZone
  <2>2. PICK b : b = Baseline(s, m)
    OBVIOUS
  <2>3. b \in Setpoints
    BY <1>6, <2>2 DEF Baseline, Yields, ZoneState
  <2>4. b \in Int /\ MinimumSetpoint <= b
    BY <2>3, ControllerAssumption DEF AboveMinimum
  <2>5. PICK w : w = Wanted(s, m, b).setpoint
    OBVIOUS
  <2>6. /\ e.native = b /\ e.command = Bounded(w, b)
        /\ e.hold = MinimumHold /\ e.occupied = Counted(s, m).occupied
    BY <2>1, <2>2, <2>5, ChosenFields
  <2>7. CASE s.occupied \/ Protected(s)
    <3>1. w \in Int /\ w <= b
      BY <2>4, <2>5, <2>7, WantedFacts, WantedBelow
    <3>2. Bounded(w, b) <= b
      BY <2>4, <3>1, BoundedBelow
    <3>3. Yields(e, next)
      BY <2>3, <2>6, <3>2 DEF Yields
    <3> QED
      BY <1>1, <1>3, <3>3
  <2>8. CASE ~(s.occupied \/ Protected(s))
    <3>1. e.occupied = 0
      BY <2>6, <2>8, CountedFields
    <3>2. next = 0
      BY <1>2, <2>8 DEF ShowsProtected, Protected
    <3>3. e.occupied + e.hold <= MinimumHold /\ next + e.hold <= MinimumHold
      BY <2>6, <3>1, <3>2, ControllerAssumption
    <3>4. Yields(e, next)
      BY <2>3, <2>6, <3>3 DEF Yields
    <3> QED
      BY <1>1, <1>3, <3>4
  <2> QED
    BY <2>7, <2>8
<1> QED
  BY <1>4, <1>5, <1>6

LEMMA RecoversKept ==
  ASSUME NEW name \in ApprovedZones, NEW s \in ZoneState, NEW m \in ZoneMemory,
         NEW streak \in Nat,
         MinimumSetpoint <= RecoverySetpoint, Recovers(m, streak)
  PROVE  Recovers(EvaluateZone(name, s, m).memory, Streak(streak, ShowsHot(s)))
<1>1. PICK next : next = Streak(streak, ShowsHot(s))
  OBVIOUS
<1>2. /\ next \in Nat /\ next <= streak + 1
      /\ ~ShowsHot(s) => next = 0
  <2>1. ShowsHot(s) \in BOOLEAN
    BY DEF ShowsHot
  <2> QED
    BY <1>1, <2>1, StreakFacts
<1>3. PICK e : e = EvaluateZone(name, s, m).memory
  OBVIOUS
<1>4. m.hold \in Nat /\ m.hold <= MinimumHold
  BY DEF ZoneMemory, Recovers
<1>5. CASE None \in {s.temperature, s.effective}
  <2>1. e = Unchosen(Counted(s, m), "FAILSAFE_RESET", "RESET", None).memory
    BY <1>3, <1>5 DEF EvaluateZone
  <2>2. e.hold = Counted(s, m).hold
    BY <2>1, UnchosenFields
  <2>3. e.hold \in Nat /\ e.hold <= MinimumHold
    BY <1>4, <2>2, CountedFields, ControllerAssumption
  <2>4. next = 0
    BY <1>2, <1>5 DEF ShowsHot
  <2>5. next + e.hold <= MinimumHold /\ ~(next > 0)
    BY <2>3, <2>4
  <2>6. Recovers(e, next)
    BY <2>3, <2>5 DEF Recovers
  <2> QED
    BY <1>1, <1>3, <2>6
<1>6. CASE None \notin {s.temperature, s.effective} /\ MustHold(m)
  <2>1. e = Unchosen(Counted(s, m), "HOLD", "APPLY_SETPOINT", m.command).memory
    BY <1>3, <1>6 DEF EvaluateZone
  <2>2. /\ e.hold = Counted(s, m).hold
        /\ e.native = m.native /\ e.command = m.command /\ e.active
    BY <2>1, UnchosenFields
  <2>3. m.hold > 0
    BY <1>6 DEF MustHold
  <2>4. e.hold \in Nat /\ e.hold = m.hold - 1
    BY <1>4, <2>2, <2>3, CountedFields
  <2>5. /\ e.hold <= MinimumHold
        /\ streak + m.hold <= MinimumHold => next + e.hold <= MinimumHold
    BY <1>2, <1>4, <2>4, ControllerAssumption
  <2>6. \/ streak + m.hold <= MinimumHold
        \/ m.command <= Greater(RecoverySetpoint, m.native - MaximumDelta)
    BY DEF Recovers
  <2>7. Recovers(e, next)
    BY <2>2, <2>5, <2>6 DEF Recovers
  <2> QED
    BY <1>1, <1>3, <2>7
<1>7. CASE None \notin {s.temperature, s.effective} /\ ~MustHold(m)
  <2>1. e = Chosen(s, m).memory
    BY <1>3, <1>7 DEF EvaluateZone
  <2>2. PICK b : b = Baseline(s, m)
    OBVIOUS
  <2>3. b \in Int
    BY <1>7, <2>2, ControllerAssumption DEF Baseline, ZoneMemory, ZoneState
  <2>4. /\ e.native = b /\ e.command = Bounded(Wanted(s, m, b).setpoint, b)
        /\ e.hold = MinimumHold /\ e.active
    BY <2>1, <2>2, ChosenFields
  <2>5. e.hold <= MinimumHold
    BY <2>4, ControllerAssumption
  <2>6. CASE ShowsHot(s)
    <3>1. Wanted(s, m, b).setpoint = Lesser(b, RecoverySetpoint)
      BY <2>6 DEF ShowsHot, Wanted, Recovering
    <3>2. e.command <= Greater(RecoverySetpoint, e.native - MaximumDelta)
      BY <2>3, <2>4, <3>1, BoundedRecovery
    <3>3. Recovers(e, next)
      BY <2>4, <2>5, <3>2 DEF Recovers
    <3> QED
      BY <1>1, <1>3, <3>3
  <2>7. CASE ~ShowsHot(s)
    <3>1. next + e.hold <= MinimumHold /\ ~(next > 0)
      BY <1>2, <2>4, <2>7, ControllerAssumption
    <3>2. Recovers(e, next)
      BY <2>5, <3>1 DEF Recovers
    <3> QED
      BY <1>1, <1>3, <3>2
  <2> QED
    BY <2>6, <2>7
<1> QED
  BY <1>5, <1>6, <1>7

-----------------------------------------------------------------------------

\* What RelaxationYields and RecoveryWithinHold rest on.
HistoryInv ==
  /\ ControllerTypeOK
  /\ hot \in [Zones -> Nat]
  /\ protected \in [Zones -> Nat]

YieldsInv   == HistoryInv /\ \A z \in Zones : Yields(memory[z], protected[z])
RecoversInv == HistoryInv /\ \A z \in Zones : Recovers(memory[z], hot[z])

LEMMA HistoryInitInv ==
  HistoryInit => /\ HistoryInv
                 /\ \A z \in Zones : Yields(memory[z], protected[z])
                 /\ \A z \in Zones : Recovers(memory[z], hot[z])
<1> SUFFICES ASSUME HistoryInit
             PROVE  /\ HistoryInv
                    /\ \A z \in Zones : Yields(memory[z], protected[z])
                    /\ \A z \in Zones : Recovers(memory[z], hot[z])
  OBVIOUS
<1>1. ControllerTypeOK
  BY InitInv DEF HistoryInit, ControllerInv
<1>2. ASSUME NEW z \in Zones
      PROVE  /\ ~memory[z].active /\ memory[z].hold = 0
             /\ hot[z] = 0 /\ protected[z] = 0
  BY DEF HistoryInit, ControllerInit, NewMemory
<1>3. ASSUME NEW z \in Zones
      PROVE  Recovers(memory[z], hot[z])
  <2>1. /\ memory[z].hold <= MinimumHold
        /\ ~(hot[z] > 0)
        /\ hot[z] + memory[z].hold <= MinimumHold
    BY <1>2, ControllerAssumption
  <2> QED
    BY <2>1 DEF Recovers
<1> QED
  BY <1>1, <1>2, <1>3 DEF HistoryInit, HistoryInv, Yields

\* A step gives every zone the memory the policy computes, and its streaks.
LEMMA HistoryStep ==
  ASSUME HistoryInv, HistoryNext
  PROVE  /\ HistoryInv'
         /\ \E state \in [Zones -> ZoneState] : \A z \in Zones :
              /\ memory'[z] = EvaluateZone(z, state[z], memory[z]).memory
              /\ hot'[z] = Streak(hot[z], ShowsHot(state[z]))
              /\ protected'[z] = Streak(protected[z], ShowsProtected(state[z]))
<1>1. PICK gap \in Gaps, state \in [Zones -> ZoneState] :
        Evaluate(lastSequence + gap, state) /\ Observe(state)
  BY DEF HistoryNext
<1>2. ControllerTypeOK'
  <2>1. lastSequence + gap \in Nat
    BY ControllerAssumption DEF HistoryInv, ControllerTypeOK
  <2>2. ASSUME NEW z \in Zones
        PROVE  Proper(memory[z], EvaluateZone(z, state[z], memory[z]))
    BY EvaluateZoneFacts DEF HistoryInv, ControllerTypeOK
  <2>3. ASSUME NEW z \in Zones
        PROVE  Decide(lastSequence + gap, EvaluateZone(z, state[z], memory[z])) \in Decision
    <3>1. PICK r : r = EvaluateZone(z, state[z], memory[z])
      OBVIOUS
    <3>2. Decide(lastSequence + gap, r) \in Decision
      BY <2>1, <2>2, <3>1 DEF Proper, Decide, Decision, Actions
    <3> QED
      BY <3>1, <3>2
  <2>4. memory' \in [Zones -> ZoneMemory]
    BY <1>1, <2>2 DEF Evaluate, Proper
  <2>5. decision' \in [Zones -> Decision]
    BY <1>1, <2>3 DEF Evaluate
  <2> QED
    BY <1>1, <2>1, <2>4, <2>5 DEF Evaluate, ControllerTypeOK
<1>3. ASSUME NEW z \in Zones
      PROVE  memory'[z] = EvaluateZone(z, state[z], memory[z]).memory
  BY <1>1 DEF Evaluate
<1>4. ASSUME NEW z \in Zones
      PROVE  /\ hot'[z] = Streak(hot[z], ShowsHot(state[z]))
             /\ protected'[z] = Streak(protected[z], ShowsProtected(state[z]))
  BY <1>1 DEF Observe, ShowsHot, ShowsProtected
<1>5. ASSUME NEW z \in Zones
      PROVE  hot'[z] \in Nat /\ protected'[z] \in Nat
  <2>1. hot[z] \in Nat /\ protected[z] \in Nat
    BY DEF HistoryInv
  <2>2. ShowsHot(state[z]) \in BOOLEAN /\ ShowsProtected(state[z]) \in BOOLEAN
    BY DEF ShowsHot, ShowsProtected
  <2> QED
    BY <1>4, <2>1, <2>2, StreakFacts
<1>6. hot' \in [Zones -> Nat] /\ protected' \in [Zones -> Nat]
  <2>1. /\ hot' = [z \in Zones |-> hot'[z]]
        /\ protected' = [z \in Zones |-> protected'[z]]
    BY <1>1 DEF Observe
  <2> QED
    BY <1>5, <2>1
<1> QED
  BY <1>2, <1>3, <1>4, <1>6 DEF HistoryInv

\* For every hold, grace, offset and delta: once a zone has been occupied, or
\* warm enough to be protected, for more than MinimumHold evaluations, no
\* relaxed setpoint is left on it (evaluate_zone looks at the occupancy only
\* when no hold runs), provided no setpoint of the building lies under the
\* controller's minimum, which would raise the command above the baseline.
THEOREM RelaxationEnds ==
  ASSUME AboveMinimum
  PROVE  HistorySpec => []RelaxationYields
<1>1. HistoryInit => YieldsInv
  BY HistoryInitInv DEF YieldsInv
<1>2. ASSUME YieldsInv, HistoryNext
      PROVE  YieldsInv'
  <2>1. HistoryInv /\ \A z \in Zones : Yields(memory[z], protected[z])
    BY <1>2 DEF YieldsInv
  <2>2. PICK state \in [Zones -> ZoneState] : \A z \in Zones :
          /\ memory'[z] = EvaluateZone(z, state[z], memory[z]).memory
          /\ protected'[z] = Streak(protected[z], ShowsProtected(state[z]))
    BY <1>2, <2>1, HistoryStep
  <2>3. ASSUME NEW z \in Zones
        PROVE  Yields(memory'[z], protected'[z])
    <3>1. memory[z] \in ZoneMemory /\ protected[z] \in Nat /\ state[z] \in ZoneState
      BY <2>1 DEF HistoryInv, ControllerTypeOK
    <3>2. Yields(EvaluateZone(z, state[z], memory[z]).memory,
                 Streak(protected[z], ShowsProtected(state[z])))
      BY <2>1, <3>1, YieldsKept
    <3> QED
      BY <2>2, <3>2
  <2>4. HistoryInv'
    BY <1>2, <2>1, HistoryStep
  <2> QED
    BY <2>3, <2>4 DEF YieldsInv, Yields
<1>3. YieldsInv /\ UNCHANGED <<controllerVars, history>> => YieldsInv'
  BY DEF YieldsInv, HistoryInv, ControllerTypeOK, Yields, controllerVars, history
<1>4. YieldsInv => RelaxationYields
  <2> SUFFICES ASSUME YieldsInv, NEW z \in Zones, memory[z].active,
                      memory[z].occupied > MinimumHold \/ protected[z] > MinimumHold
               PROVE  memory[z].command <= memory[z].native
    BY DEF RelaxationYields
  <2>1. memory[z].hold \in Nat /\ memory[z].occupied \in Nat /\ protected[z] \in Nat
    BY DEF YieldsInv, HistoryInv, ControllerTypeOK, ZoneMemory
  <2>2. ~(/\ memory[z].occupied + memory[z].hold <= MinimumHold
          /\ protected[z] + memory[z].hold <= MinimumHold)
    BY <2>1, ControllerAssumption
  <2> QED
    BY <2>2 DEF YieldsInv, Yields
<1> QED
  BY <1>1, <1>2, <1>3, <1>4, PTL DEF HistorySpec

\* For every hold, threshold and delta: a zone that has been occupied and hot
\* for more than MinimumHold evaluations is commanded to the recovery setpoint,
\* or as far towards it as the delta allows (evaluate_zone), for the zones the
\* policy may control and a recovery setpoint not under its own minimum.
THEOREM RecoveryActs ==
  ASSUME Zones \subseteq ApprovedZones, MinimumSetpoint <= RecoverySetpoint
  PROVE  HistorySpec => []RecoveryWithinHold
<1>1. HistoryInit => RecoversInv
  BY HistoryInitInv DEF RecoversInv
<1>2. ASSUME RecoversInv, HistoryNext
      PROVE  RecoversInv'
  <2>1. HistoryInv /\ \A z \in Zones : Recovers(memory[z], hot[z])
    BY <1>2 DEF RecoversInv
  <2>2. PICK state \in [Zones -> ZoneState] : \A z \in Zones :
          /\ memory'[z] = EvaluateZone(z, state[z], memory[z]).memory
          /\ hot'[z] = Streak(hot[z], ShowsHot(state[z]))
    BY <1>2, <2>1, HistoryStep
  <2>3. ASSUME NEW z \in Zones
        PROVE  Recovers(memory'[z], hot'[z])
    <3>1. memory[z] \in ZoneMemory /\ hot[z] \in Nat /\ state[z] \in ZoneState
      BY <2>1 DEF HistoryInv, ControllerTypeOK
    <3>2. Recovers(EvaluateZone(z, state[z], memory[z]).memory,
                   Streak(hot[z], ShowsHot(state[z])))
      BY <2>1, <3>1, RecoversKept
    <3> QED
      BY <2>2, <3>2
  <2>4. HistoryInv'
    BY <1>2, <2>1, HistoryStep
  <2> QED
    BY <2>3, <2>4 DEF RecoversInv, Recovers
<1>3. RecoversInv /\ UNCHANGED <<controllerVars, history>> => RecoversInv'
  BY DEF RecoversInv, HistoryInv, ControllerTypeOK, Recovers, controllerVars, history
<1>4. RecoversInv => RecoveryWithinHold
  <2> SUFFICES ASSUME RecoversInv, NEW z \in Zones, hot[z] > MinimumHold
               PROVE  /\ memory[z].active
                      /\ memory[z].command
                           <= Greater(RecoverySetpoint, memory[z].native - MaximumDelta)
    BY DEF RecoveryWithinHold
  <2>1. memory[z].hold \in Nat /\ hot[z] \in Nat
    BY DEF RecoversInv, HistoryInv, ControllerTypeOK, ZoneMemory
  <2>2. hot[z] > 0 /\ ~(hot[z] + memory[z].hold <= MinimumHold)
    BY <2>1, ControllerAssumption
  <2> QED
    BY <2>2 DEF RecoversInv, Recovers
<1> QED
  BY <1>1, <1>2, <1>3, <1>4, PTL DEF HistorySpec

=============================================================================
