------------------------------ MODULE Planning ------------------------------
(***************************************************************************)
(* Candidate plans (Module 11): the strategy templates generate_plans      *)
(* fills in for a planning context, and the validation that decides which  *)
(* of them are eligible.  Setpoints are integers (hundredths of a degree); *)
(* the position of an action in its plan is its action_sequence.  A plan's *)
(* id and fingerprint are hashes of it and of its context, so two plans    *)
(* are one plan when they are equal.                                       *)
(*                                                                         *)
(* The guard's dry run of a first action refuses none of these proposals   *)
(* (they are for the approved actuator, and a value out of bounds is       *)
(* answered with a reset, which generate_plans accepts), so eligibility is *)
(* validation.                                                             *)
(***************************************************************************)
EXTENDS Integers, Sequences

CONSTANTS
  PlanMinimum, PlanMaximum,   \* planning limits.minimum_, maximum_celsius
  PlanChange,                 \* planning limits.maximum_change_celsius
  ActionLimit,                \* action_limit_per_plan
  PlanContexts,               \* the planning contexts there may be
  None                        \* a missing effective setpoint

Deviation(a, b) == IF a >= b THEN a - b ELSE b - a

Floor(value) == IF value < PlanMinimum THEN PlanMinimum ELSE value

\* What the generator and the validator take for the setpoint in force.
CurrentSetpoint(c) == IF c.setpoint = None THEN 3000 ELSE c.setpoint
PreviousSetpoint(c) == IF c.setpoint = None THEN PlanMaximum ELSE c.setpoint

PlanAction(offset, value) == [offset |-> offset, value |-> value]

Plan(c, strategy, actions) ==
  [context |-> c, strategy |-> strategy, actions |-> actions]

\* generate_plans: three strategies always, three more where they apply.
Candidates(c) ==
  LET now == CurrentSetpoint(c)
  IN  {Plan(c, "NATIVE_HOLD", <<PlanAction(1, now)>>),
       Plan(c, "COMFORT_FIRST", <<PlanAction(1, Floor(now - 150))>>),
       Plan(c, "BALANCED", <<PlanAction(1, Floor(now - 100))>>)}
      \cup (IF c.peak /\ c.futureOccupied
              THEN {Plan(c, "PRECONDITION_BEFORE_PEAK",
                         <<PlanAction(1, now - 150), PlanAction(6, now)>>)}
              ELSE {})
      \cup (IF ~c.occupied /\ c.futureOccupied
              THEN {Plan(c, "VACANCY_RELAXATION",
                         <<PlanAction(1, now), PlanAction(4, now - 150)>>)}
              ELSE {})
      \cup (IF c.occupied /\ c.hot
              THEN {Plan(c, "OCCUPIED_RECOVERY", <<PlanAction(1, now - 150)>>)}
              ELSE {})

\* Mutant: values bounded above only.
ValidBelowMaximum(plan) ==
  LET a == plan.actions
  IN  /\ Len(a) \in 1 .. ActionLimit
      /\ \A i \in 1 .. Len(a) :
           /\ i > 1 => a[i - 1].offset < a[i].offset
           /\ a[i].value <= PlanMaximum
           /\ Deviation(a[i].value,
                        IF i = 1 THEN PreviousSetpoint(plan.context)
                                 ELSE a[i - 1].value) <= PlanChange
      /\ plan.strategy \in {"PRECONDITION_BEFORE_PEAK", "VACANCY_RELAXATION"}
           => Len(a) >= 2

\* validate_actions finds no error.
Valid(plan) ==
  LET a == plan.actions
  IN  /\ Len(a) \in 1 .. ActionLimit
      /\ \A i \in 1 .. Len(a) :
           /\ i > 1 => a[i - 1].offset < a[i].offset
           /\ a[i].value \in PlanMinimum .. PlanMaximum
           /\ Deviation(a[i].value,
                        IF i = 1 THEN PreviousSetpoint(plan.context)
                                 ELSE a[i - 1].value) <= PlanChange
      /\ plan.strategy \in {"PRECONDITION_BEFORE_PEAK", "VACANCY_RELAXATION"}
           => Len(a) >= 2

EligiblePlans(c) == {plan \in Candidates(c) : Valid(plan)}
=============================================================================
