------------------------ MODULE PlanExecutionProofs ------------------------
(***************************************************************************)
(* Theorems about PlanExecution, for every set of planning contexts and of *)
(* faults and all limits that LimitsAssumption admits.                     *)
(***************************************************************************)
EXTENDS PlanExecution, TLAPS

\* What an armed session may be given: an eligible plan, as the six templates
\* make them.
IsPlan(p) ==
  /\ Len(p.actions) \in 1 .. ActionLimit
  /\ DOMAIN p.actions = 1 .. Len(p.actions)
  /\ \A i \in 1 .. Len(p.actions) :
       /\ p.actions[i].offset \in 1 .. 6
       /\ p.actions[i].value \in PlanMinimum .. PlanMaximum
       /\ i > 1 => Deviation(p.actions[i].value, p.actions[i - 1].value) <= PlanChange
  /\ \A i, j \in 1 .. Len(p.actions) :
       i < j => p.actions[i].offset < p.actions[j].offset

-----------------------------------------------------------------------------
(* The invariants.                                                         *)

\* The approval, one for an exact plan being always live.
IsApproval ==
  /\ approval = [plan |-> approval.plan, mode |-> approval.mode,
                 exact |-> approval.exact, expired |-> approval.expired]
  /\ approval.exact => approval.mode = "LIVE_SHORT_HORIZON"

\* The approval is for the plan of its session, and a live session has a live
\* approval.
ArmedInv ==
  /\ build \in PlanContexts
  /\ package \in EligiblePlans(build)
  /\ approval # None => IsApproval
  /\ phase # "IDLE" =>
       /\ runner \in Runners
       /\ IsPlan(plan)
       /\ runner # "short" =>
            /\ plan = approval.plan
            /\ live => approval.mode = "LIVE_SHORT_HORIZON"

\* How far the session is.
ClockInv ==
  /\ clock \in Int /\ sequence \in Nat
  /\ live \in BOOLEAN /\ handle \in {"unknown", "found", "missing"}
  /\ phase \in {"IDLE", "EXECUTING", "FALLBACK_ACTIVE", "RESETTING_TO_NATIVE",
                "STOPPING", "ENDED"}
  /\ runner = "orchestrator" =>
       /\ phase \in {"IDLE", "EXECUTING", "FALLBACK_ACTIVE", "ENDED"}
       /\ phase = "EXECUTING" => sequence = clock
       /\ handle = "unknown"
  /\ phase = "FALLBACK_ACTIVE" => failed
  /\ IF runner = "aligned" THEN clock >= -1 /\ (sequence <= clock \/ sequence = 0)
                            ELSE clock >= 0
  /\ phase = "RESETTING_TO_NATIVE" => live /\ sequence >= Horizon

\* What the guard remembers is about the actions before the next, or the next is
\* refused for good.
MemoryInv ==
  /\ ~disabled /\ ~shutdown /\ context = SessionContext
  /\ lastValid \in Nat /\ (lastValid < sequence \/ lastValid = 0)
  /\ lastSafe \in Guard!Decision \cup {None}
  /\ observed \in [NoId .. ActionLimit -> Guard!Decision \cup {None}]
  /\ \A id \in 1 .. ActionLimit :
       observed[id] # None =>
         id <= done + 1 /\ observed[id].proposal.validFrom <= sequence
  /\ observed[ResetId] # None => observed[ResetId].applied = None
  /\ lastSafe # None /\ done < ActionLimit =>
       \/ observed[done + 1] # None
       \/ done >= 1 /\ lastSafe.applied = plan.actions[done].value

\* What was executed is the beginning of the plan.
ProgressInv ==
  /\ done \in Nat
  /\ executed \in Seq([value : Int, at : Int])
  /\ Len(executed) = done
  /\ IF phase = "IDLE" THEN done = 0 ELSE done <= Len(plan.actions)
  /\ ExecutedAsPlanned

\* The actuator holds a value of the plan, and a session that could not reset
\* it does not pass.
ReleaseInv ==
  /\ override # None =>
       /\ phase # "IDLE" /\ live
       /\ \E i \in DOMAIN plan.actions : override = plan.actions[i].value
  /\ runner # "orchestrator" /\ handle # "found" => override = None
  /\ runner # "orchestrator" /\ live /\ resetOk => override = None /\ sequence >= Horizon
  /\ runner = "orchestrator" /\ phase # "ENDED" => observed[ResetId] = None
  /\ SessionsRelease

\* A session that meets no fault.
FaultlessInv ==
  faults = {} /\ phase # "IDLE" =>
    /\ ~failed
    /\ done < Len(plan.actions) => observed[done + 1] = None
    /\ \A i \in DOMAIN plan.actions : plan.actions[i].offset <= clock => i <= done
    /\ sequence = IF clock < 0 THEN 0 ELSE clock
    /\ phase # "ENDED" => observed[ResetId] = None \/ phase = "STOPPING"
    /\ runner # "orchestrator" /\ phase # "ENDED" =>
         /\ recorded = sequence
         /\ ~stopRequested \/ phase = "STOPPING"
         /\ ~live => resetOk
         /\ phase = "STOPPING" => resetOk
         /\ IF phase = "EXECUTING" THEN clock < Horizon ELSE clock = Horizon
    /\ runner = "aligned" => (initial <=> clock >= 0)
    /\ phase = "ENDED" => passed

ExecutionInv ==
  ArmedInv /\ ClockInv /\ MemoryInv /\ ProgressInv /\ ReleaseInv /\ FaultlessInv

-----------------------------------------------------------------------------
(* Plans.                                                                  *)

LEMMA Limits ==
  /\ Minimum \in Int /\ PlanMinimum \in Int /\ PlanMaximum \in Int /\ Maximum \in Int
  /\ Minimum <= PlanMinimum /\ PlanMaximum <= Maximum
  /\ PlanChange \in Int /\ MaximumStep \in Nat /\ StepPerTimestep \in Nat
  /\ PlanChange <= MaximumStep /\ PlanChange <= StepPerTimestep
  /\ MaximumStateAge \in Nat /\ ActionLimit \in Nat /\ Ttl \in Nat
  /\ Hold \in Nat /\ Horizon \in Nat \ {0} /\ 6 + Hold <= Horizon
BY LimitsAssumption, ExecutionAssumption

LEMMA Multiples ==
  ASSUME NEW a \in Nat, NEW g \in Nat \ {0}
  PROVE  a * g \in Int /\ a * g >= a
<1>1. \A b \in Nat : a * (b + 1) = a * b + a /\ a * b \in Nat
  OBVIOUS
<1>2. PICK b \in Nat : g = b + 1
  <2>1. g - 1 \in Nat /\ g = (g - 1) + 1
    OBVIOUS
  <2> QED
    BY <2>1
<1>3. a * g = a * b + a /\ a * b \in Nat
  BY <1>1, <1>2
<1>4. PICK c \in Nat : c = a * b
  BY <1>3
<1>5. a * g = c + a
  BY <1>3, <1>4
<1> QED
  BY <1>5

LEMMA PlanFacts ==
  ASSUME NEW c, NEW p \in EligiblePlans(c)
  PROVE  IsPlan(p)
<1>1. p \in Candidates(c) /\ Valid(p)
  BY DEF EligiblePlans
<1>2. \E a, b : \/ p.actions = <<PlanAction(1, a)>>
               \/ p.actions = <<PlanAction(1, a), PlanAction(6, b)>>
               \/ p.actions = <<PlanAction(1, a), PlanAction(4, b)>>
  BY <1>1 DEF Candidates, Plan
<1>3. PICK a, b : \/ p.actions = <<PlanAction(1, a)>>
                  \/ p.actions = <<PlanAction(1, a), PlanAction(6, b)>>
                  \/ p.actions = <<PlanAction(1, a), PlanAction(4, b)>>
  BY <1>2
<1>4. /\ DOMAIN p.actions = 1 .. Len(p.actions)
      /\ \A i \in 1 .. Len(p.actions) : p.actions[i].offset \in 1 .. 6
      /\ \A i, j \in 1 .. Len(p.actions) :
           i < j => p.actions[i].offset < p.actions[j].offset
  BY <1>3 DEF PlanAction
<1>5. /\ Len(p.actions) \in 1 .. ActionLimit
      /\ \A i \in 1 .. Len(p.actions) :
           /\ p.actions[i].value \in PlanMinimum .. PlanMaximum
           /\ i > 1 => Deviation(p.actions[i].value, p.actions[i - 1].value) <= PlanChange
  BY <1>1 DEF Valid
<1> QED
  BY <1>4, <1>5 DEF IsPlan

LEMMA ShortPlanFacts == IsPlan(ShortPlan)
<1>1. \E p \in Candidates(CanonicalContext) : p.strategy = "COMFORT_FIRST"
  <2>1. PICK a : Plan(CanonicalContext, "COMFORT_FIRST", a) \in Candidates(CanonicalContext)
    BY DEF Candidates
  <2> QED
    BY <2>1 DEF Plan
<1>2. ShortPlan \in EligiblePlans(CanonicalContext)
  BY <1>1, LimitsAssumption DEF ShortPlan, EligiblePlans
<1> QED
  BY <1>2, PlanFacts

\* An action is given to the guard within the first timesteps.
LEMMA ActionFacts ==
  ASSUME IsPlan(plan), done \in Nat, done < Len(plan.actions)
  PROVE  /\ done + 1 \in 1 .. Len(plan.actions) /\ done + 1 \in NoId .. ActionLimit
         /\ done < ActionLimit
         /\ NextAction.value \in Int /\ NextAction.value \in Minimum .. Maximum
         /\ NextAction.offset \in 1 .. 6
         /\ done >= 1 =>
              /\ plan.actions[done].value \in Int
              /\ Deviation(NextAction.value, plan.actions[done].value) <= PlanChange
<1>1. Len(plan.actions) \in Nat /\ ActionLimit \in Nat /\ Len(plan.actions) <= ActionLimit
  BY LimitsAssumption DEF IsPlan
<1>2. done + 1 \in 1 .. Len(plan.actions) /\ done + 1 \in NoId .. ActionLimit /\ done < ActionLimit
  BY <1>1 DEF NoId
<1>3. /\ NextAction.value \in PlanMinimum .. PlanMaximum
      /\ NextAction.offset \in 1 .. 6
  BY <1>2 DEF NextAction, IsPlan
<1>4. CASE done >= 1
  <2>1. done \in 1 .. Len(plan.actions) /\ done + 1 > 1 /\ (done + 1) - 1 = done
    BY <1>1, <1>4
  <2>2. Deviation(NextAction.value, plan.actions[done].value) <= PlanChange
    BY <1>2, <2>1 DEF NextAction, IsPlan
  <2>3. plan.actions[done].value \in PlanMinimum .. PlanMaximum
    BY <2>1 DEF IsPlan
  <2>4. plan.actions[done].value \in Int /\ NextAction.value \in Minimum .. Maximum
    BY <1>3, <2>3, Limits
  <2> QED
    BY <1>2, <1>3, <2>2, <2>3, <2>4
<1> QED
  BY <1>2, <1>3, <1>4, LimitsAssumption

-----------------------------------------------------------------------------
(* The guard, asked for an action or for the reset.                        *)

LEMMA ProposalFacts ==
  ASSUME NEW id \in NoId .. ActionLimit, NEW value \in Int, NEW s \in Int,
         NEW fit \in BOOLEAN
  PROVE  Proposal(id, value, s, fit) \in Guard!Proposal
<1>1. SessionContext \in Guard!Context
  BY DEF SessionContext, Names, Guard!Context
<1>2. Space3 \in Guard!Actuator
  BY DEF Space3, Names, Guard!Actuator
<1>3. s + Ttl \in Int
  BY ExecutionAssumption
<1>4. "SPACE3-1" \in Names
  BY DEF Names
<1> QED
  BY <1>1, <1>2, <1>3, <1>4 DEF Proposal, Guard!Proposal

\* Without a store evaluate ends in _finish, unless it repeats an answer.
LEMMA Finishes ==
  ASSUME NEW p, p.value \in Int, NEW d, Guard!Evaluate(p, d), ~Guard!ExactDuplicate(p)
  PROVE  /\ d = Guard!Judgement(p)
         /\ IF d.reason = "conflicting_duplicate" THEN UNCHANGED Guard!memoryVars
                                                  ELSE Guard!Remember(d)
<1>1. Guard!Judgement(p).proposal = p
  BY DEF Guard!Judgement, Guard!JudgeNew, Guard!JudgeValue, Guard!Recover, Guard!Reset,
     Guard!Reject, Guard!Decided
<1>2. ~Guard!Crashes(Guard!Judgement(p))
  BY <1>1, LimitsAssumption DEF Guard!Crashes
<1> QED
  BY <1>2 DEF Guard!Evaluate, Guard!ReturnOriginal, Guard!FailInternally, Guard!FailClosed,
     Guard!Finish

LEMMA ActionJudged ==
  ASSUME IsPlan(plan), ClockInv, MemoryInv, done \in Nat, done < Len(plan.actions),
         NEW s \in Nat, s > sequence,
         NEW d, Guard!Evaluate(Proposal(done + 1, NextAction.value, s, TRUE), d)
  PROVE  IF observed[done + 1] = None
           THEN /\ d \in Guard!Decision
                /\ d.proposal = Proposal(done + 1, NextAction.value, s, TRUE)
                /\ d.outcome = "ALLOW" /\ d.applied = NextAction.value
                /\ Guard!Remember(d)
           ELSE ~Guard!IsCommand(d) /\ UNCHANGED Guard!memoryVars
<1>0. PICK p : p = Proposal(done + 1, NextAction.value, s, TRUE)
  OBVIOUS
<1>1. /\ p.id = done + 1 /\ p.context = SessionContext /\ p.environment = 3
      /\ p.zone = "SPACE3-1" /\ p.actuator = Space3 /\ p.value = NextAction.value
      /\ p.source = s - 1 /\ p.decided = s - 1 /\ p.validFrom = s
      /\ p.expires = s + Ttl /\ p.current = s /\ ~p.warmup /\ p.ready
      /\ ~p.reset /\ p.schema = 1
  <2>1. done + 1 # ResetId
    BY DEF ResetId
  <2> QED
    BY <1>0, <2>1, Zenon DEF Proposal
<1>2. ~Guard!ExactDuplicate(p)
  <2>1. observed[done + 1] # None => observed[done + 1].proposal.validFrom <= sequence
    <3>1. done + 1 \in 1 .. ActionLimit
      BY ActionFacts, Limits
    <3> QED
      BY <3>1 DEF MemoryInv
  <2> QED
    BY <1>1, <2>1 DEF Guard!ExactDuplicate, ClockInv
<1>3. /\ d = Guard!Judgement(p)
      /\ IF d.reason = "conflicting_duplicate" THEN UNCHANGED Guard!memoryVars
                                               ELSE Guard!Remember(d)
  BY <1>0, <1>1, <1>2, ActionFacts, Finishes
<1>4. d = IF observed[done + 1] # None THEN Guard!Reject(p, "conflicting_duplicate")
                                      ELSE Guard!JudgeNew(p)
  BY <1>1, <1>3, ActionFacts DEF Guard!Judgement, MemoryInv, NoId
<1>5. CASE observed[done + 1] = None
  <2>1. Guard!JudgeNew(p) = Guard!JudgeValue(p)
    <3>1. Guard!IdentityReason(p) = None
      BY <1>1 DEF Guard!IdentityReason, Space3
    <3>2. /\ ~(p.source < lastValid) /\ ~(p.source >= p.validFrom \/ p.source > p.decided)
          /\ ~(p.current < p.validFrom) /\ ~(p.current > p.expires)
          /\ ~(p.current - p.source > MaximumStateAge + 1)
      BY <1>1, Limits DEF MemoryInv, ClockInv
    <3>3. p.context = context /\ p.context.run = context.run /\ p.environment \in {3}
      BY <1>1 DEF MemoryInv
    <3> QED
      BY <1>1, <3>1, <3>2, <3>3 DEF Guard!JudgeNew
  <2>2. Guard!JudgeValue(p) = Guard!Decided(p, "ALLOW", "allowed", p.value)
    <3>1. p.value \notin Guard!Unusable
      BY <1>1, ActionFacts, LimitsAssumption DEF Guard!Unusable
    <3>2. Guard!Lesser(Guard!Greater(p.value, Minimum), Maximum) = p.value
      BY <1>1, ActionFacts, LimitsAssumption DEF Guard!Lesser, Guard!Greater
    <3>3. lastSafe # None => ~(Guard!Distance(p.value, lastSafe.applied) > Guard!Permitted(p))
      <4>1. SUFFICES ASSUME lastSafe # None
                     PROVE  Guard!Distance(p.value, lastSafe.applied) <= Guard!Permitted(p)
                            /\ Guard!Distance(p.value, lastSafe.applied) \in Int
                            /\ Guard!Permitted(p) \in Int
        OBVIOUS
      <4>2. done >= 1 /\ lastSafe.applied = plan.actions[done].value
        BY <1>5, <4>1, ActionFacts DEF MemoryInv
      <4>3. /\ Guard!Distance(p.value, lastSafe.applied) <= PlanChange
            /\ Guard!Distance(p.value, lastSafe.applied) \in Int
        BY <1>1, <4>2, ActionFacts DEF Guard!Distance, Deviation
      <4>4. PICK n \in Int : n = p.source - lastSafe.proposal.source
        <5>1. lastSafe.proposal.source \in Int
          BY <4>1 DEF MemoryInv, Guard!Decision, Guard!Proposal
        <5> QED
          BY <1>1, <5>1
      <4>5. Guard!Greater(1, n) \in Nat \ {0}
        BY DEF Guard!Greater
      <4>6. PICK g \in Nat \ {0} : g = Guard!Greater(1, n)
        BY <4>5
      <4>7. StepPerTimestep * g \in Int /\ StepPerTimestep * g >= StepPerTimestep
        <5>1. StepPerTimestep \in Nat
          BY Limits
        <5> QED
          BY <5>1, Multiples
      <4>8. Guard!Permitted(p) \in Int /\ Guard!Permitted(p) >= PlanChange
        <5>1. PICK k \in Int : k = StepPerTimestep * g
          BY <4>7
        <5>2. k >= PlanChange /\ MaximumStep >= PlanChange
          BY <4>7, <5>1, Limits
        <5>3. Guard!Permitted(p) = IF MaximumStep <= k THEN MaximumStep ELSE k
          BY <4>4, <4>6, <5>1 DEF Guard!Permitted, Guard!Lesser
        <5> QED
          BY <5>2, <5>3, Limits
      <4> QED
        BY <4>3, <4>8, Limits
    <3> QED
      BY <3>1, <3>2, <3>3 DEF Guard!JudgeValue
  <2>3. d = Guard!Decided(p, "ALLOW", "allowed", NextAction.value)
    BY <1>1, <1>4, <1>5, <2>1, <2>2
  <2>4. p \in Guard!Proposal
    <3>1. s \in Int /\ TRUE \in BOOLEAN /\ done + 1 \in NoId .. ActionLimit
          /\ NextAction.value \in Int
      BY ActionFacts
    <3> QED
      BY <1>0, <3>1, ProposalFacts, Zenon
  <2>5. d \in Guard!Decision
    BY <2>3, <2>4, ActionFacts DEF Guard!Decision, Guard!Decided, Guard!Outcomes,
       Guard!SetOutcomes, Guard!Reasons
  <2> QED
    <3>1. d.outcome = "ALLOW" /\ d.applied = NextAction.value /\ d.reason = "allowed"
          /\ d.proposal = p
      BY <2>3 DEF Guard!Decided
    <3> QED
      BY <1>0, <1>3, <1>5, <2>5, <3>1
<1>6. CASE observed[done + 1] # None
  BY <1>3, <1>4, <1>6 DEF Guard!Reject, Guard!Decided, Guard!IsCommand
<1> QED
  BY <1>5, <1>6

LEMMA ResetJudged ==
  ASSUME ClockInv, MemoryInv, NEW s \in Nat, s >= sequence, NEW fit \in BOOLEAN,
         NEW d, Guard!Evaluate(ResetProposal(s, fit), d)
  PROVE  /\ UNCHANGED <<disabled, shutdown, context, lastSafe>>
         /\ lastValid' \in Nat /\ (lastValid' < s \/ lastValid' = 0)
         /\ \E answer \in Guard!Decision \cup {None} :
              /\ observed' = [observed EXCEPT ![ResetId] = answer]
              /\ answer # None => answer.applied = None
         /\ d.applied = None
         /\ fit /\ observed[ResetId] = None => d.outcome = "RESET_TO_NATIVE"
<1>0. PICK p : p = ResetProposal(s, fit)
  OBVIOUS
<1>1. /\ p.id = ResetId /\ p.context = SessionContext /\ p.environment = 3
      /\ p.zone = "SPACE3-1" /\ p.actuator = Space3 /\ p.value = 2200
      /\ p.source = s - 1 /\ p.decided = s - 1 /\ p.validFrom = s
      /\ p.expires = s + Ttl /\ p.current = s /\ p.schema = 1
      /\ (p.warmup <=> ~fit) /\ p.ready /\ p.reset
  <2>1. p = Proposal(ResetId, 2200, s, fit)
    BY <1>0 DEF ResetProposal
  <2>2. /\ p.id = ResetId /\ p.context = SessionContext /\ p.environment = 3
        /\ p.zone = "SPACE3-1" /\ p.actuator = Space3 /\ p.value = 2200
        /\ p.source = s - 1 /\ p.decided = s - 1 /\ p.validFrom = s
        /\ p.expires = s + Ttl /\ p.current = s /\ p.schema = 1
    BY <2>1 DEF Proposal
  <2>3. (p.warmup <=> ~fit) /\ p.ready /\ p.reset
    BY <2>1, Zenon DEF Proposal
  <2> QED
    BY <2>2, <2>3
<1>2. p \in Guard!Proposal
  <2>1. s \in Int /\ ResetId \in NoId .. ActionLimit /\ 2200 \in Int
    BY Limits DEF ResetId, NoId
  <2> QED
    BY <1>0, <2>1, ProposalFacts DEF ResetProposal
<1>3. ResetId \in NoId .. ActionLimit /\ ResetId # NoId
  BY Limits DEF ResetId, NoId
<1>4. CASE Guard!ExactDuplicate(p)
  <2>1. d = observed[ResetId] /\ UNCHANGED Guard!memoryVars /\ observed[ResetId] # None
    BY <1>0, <1>1, <1>4 DEF Guard!Evaluate, Guard!ReturnOriginal, Guard!FailInternally,
       Guard!FailClosed, Guard!Finish, Guard!ExactDuplicate
  <2>2. observed' = [observed EXCEPT ![ResetId] = observed[ResetId]]
    BY <1>3, <2>1 DEF MemoryInv, Guard!memoryVars
  <2>3. observed[ResetId] \in Guard!Decision \cup {None}
    BY <1>3 DEF MemoryInv
  <2> QED
    BY <2>1, <2>2, <2>3 DEF MemoryInv, ClockInv, Guard!memoryVars
<1>5. CASE ~Guard!ExactDuplicate(p)
  <2>1. /\ d = Guard!Judgement(p)
        /\ IF d.reason = "conflicting_duplicate" THEN UNCHANGED Guard!memoryVars
                                                 ELSE Guard!Remember(d)
    BY <1>0, <1>1, <1>5, Finishes
  <2>2. fit => /\ Guard!IdentityReason(p) = None
               /\ ~(p.source >= p.validFrom \/ p.source > p.decided)
               /\ ~(p.current < p.validFrom) /\ ~(p.current > p.expires)
               /\ ~(p.current - p.source > MaximumStateAge + 1)
               /\ p.context = context /\ p.context.run = context.run /\ p.environment \in {3}
    <3>0. p.zone = "SPACE3-1" /\ p.actuator = Space3
      BY <1>1
    <3>1. Guard!IdentityReason(p) = None
      BY <3>0 DEF Guard!IdentityReason, Space3
    <3>2. /\ ~(p.source >= p.validFrom \/ p.source > p.decided)
          /\ ~(p.current < p.validFrom) /\ ~(p.current > p.expires)
          /\ ~(p.current - p.source > MaximumStateAge + 1)
      BY <1>1, Limits
    <3> QED
      BY <1>1, <3>1, <3>2 DEF MemoryInv
  <2>3. \/ d = Guard!Reject(p, "warmup_state_rejected") /\ ~fit
        \/ d = Guard!Reject(p, "conflicting_duplicate") /\ observed[ResetId] # None
        \/ d = Guard!Reset(p, "non_monotonic_state")
        \/ d = Guard!Reset(p, "allowed_native_reset")
    BY <1>1, <1>3, <2>1, <2>2 DEF Guard!Judgement, Guard!JudgeNew, MemoryInv
  <2>4. /\ d.proposal = p /\ d.applied = None
        /\ fit /\ observed[ResetId] = None => d.outcome = "RESET_TO_NATIVE"
        /\ d.outcome \in {"RESET_TO_NATIVE", "REJECT_NO_WRITE"}
        /\ d.reason = "conflicting_duplicate" => observed[ResetId] # None
    BY <2>3 DEF Guard!Reset, Guard!Reject, Guard!Decided
  <2>5. d \in Guard!Decision
    BY <1>2, <2>3 DEF Guard!Reset, Guard!Reject, Guard!Decided, Guard!Decision,
       Guard!Outcomes, Guard!SetOutcomes, Guard!Reasons
  <2>6. CASE UNCHANGED Guard!memoryVars
    <3>1. observed' = [observed EXCEPT ![ResetId] = observed[ResetId]]
      BY <1>3, <2>6 DEF MemoryInv, Guard!memoryVars
    <3>2. observed[ResetId] \in Guard!Decision \cup {None}
      BY <1>3 DEF MemoryInv
    <3> QED
      BY <2>4, <2>6, <3>1, <3>2 DEF MemoryInv, ClockInv, Guard!memoryVars
  <2>7. CASE Guard!Remember(d)
    <3>1. observed' = [observed EXCEPT ![ResetId] = d]
      BY <1>1, <2>4, <2>7 DEF Guard!Remember
    <3>2. UNCHANGED <<disabled, shutdown, context, lastSafe>>
      BY <2>4, <2>7 DEF Guard!Remember, Guard!SetOutcomes
    <3>3. lastValid' \in Nat /\ (lastValid' < s \/ lastValid' = 0)
      BY <1>1, <2>4, <2>7 DEF Guard!Remember, Guard!Greater, MemoryInv, ClockInv
    <3> QED
      BY <2>4, <2>5, <3>1, <3>2, <3>3
  <2> QED
    BY <2>1, <2>6, <2>7
<1> QED
  BY <1>4, <1>5

-----------------------------------------------------------------------------
(* What a step does to the plan and to the guard.                          *)

LEMMA QuietStep ==
  ASSUME ClockInv, MemoryInv, ProgressInv, UNCHANGED <<plan, done, executed, guardVars>>,
         sequence' \in Nat, sequence' >= sequence, phase # "IDLE", phase' # "IDLE"
  PROVE  MemoryInv' /\ ProgressInv'
<1> USE DEF guardVars
<1>1. MemoryInv'
  <2>1. /\ lastValid' \in Nat /\ (lastValid' < sequence' \/ lastValid' = 0)
        /\ lastSafe' \in Guard!Decision \cup {None}
        /\ observed' \in [NoId .. ActionLimit -> Guard!Decision \cup {None}]
        /\ ~disabled' /\ ~shutdown' /\ context' = SessionContext
    BY DEF MemoryInv, ClockInv
  <2>2. ASSUME NEW id \in 1 .. ActionLimit, observed[id] # None
        PROVE  id <= done + 1 /\ observed[id].proposal.validFrom <= sequence'
    <3>1. id <= done + 1 /\ observed[id].proposal.validFrom <= sequence
      BY <2>2 DEF MemoryInv
    <3>2. observed[id].proposal.validFrom \in Int
      <4>1. observed[id] \in Guard!Decision
        BY <2>2, Limits DEF MemoryInv, NoId
      <4> QED
        BY <4>1 DEF Guard!Decision, Guard!Proposal
    <3> QED
      BY <3>1, <3>2 DEF ClockInv
  <2> QED
    BY <2>1, <2>2 DEF MemoryInv
<1>2. ProgressInv'
  BY DEF ProgressInv, ExecutedAsPlanned
<1> QED
  BY <1>1, <1>2

\* An action that the guard has answered is remembered under its id.
LEMMA RememberStep ==
  ASSUME IsPlan(plan), ClockInv, MemoryInv, done \in Nat, done < Len(plan.actions),
         NEW s \in Nat, s > sequence, sequence' = s, UNCHANGED plan,
         NEW d \in Guard!Decision, Guard!Remember(d),
         d.proposal = Proposal(done + 1, NextAction.value, s, TRUE),
         d.outcome = "ALLOW", d.applied = NextAction.value,
         done' \in {done, done + 1}
  PROVE  MemoryInv' /\ observed' = [observed EXCEPT ![done + 1] = d] /\ d # None
<1>1. d.proposal.id = done + 1 /\ d.proposal.source = s - 1 /\ d.proposal.validFrom = s
  BY DEF Proposal
<1>2. observed' = [observed EXCEPT ![done + 1] = d] /\ d # None
  BY <1>1, NoneAssumption DEF Guard!Remember
<1>3. /\ lastValid' \in Nat /\ (lastValid' < s \/ lastValid' = 0)
      /\ lastSafe' = d
      /\ ~disabled' /\ ~shutdown' /\ context' = SessionContext
  <2>1. lastValid' = Guard!Greater(lastValid, s - 1)
    BY <1>1 DEF Guard!Remember
  <2>2. lastValid' \in Nat /\ (lastValid' < s \/ lastValid' = 0)
    BY <2>1 DEF Guard!Greater, MemoryInv, ClockInv
  <2>3. lastSafe' = d /\ UNCHANGED <<disabled, shutdown, context>>
    BY DEF Guard!Remember, Guard!SetOutcomes
  <2> QED
    BY <2>2, <2>3 DEF MemoryInv
<1>4. observed' \in [NoId .. ActionLimit -> Guard!Decision \cup {None}]
  BY <1>2 DEF MemoryInv
<1>5. ASSUME NEW id \in 1 .. ActionLimit, observed'[id] # None
      PROVE  id <= done' + 1 /\ observed'[id].proposal.validFrom <= s
  <2>1. id \in NoId .. ActionLimit
    BY Limits DEF NoId
  <2>2. CASE id = done + 1
    <3>1. observed'[id] = d
      BY <1>2, <2>1, <2>2 DEF MemoryInv
    <3>2. id <= done' + 1
      BY <2>2
    <3>3. observed'[id].proposal.validFrom = s
      BY <1>1, <3>1, Zenon
    <3>4. s <= s
      OBVIOUS
    <3> QED
      BY <3>2, <3>3, <3>4, Zenon
  <2>3. CASE id # done + 1
    <3>1. observed'[id] = observed[id]
      BY <1>2, <2>1, <2>3 DEF MemoryInv
    <3>2. id <= done + 1 /\ observed[id].proposal.validFrom <= sequence
      BY <1>5, <3>1 DEF MemoryInv
    <3>3. observed[id] \in Guard!Decision
      BY <1>5, <2>1, <3>1 DEF MemoryInv
    <3>4. observed[id].proposal.validFrom \in Int
      BY <3>3 DEF Guard!Decision, Guard!Proposal
    <3>5. PICK from \in Int : from = observed[id].proposal.validFrom
      BY <3>4
    <3>6. from <= s
      <4>1. sequence \in Int
        BY DEF ClockInv
      <4>2. from <= sequence
        BY <3>2, <3>5
      <4> QED
        BY <4>1, <4>2
    <3>7. id <= done' + 1
      <4>1. PICK later \in Nat : later = done'
        OBVIOUS
      <4>2. done <= later
        BY <4>1
      <4>3. id <= done + 1
        BY <3>2
      <4>4. id <= later + 1
        BY <4>2, <4>3, Limits
      <4> QED
        BY <4>1, <4>4
    <3> QED
      BY <3>1, <3>5, <3>6, <3>7, Zenon
  <2> QED
    BY <2>2, <2>3
<1>6. observed'[ResetId] = observed[ResetId]
  BY <1>2, Limits DEF MemoryInv, NoId, ResetId
<1>7. done' < ActionLimit =>
        \/ observed'[done' + 1] # None
        \/ done' >= 1 /\ d.applied = plan'.actions[done'].value
  <2>1. CASE done' = done
    <3>1. observed'[done + 1] = d
      BY <1>2, ActionFacts DEF MemoryInv
    <3>2. observed'[done' + 1] = d
      BY <2>1, <3>1
    <3> QED
      BY <1>2, <3>2, Zenon
  <2>2. CASE done' = done + 1
    BY <2>2 DEF NextAction
  <2> QED
    BY <2>1, <2>2
<1>8. MemoryInv'
  BY <1>3, <1>4, <1>5, <1>6, <1>7 DEF MemoryInv
<1> QED
  BY <1>2, <1>8

LEMMA DueFacts ==
  ASSUME IsPlan(plan), ProgressInv, phase # "IDLE", NEW s \in Nat
  PROVE  /\ (Due(s) # "none") => done < Len(plan.actions) /\ s >= NextAction.offset
         /\ Due(s) = "due" => s <= NextAction.offset + Hold /\ s <= 6 + Hold
         /\ Due(s) = "late" => s > NextAction.offset + Hold
         /\ Due(s) = "none" /\ done < Len(plan.actions) => s < NextAction.offset
<1>1. done <= Len(plan.actions) /\ done \in Nat /\ Len(plan.actions) \in Nat
  BY Limits DEF ProgressInv, IsPlan
<1>2. CASE done = Len(plan.actions)
  BY <1>1, <1>2 DEF Due
<1>3. CASE done < Len(plan.actions)
  <2>1. NextAction.offset \in 1 .. 6
    BY <1>1, <1>3, ActionFacts
  <2> QED
    BY <1>1, <1>3, <2>1, Limits DEF Due
<1> QED
  BY <1>1, <1>2, <1>3

LEMMA ExecutesStep ==
  ASSUME IsPlan(plan), ClockInv, MemoryInv, ProgressInv, phase # "IDLE", phase' # "IDLE",
         NEW s \in Nat, s > sequence, sequence' = s, UNCHANGED plan, Executes(s)
  PROVE  /\ MemoryInv' /\ ProgressInv'
         /\ Due(s) = "due" /\ done' = done + 1
         /\ observed'[ResetId] = observed[ResetId]
         /\ done' < Len(plan.actions) => observed'[done' + 1] = None
         /\ \/ override' = override
            \/ /\ live /\ handle' # "missing"
               /\ \E i \in DOMAIN plan.actions : override' = plan.actions[i].value
<1>1. done \in Nat /\ done < Len(plan.actions) /\ Due(s) = "due"
  BY DueFacts DEF Executes, ProgressInv
<1>2. PICK d : /\ Guard!Evaluate(Proposal(done + 1, NextAction.value, s, TRUE), d)
               /\ Guard!IsCommand(d)
               /\ override' = Written(d)
               /\ executed' = Append(executed, [value |-> d.applied, at |-> s])
  BY DEF Executes
<1>3. /\ d \in Guard!Decision
      /\ d.proposal = Proposal(done + 1, NextAction.value, s, TRUE)
      /\ d.outcome = "ALLOW" /\ d.applied = NextAction.value
      /\ Guard!Remember(d)
  BY <1>1, <1>2, ActionJudged
<1>4. done' = done + 1
  BY DEF Executes, Completed
<1>5. MemoryInv' /\ observed' = [observed EXCEPT ![done + 1] = d]
  BY <1>1, <1>3, <1>4, RememberStep
<1>6. observed'[ResetId] = observed[ResetId]
  BY <1>1, <1>5, Limits DEF MemoryInv, ResetId, NoId
<1>7. ProgressInv'
  <2>1. NextAction.value \in Int /\ NextAction = plan.actions[done + 1]
        /\ done + 1 \in DOMAIN plan.actions /\ NextAction.offset \in 1 .. 6
    BY <1>1, ActionFacts DEF NextAction, IsPlan
  <2>2. executed' = Append(executed, [value |-> NextAction.value, at |-> s])
    BY <1>2, <1>3
  <2>3. /\ executed' \in Seq([value : Int, at : Int]) /\ Len(executed') = done'
        /\ \A i \in 1 .. done : executed'[i] = executed[i]
        /\ executed'[done + 1] = [value |-> NextAction.value, at |-> s]
        /\ DOMAIN executed' = 1 .. done + 1 /\ DOMAIN executed = 1 .. done
    BY <1>4, <2>1, <2>2 DEF ProgressInv
  <2>4. s - NextAction.offset \in 0 .. Hold
    <3>1. s >= NextAction.offset /\ s <= NextAction.offset + Hold
      BY <1>1, DueFacts
    <3>2. NextAction.offset \in Int
      BY <2>1
    <3> QED
      BY <3>1, <3>2, Limits
  <2>5. ASSUME NEW i \in DOMAIN executed'
        PROVE  /\ i \in DOMAIN plan.actions
               /\ executed'[i].value = plan.actions[i].value
               /\ executed'[i].at - plan.actions[i].offset \in 0 .. Hold
    <3>1. CASE i = done + 1
      BY <2>1, <2>3, <2>4, <3>1
    <3>2. CASE i # done + 1
      <4>1. i \in 1 .. done
        BY <1>1, <2>3, <3>2
      <4>2. i \in DOMAIN executed /\ executed'[i] = executed[i]
        BY <2>3, <4>1
      <4> QED
        BY <4>2 DEF ProgressInv, ExecutedAsPlanned
    <3> QED
      BY <3>1, <3>2
  <2>6. ExecutedAsPlanned'
    BY <2>5 DEF ExecutedAsPlanned
  <2>7. done' \in Nat /\ done' <= Len(plan'.actions)
    BY <1>1, <1>4, Limits DEF IsPlan
  <2> QED
    BY <2>3, <2>6, <2>7 DEF ProgressInv
<1>8. done' < Len(plan.actions) => observed'[done' + 1] = None
  <2>1. SUFFICES ASSUME done' < Len(plan.actions) PROVE observed'[done' + 1] = None
    OBVIOUS
  <2>2. done + 2 \in 1 .. ActionLimit /\ done + 2 \in NoId .. ActionLimit
    BY <1>1, <1>4, <2>1, Limits DEF IsPlan, NoId
  <2>3. observed[done + 2] = None
    BY <1>1, <2>2 DEF MemoryInv
  <2>4. observed'[done + 2] = None
    BY <1>1, <1>5, <2>2, <2>3 DEF MemoryInv
  <2> QED
    BY <1>1, <1>4, <2>4
<1>9. \/ override' = override
      \/ /\ live /\ handle' # "missing"
         /\ \E i \in DOMAIN plan.actions : override' = plan.actions[i].value
  <2>1. done + 1 \in DOMAIN plan.actions
    BY <1>1, ActionFacts DEF IsPlan
  <2> QED
    <3>1. \/ override' = override
          \/ live /\ handle' # "missing" /\ override' = d.applied
      BY <1>2 DEF Written
    <3>2. d.applied = plan.actions[done + 1].value
      BY <1>3 DEF NextAction
    <3> QED
      BY <2>1, <3>1, <3>2
<1> QED
  BY <1>1, <1>4, <1>5, <1>6, <1>7, <1>8, <1>9

LEMMA RefusedStep ==
  ASSUME IsPlan(plan), ClockInv, MemoryInv, ProgressInv, phase # "IDLE", phase' # "IDLE",
         NEW s \in Nat, s > sequence, sequence' = s, UNCHANGED plan, Refused(s)
  PROVE  /\ MemoryInv' /\ ProgressInv'
         /\ UNCHANGED <<done, override>>
         /\ observed'[ResetId] = observed[ResetId]
         /\ \/ Due(s) = "late"
            \/ done < Len(plan.actions) /\ observed[done + 1] # None
            \/ "writer" \in faults
<1>1. UNCHANGED <<done, executed, override>>
  BY DEF Refused, planVars
<1>2. ProgressInv'
  BY <1>1 DEF ProgressInv, ExecutedAsPlanned
<1>3. CASE Due(s) = "late" /\ UNCHANGED guardVars
  BY <1>1, <1>3, QuietStep DEF ClockInv, guardVars
<1>4. CASE Due(s) = "due"
  <2>1. done \in Nat /\ done < Len(plan.actions)
    BY <1>4, DueFacts DEF ProgressInv
  <2>2. PICK d : /\ Guard!Evaluate(Proposal(done + 1, NextAction.value, s, TRUE), d)
                 /\ Guard!IsCommand(d) => "writer" \in faults
    BY <1>4 DEF Refused
  <2>3. CASE observed[done + 1] = None
    <3>1. /\ d \in Guard!Decision
          /\ d.proposal = Proposal(done + 1, NextAction.value, s, TRUE)
          /\ d.outcome = "ALLOW" /\ d.applied = NextAction.value
          /\ Guard!Remember(d)
      BY <2>1, <2>2, <2>3, ActionJudged
    <3>2. MemoryInv' /\ observed' = [observed EXCEPT ![done + 1] = d]
      BY <1>1, <2>1, <3>1, RememberStep
    <3>3. observed'[ResetId] = observed[ResetId]
      BY <2>1, <3>2, Limits DEF MemoryInv, ResetId, NoId
    <3>4. Guard!IsCommand(d)
      BY <3>1 DEF Guard!IsCommand
    <3> QED
      BY <1>1, <1>2, <2>2, <3>2, <3>3, <3>4
  <2>4. CASE observed[done + 1] # None
    <3>1. UNCHANGED Guard!memoryVars
      BY <2>1, <2>2, <2>4, ActionJudged
    <3>2. MemoryInv'
      <4>1. ASSUME NEW id \in 1 .. ActionLimit, observed[id] # None
            PROVE  id <= done + 1 /\ observed[id].proposal.validFrom <= s
        <5>1. id <= done + 1 /\ observed[id].proposal.validFrom <= sequence
          BY <4>1 DEF MemoryInv
        <5>2. observed[id] \in Guard!Decision
          BY <4>1, Limits DEF MemoryInv, NoId
        <5>3. observed[id].proposal.validFrom \in Int
          BY <5>2 DEF Guard!Decision, Guard!Proposal
        <5> QED
          BY <5>1, <5>3 DEF ClockInv
      <4>2. lastValid < s \/ lastValid = 0
        BY DEF MemoryInv, ClockInv
      <4> QED
        BY <1>1, <3>1, <4>1, <4>2 DEF MemoryInv, Guard!memoryVars
    <3> QED
      BY <1>1, <1>2, <2>1, <2>4, <3>1, <3>2 DEF Guard!memoryVars
  <2> QED
    BY <2>3, <2>4
<1> QED
  BY <1>3, <1>4 DEF Refused

LEMMA ResetStep ==
  ASSUME ClockInv, MemoryInv, ProgressInv, phase # "IDLE", phase' # "IDLE",
         NEW s \in Nat, s >= sequence, sequence' = s, UNCHANGED <<plan, done, executed>>,
         NEW fit \in BOOLEAN, NEW d, Guard!Evaluate(ResetProposal(s, fit), d)
  PROVE  /\ MemoryInv' /\ ProgressInv'
         /\ \A id \in 1 .. ActionLimit : observed'[id] = observed[id]
         /\ d.applied = None
         /\ fit /\ observed[ResetId] = None => d.outcome = "RESET_TO_NATIVE"
<1>1. /\ UNCHANGED <<disabled, shutdown, context, lastSafe>>
      /\ lastValid' \in Nat /\ (lastValid' < s \/ lastValid' = 0)
      /\ d.applied = None
      /\ fit /\ observed[ResetId] = None => d.outcome = "RESET_TO_NATIVE"
  BY ResetJudged
<1>2. PICK answer \in Guard!Decision \cup {None} :
        /\ observed' = [observed EXCEPT ![ResetId] = answer]
        /\ answer # None => answer.applied = None
  BY ResetJudged
<1>3. /\ observed' \in [NoId .. ActionLimit -> Guard!Decision \cup {None}]
      /\ observed'[ResetId] = answer
      /\ \A id \in 1 .. ActionLimit : observed'[id] = observed[id]
  BY <1>2, Limits DEF MemoryInv, ResetId, NoId
<1>4. ASSUME NEW id \in 1 .. ActionLimit, observed[id] # None
      PROVE  id <= done + 1 /\ observed[id].proposal.validFrom <= s
  <2>1. id <= done + 1 /\ observed[id].proposal.validFrom <= sequence
    BY <1>4 DEF MemoryInv
  <2>2. observed[id] \in Guard!Decision
    BY <1>4, Limits DEF MemoryInv, NoId
  <2>3. observed[id].proposal.validFrom \in Int
    BY <2>2 DEF Guard!Decision, Guard!Proposal
  <2> QED
    BY <2>1, <2>3 DEF ClockInv
<1>5. lastSafe # None /\ done < ActionLimit =>
        \/ observed'[done + 1] # None
        \/ done >= 1 /\ lastSafe.applied = plan.actions[done].value
  <2>1. done < ActionLimit => done + 1 \in 1 .. ActionLimit
    BY Limits DEF ProgressInv
  <2> QED
    BY <1>3, <2>1 DEF MemoryInv
<1>6. MemoryInv'
  BY <1>1, <1>2, <1>3, <1>4, <1>5 DEF MemoryInv
<1>7. ProgressInv'
  BY DEF ProgressInv, ExecutedAsPlanned
<1> QED
  BY <1>1, <1>3, <1>6, <1>7

\* In a session without faults an action is never late.
LEMMA OnTime ==
  ASSUME IsPlan(plan), ProgressInv, phase # "IDLE",
         \A i \in DOMAIN plan.actions : plan.actions[i].offset <= clock => i <= done,
         clock \in Int, NEW s \in Nat, s = clock + 1
  PROVE  /\ Due(s) # "late"
         /\ \A i \in DOMAIN plan.actions :
              plan.actions[i].offset <= s =>
                i <= IF Due(s) = "due" THEN done + 1 ELSE done
<1>1. done \in Nat /\ done <= Len(plan.actions) /\ Len(plan.actions) \in Nat
  BY Limits DEF ProgressInv, IsPlan
<1>2. CASE done = Len(plan.actions)
  BY <1>1, <1>2 DEF Due, IsPlan
<1>3. CASE done < Len(plan.actions)
  <2>1. /\ NextAction = plan.actions[done + 1] /\ NextAction.offset \in 1 .. 6
        /\ done + 1 \in DOMAIN plan.actions
    BY <1>1, <1>3, ActionFacts DEF NextAction, IsPlan
  <2>2. NextAction.offset > clock
    BY <1>1, <2>1
  <2>3. Due(s) = IF s < NextAction.offset THEN "none" ELSE "due"
    <3>1. PICK o \in 1 .. 6 : o = NextAction.offset
      BY <2>1
    <3>2. done # Len(plan.actions)
      BY <1>1, <1>3
    <3>3. ~(s > o + Hold)
      BY <2>2, <3>1, Limits
    <3> QED
      BY <3>1, <3>2, <3>3 DEF Due
  <2>4. ASSUME NEW i \in DOMAIN plan.actions, plan.actions[i].offset <= s
        PROVE  i <= IF Due(s) = "due" THEN done + 1 ELSE done
    <3>1. i \in 1 .. Len(plan.actions) /\ plan.actions[i].offset \in 1 .. 6
      BY DEF IsPlan
    <3>2. CASE i > done + 1
      <4>1. NextAction.offset < plan.actions[i].offset
        BY <1>1, <2>1, <3>1, <3>2 DEF IsPlan
      <4>2. PICK o \in 1 .. 6 : o = NextAction.offset
        BY <2>1
      <4>3. PICK x \in 1 .. 6 : x = plan.actions[i].offset
        BY <3>1
      <4> QED
        BY <2>2, <2>4, <4>1, <4>2, <4>3
    <3>3. CASE i = done + 1
      <4>1. Due(s) = "due"
        BY <2>1, <2>3, <2>4, <3>3
      <4> QED
        BY <3>3, <4>1, <1>1
    <3>4. CASE i <= done
      BY <1>1, <3>1, <3>4
    <3> QED
      BY <1>1, <3>1, <3>2, <3>3, <3>4
  <2> QED
    BY <2>3, <2>4
<1> QED
  BY <1>1, <1>2, <1>3

LEMMA ArmedStep ==
  ASSUME ArmedInv, phase # "IDLE", UNCHANGED <<artifactVars, fixedVars>>
  PROVE  ArmedInv'
BY DEF ArmedInv, IsApproval, artifactVars, fixedVars

-----------------------------------------------------------------------------
(* The approvals, and the sessions as they are armed and end.              *)

LEMMA IdleStep ==
  ASSUME ExecutionInv, Approve \/ ArtifactsChange
  PROVE  ExecutionInv'
<1> USE DEF fixedVars, reportVars, planVars, guardVars
<1>1. /\ phase = "IDLE"
      /\ UNCHANGED <<phase, fixedVars, reportVars, planVars, guardVars, clock,
                     sequence, handle>>
  BY DEF Approve, ArtifactsChange
<1>2. ArmedInv'
  <2>1. CASE Approve
    <3>1. IsApproval'
      BY <2>1 DEF Approve, IsApproval
    <3> QED
      BY <1>1, <2>1, <3>1 DEF Approve, ExecutionInv, ArmedInv
  <2>2. CASE ArtifactsChange
    <3>1. IsApproval
      BY <2>2 DEF ArtifactsChange, ExecutionInv, ArmedInv
    <3>2. PICK a : a = approval
      OBVIOUS
    <3>3. approval' = a \/ approval' = [a EXCEPT !.expired = TRUE]
      BY <2>2, <3>2 DEF ArtifactsChange
    <3>4. IsApproval'
      BY <3>1, <3>2, <3>3 DEF IsApproval
    <3>5. build' \in PlanContexts /\ package' \in EligiblePlans(build')
      BY <2>2 DEF ArtifactsChange, ExecutionInv, ArmedInv
    <3> QED
      BY <1>1, <2>2, <3>4, <3>5 DEF ArtifactsChange, ExecutionInv, ArmedInv
  <2> QED
    BY <2>1, <2>2
<1>3. ClockInv' /\ ProgressInv' /\ FaultlessInv'
  BY <1>1 DEF ExecutionInv, ClockInv, ProgressInv, FaultlessInv, ExecutedAsPlanned
<1>4. MemoryInv'
  BY <1>1 DEF ExecutionInv, MemoryInv
<1>5. ReleaseInv'
  BY <1>1 DEF ExecutionInv, ReleaseInv, SessionsRelease
<1> QED
  BY <1>2, <1>3, <1>4, <1>5 DEF ExecutionInv

LEMMA FreshStep ==
  ASSUME MemoryInv, Fresh
  PROVE  /\ MemoryInv'
         /\ sequence' = 0 /\ done' = 0 /\ executed' = <<>> /\ override' = None
         /\ handle' = "unknown" /\ observed'[ResetId] = None
         /\ \A id \in 1 .. ActionLimit : observed'[id] = None
<1>1. /\ observed' = [id \in NoId .. ActionLimit |-> None]
      /\ lastSafe' = None /\ lastValid' = 0
      /\ ~disabled' /\ ~shutdown' /\ context' = SessionContext
      /\ sequence' = 0 /\ done' = 0 /\ executed' = <<>> /\ override' = None
      /\ handle' = "unknown"
  BY DEF Fresh, MemoryInv
<1>2. /\ observed'[ResetId] = None
      /\ \A id \in 1 .. ActionLimit : observed'[id] = None
      /\ observed' \in [NoId .. ActionLimit -> Guard!Decision \cup {None}]
  BY <1>1, Limits DEF ResetId, NoId
<1> QED
  BY <1>1, <1>2 DEF MemoryInv

LEMMA ArmStep ==
  ASSUME ExecutionInv, Arm
  PROVE  ExecutionInv'
<1>1. /\ MemoryInv'
      /\ sequence' = 0 /\ done' = 0 /\ executed' = <<>> /\ override' = None
      /\ handle' = "unknown" /\ observed'[ResetId] = None
      /\ \A id \in 1 .. ActionLimit : observed'[id] = None
  BY FreshStep DEF ExecutionInv, Arm
<1>2. /\ phase' = "EXECUTING" /\ runner' \in Runners
      /\ clock' = IF runner' = "aligned" THEN -1 ELSE 0
      /\ resetOk' = (runner' # "orchestrator" /\ ~live')
      /\ approval # None /\ UNCHANGED <<build, package, approval>>
      /\ ~failed' /\ ~stopRequested' /\ recorded' = 0 /\ ~initial'
  BY DEF Arm, Fresh
<1>3. PICK mode \in Modes :
        /\ live' = (mode = "LIVE_SHORT_HORIZON")
        /\ IF runner' = "aligned" THEN ValidExactApproval ELSE ValidApproval(mode)
  BY DEF Arm, ModesOf
<1>4. IsPlan(plan') /\ (runner' # "short" => plan' = approval.plan)
  <2>1. CASE runner' = "orchestrator"
    <3>1. plan' = approval.plan /\ approval.plan \in EligiblePlans(build)
      BY <1>3, <2>1 DEF Arm, ValidApproval
    <3> QED
      BY <3>1, PlanFacts
  <2>2. CASE runner' = "short"
    <3>1. plan' = ShortPlan
      BY <2>2 DEF Arm
    <3> QED
      BY <2>2, <3>1, ShortPlanFacts
  <2>3. CASE runner' = "aligned"
    <3>1. plan' = package /\ package = approval.plan /\ package \in EligiblePlans(build)
      BY <1>3, <2>3 DEF Arm, ValidExactApproval, ExecutionInv, ArmedInv
    <3> QED
      BY <3>1, PlanFacts
  <2> QED
    BY <1>2, <2>1, <2>2, <2>3 DEF Runners
<1>5. ArmedInv'
  <2>1. IsApproval /\ IsApproval'
    BY <1>2 DEF ExecutionInv, ArmedInv, IsApproval
  <2>2. runner' # "short" /\ live' => approval.mode = "LIVE_SHORT_HORIZON"
    BY <1>3, <2>1 DEF ValidApproval, ValidExactApproval, IsApproval
  <2> QED
    BY <1>2, <1>4, <2>1, <2>2 DEF ExecutionInv, ArmedInv
<1>6. ClockInv'
  BY <1>1, <1>2, <1>3 DEF ClockInv
<1>7. ProgressInv'
  BY <1>1, <1>2, <1>4, Limits DEF ProgressInv, ExecutedAsPlanned, IsPlan
<1>8. ReleaseInv'
  BY <1>1, <1>2 DEF ReleaseInv, SessionsRelease
<1>9. FaultlessInv'
  <2>1. \A i \in DOMAIN plan'.actions : ~(plan'.actions[i].offset <= clock')
    BY <1>2, <1>4 DEF IsPlan
  <2>2. done' < Len(plan'.actions) => observed'[done' + 1] = None
    BY <1>1, <1>4, Limits DEF IsPlan
  <2>3. clock' < Horizon /\ (sequence' = IF clock' < 0 THEN 0 ELSE clock')
    BY <1>1, <1>2, Limits
  <2>4. runner' = "aligned" => (initial' <=> clock' >= 0)
    BY <1>2
  <2>5. runner' # "orchestrator" /\ ~live' => resetOk'
    BY <1>2
  <2>6. /\ phase' = "EXECUTING" /\ ~failed' /\ ~stopRequested'
        /\ observed'[ResetId] = None /\ recorded' = sequence'
    BY <1>1, <1>2
  <2> QED
    BY <2>1, <2>2, <2>3, <2>4, <2>5, <2>6 DEF FaultlessInv
<1> QED
  BY <1>1, <1>5, <1>6, <1>7, <1>8, <1>9 DEF ExecutionInv

LEMMA ExitStep ==
  ASSUME ExecutionInv, Exit
  PROVE  ExecutionInv'
<1>1. /\ MemoryInv'
      /\ sequence' = 0 /\ done' = 0 /\ executed' = <<>> /\ override' = None
      /\ handle' = "unknown" /\ observed'[ResetId] = None
  BY FreshStep DEF ExecutionInv, Exit
<1>2. /\ phase' = "IDLE" /\ clock' = 0 /\ ~live' /\ UNCHANGED <<build, package, approval>>
      /\ live' \in BOOLEAN /\ runner' = None
  BY DEF Exit
<1>3. ArmedInv'
  BY <1>2 DEF ExecutionInv, ArmedInv, IsApproval
<1>4. ClockInv'
  BY <1>1, <1>2 DEF ClockInv
<1>5. ProgressInv' /\ ReleaseInv' /\ FaultlessInv'
  BY <1>1, <1>2 DEF ProgressInv, ExecutedAsPlanned, ReleaseInv, SessionsRelease, FaultlessInv
<1> QED
  BY <1>1, <1>3, <1>4, <1>5 DEF ExecutionInv

-----------------------------------------------------------------------------
(* ExecutionOrchestrator.execute.                                          *)

LEMMA OrchestratorActsStep ==
  ASSUME ExecutionInv, OrchestratorActs
  PROVE  ExecutionInv'
<1> USE DEF artifactVars, fixedVars, reportVars
<1>1. /\ runner = "orchestrator" /\ phase = "EXECUTING" /\ phase' = "EXECUTING"
      /\ UNCHANGED <<artifactVars, fixedVars, reportVars, handle>>
      /\ sequence' = clock' /\ clock' \in {clock + 1, clock + 2}
      /\ faults = {} => clock' = clock + 1
  BY DEF OrchestratorActs, Observes
<1>2. clock' \in Nat /\ clock' > sequence /\ sequence = clock /\ clock \in Nat
      /\ handle = "unknown" /\ IsPlan(plan)
  BY <1>1 DEF ExecutionInv, ClockInv, ArmedInv
<1>3. ArmedInv'
  BY <1>1, ArmedStep DEF ExecutionInv
<1>4. ClockInv'
  BY <1>1, <1>2 DEF ExecutionInv, ClockInv
<1>5. Executes(clock') \/ Waits(clock')
  BY <1>1 DEF OrchestratorActs
<1>6. faults = {} =>
        \A i \in DOMAIN plan.actions :
          plan.actions[i].offset <= clock' =>
            i <= IF Due(clock') = "due" THEN done + 1 ELSE done
  <2>1. faults = {} =>
          \A i \in DOMAIN plan.actions : plan.actions[i].offset <= clock => i <= done
    BY <1>1 DEF ExecutionInv, FaultlessInv
  <2> QED
    BY <1>1, <1>2, <2>1, OnTime DEF ExecutionInv
<1>7. CASE Executes(clock')
  <2>1. /\ MemoryInv' /\ ProgressInv'
        /\ Due(clock') = "due" /\ done' = done + 1
        /\ observed'[ResetId] = observed[ResetId]
        /\ done' < Len(plan.actions) => observed'[done' + 1] = None
        /\ \/ override' = override
           \/ /\ live /\ handle' # "missing"
              /\ \E i \in DOMAIN plan.actions : override' = plan.actions[i].value
    BY <1>1, <1>2, <1>7, ExecutesStep DEF ExecutionInv
  <2>2. ReleaseInv'
    BY <1>1, <2>1 DEF ExecutionInv, ReleaseInv, SessionsRelease
  <2>3. FaultlessInv'
    BY <1>1, <1>2, <1>6, <2>1 DEF ExecutionInv, FaultlessInv
  <2> QED
    BY <1>3, <1>4, <2>1, <2>2, <2>3 DEF ExecutionInv
<1>8. CASE Waits(clock')
  <2>1. Due(clock') = "none" /\ UNCHANGED <<done, executed, override, guardVars>>
    BY <1>8 DEF Waits, planVars
  <2>2. MemoryInv' /\ ProgressInv'
    BY <1>1, <1>2, <2>1, QuietStep DEF ExecutionInv
  <2>3. ReleaseInv'
    BY <1>1, <2>1 DEF ExecutionInv, ReleaseInv, SessionsRelease, guardVars
  <2>4. FaultlessInv'
    BY <1>1, <1>2, <1>6, <2>1 DEF ExecutionInv, FaultlessInv, guardVars
  <2> QED
    BY <1>3, <1>4, <2>2, <2>3, <2>4 DEF ExecutionInv
<1> QED
  BY <1>5, <1>7, <1>8

LEMMA OrchestratorFailsStep ==
  ASSUME ExecutionInv, OrchestratorFails
  PROVE  ExecutionInv'
<1> USE DEF artifactVars, fixedVars
<1>1. /\ runner = "orchestrator" /\ phase = "EXECUTING" /\ phase' = "FALLBACK_ACTIVE"
      /\ UNCHANGED <<artifactVars, fixedVars, resetOk, handle>>
      /\ sequence' = clock' /\ clock' \in {clock + 1, clock + 2} /\ failed'
      /\ faults = {} => clock' = clock + 1
  BY DEF OrchestratorFails
<1>2. clock' \in Nat /\ clock' > sequence /\ sequence = clock /\ clock \in Nat
      /\ handle = "unknown" /\ IsPlan(plan)
  BY <1>1 DEF ExecutionInv, ClockInv, ArmedInv
<1>3. ArmedInv'
  BY <1>1, ArmedStep DEF ExecutionInv
<1>4. ClockInv'
  BY <1>1, <1>2 DEF ExecutionInv, ClockInv
<1>5. /\ MemoryInv' /\ ProgressInv' /\ UNCHANGED override
      /\ observed'[ResetId] = observed[ResetId]
      /\ faults # {}
  <2>1. CASE faults \cap {"untrusted", "unfit"} # {} /\ UNCHANGED <<planVars, guardVars>>
    <3>1. UNCHANGED <<done, executed, override, guardVars, observed>>
      BY <2>1 DEF planVars, guardVars
    <3> QED
      BY <1>1, <1>2, <2>1, <3>1, QuietStep DEF ExecutionInv
  <2>2. CASE Refused(clock')
    <3>1. /\ MemoryInv' /\ ProgressInv'
          /\ UNCHANGED <<done, override>>
          /\ observed'[ResetId] = observed[ResetId]
          /\ \/ Due(clock') = "late"
             \/ done < Len(plan.actions) /\ observed[done + 1] # None
             \/ "writer" \in faults
      BY <1>1, <1>2, <2>2, RefusedStep DEF ExecutionInv
    <3>2. ASSUME faults = {}
          PROVE  FALSE
      <4>1. Due(clock') # "late"
        BY <1>1, <1>2, <3>2, OnTime DEF ExecutionInv, FaultlessInv
      <4> QED
        BY <1>1, <3>1, <3>2, <4>1 DEF ExecutionInv, FaultlessInv
    <3> QED
      BY <3>1, <3>2
  <2> QED
    BY <1>1, <2>1, <2>2 DEF OrchestratorFails
<1>6. ReleaseInv'
  BY <1>1, <1>5 DEF ExecutionInv, ReleaseInv, SessionsRelease
<1>7. FaultlessInv'
  BY <1>1, <1>5 DEF FaultlessInv
<1> QED
  BY <1>3, <1>4, <1>5, <1>6, <1>7 DEF ExecutionInv

LEMMA OrchestratorResetsStep ==
  ASSUME ExecutionInv, OrchestratorResets
  PROVE  ExecutionInv'
<1> USE DEF artifactVars, fixedVars
<1>1. /\ runner = "orchestrator" /\ phase \in {"EXECUTING", "FALLBACK_ACTIVE"}
      /\ phase' = "ENDED"
      /\ UNCHANGED <<artifactVars, fixedVars, clock, handle, failed, recorded, initial,
                     stopRequested, done, executed>>
      /\ sequence' \in IF failed THEN sequence .. sequence + 1 ELSE {sequence}
      /\ passed' = (resetOk' /\ ~failed)
  BY DEF OrchestratorResets
<1>2. PICK fit \in BOOLEAN :
        /\ Resets(sequence', fit)
        /\ ~fit => "unfit" \in faults
  BY <1>1 DEF OrchestratorResets
<1>3. PICK d :
        /\ Guard!Evaluate(ResetProposal(sequence', fit), d)
        /\ \/ /\ Guard!IsCommand(d)
              /\ override' = Written(d)
              /\ resetOk' = (d.outcome = "RESET_TO_NATIVE")
           \/ /\ Guard!IsCommand(d) => "reset" \in faults
              /\ resetOk' = FALSE
              /\ UNCHANGED override
  BY <1>2 DEF Resets
<1>4. sequence' \in Nat /\ sequence' >= sequence
  BY <1>1 DEF ExecutionInv, ClockInv
<1>5. /\ MemoryInv' /\ ProgressInv'
      /\ \A id \in 1 .. ActionLimit : observed'[id] = observed[id]
      /\ d.applied = None
      /\ fit /\ observed[ResetId] = None => d.outcome = "RESET_TO_NATIVE"
  BY <1>1, <1>3, <1>4, ResetStep DEF ExecutionInv
<1>6. observed[ResetId] = None
  BY <1>1 DEF ExecutionInv, ReleaseInv
<1>7. fit => Guard!IsCommand(d)
  BY <1>5, <1>6 DEF Guard!IsCommand
<1>8. ArmedInv'
  BY <1>1, ArmedStep DEF ExecutionInv
<1>9. ClockInv'
  BY <1>1, <1>4 DEF ExecutionInv, ClockInv
<1>10. ReleaseInv'
  <2>1. handle' # "missing" /\ (override # None => live)
    BY <1>1 DEF ExecutionInv, ClockInv, ReleaseInv
  <2>2. override' # None =>
          /\ override' = override
          /\ ~passed'
          /\ faults \cap {"reset", "unfit"} # {}
    BY <1>1, <1>2, <1>3, <1>5, <1>7, <2>1 DEF Written
  <2> QED
    BY <1>1, <2>2 DEF ExecutionInv, ReleaseInv, SessionsRelease
<1>11. FaultlessInv'
  <2>1. SUFFICES ASSUME faults = {} PROVE FaultlessInv'
    BY <1>1 DEF FaultlessInv
  <2>2. ~failed /\ sequence' = sequence
    BY <1>1, <2>1 DEF ExecutionInv, FaultlessInv
  <2>3. fit /\ d.outcome = "RESET_TO_NATIVE" /\ Guard!IsCommand(d)
    BY <1>2, <1>5, <1>6, <1>7, <2>1
  <2>4. passed'
    BY <1>1, <1>3, <2>1, <2>2, <2>3
  <2>5. done < Len(plan.actions) => observed'[done + 1] = observed[done + 1]
    BY <1>1, <1>5, ActionFacts DEF ExecutionInv, ProgressInv, ArmedInv
  <2> QED
    BY <1>1, <2>1, <2>2, <2>4, <2>5 DEF ExecutionInv, FaultlessInv
<1> QED
  BY <1>5, <1>8, <1>9, <1>10, <1>11 DEF ExecutionInv

-----------------------------------------------------------------------------
(* The callbacks.                                                          *)

\* A callback is about the timestep after the last, and the state after it.
LEMMA CallbackFacts ==
  ASSUME ExecutionInv, CallsBack
  PROVE  /\ runner \in {"short", "aligned"} /\ phase \in {"EXECUTING", "STOPPING"}
         /\ UNCHANGED <<artifactVars, fixedVars, passed>>
         /\ clock' = clock + 1 /\ clock' \in Nat /\ IsPlan(plan)
         /\ Sequence \in Nat /\ Sequence >= sequence
         /\ Target(clock') => Sequence > sequence
         /\ runner = "aligned" => Sequence <= clock'
         /\ faults = {} => phase = "EXECUTING" /\ clock < Horizon
         /\ faults = {} /\ Target(clock') =>
              clock' \in 1 .. Horizon /\ Sequence = clock' /\ sequence = clock
<1>1. /\ runner \in {"short", "aligned"} /\ phase \in {"EXECUTING", "STOPPING"}
      /\ UNCHANGED <<artifactVars, fixedVars, passed>> /\ clock' = clock + 1
      /\ phase = "STOPPING" => "callback" \in faults
  BY DEF CallsBack
<1>2. /\ clock \in Int /\ sequence \in Nat /\ IsPlan(plan)
      /\ IF runner = "aligned" THEN clock >= -1 /\ (sequence <= clock \/ sequence = 0)
                               ELSE clock >= 0
  BY <1>1 DEF ExecutionInv, ClockInv, ArmedInv
<1>3. faults = {} => /\ phase = "EXECUTING" /\ clock < Horizon
                     /\ sequence = IF clock < 0 THEN 0 ELSE clock
  BY <1>1 DEF ExecutionInv, FaultlessInv
<1>4. CASE runner = "short"
  BY <1>1, <1>2, <1>3, <1>4, Limits DEF Sequence, Target
<1>5. CASE runner = "aligned"
  <2>1. Sequence = clock' /\ (Target(clock') <=> clock' \in 1 .. Horizon)
    BY <1>5 DEF Sequence, Target
  <2> QED
    BY <1>1, <1>2, <1>3, <1>5, <2>1, Limits
<1> QED
  BY <1>1, <1>4, <1>5

LEMMA CallbackReturnsStep ==
  ASSUME ExecutionInv, CallbackReturns
  PROVE  ExecutionInv'
<1> USE DEF artifactVars, fixedVars
<1>1. /\ CallsBack
      /\ UNCHANGED <<recorded, failed, resetOk, stopRequested, done, executed, override,
                     guardVars, phase, sequence>>
      /\ handle' \in {handle, "found"}
  BY DEF CallbackReturns, planVars
<1>2. /\ runner \in {"short", "aligned"} /\ phase \in {"EXECUTING", "STOPPING"}
      /\ UNCHANGED <<artifactVars, fixedVars>>
      /\ clock' = clock + 1 /\ IsPlan(plan)
      /\ faults = {} => phase = "EXECUTING" /\ clock < Horizon
  BY <1>1, CallbackFacts
<1>3. ArmedInv'
  BY <1>2, ArmedStep DEF ExecutionInv
<1>4. ClockInv'
  BY <1>1, <1>2 DEF ExecutionInv, ClockInv
<1>5. MemoryInv' /\ ProgressInv'
  BY <1>1, <1>2, QuietStep DEF ExecutionInv, ClockInv
<1>6. UNCHANGED observed
  BY <1>1 DEF guardVars
<1>7. ReleaseInv'
  BY <1>1, <1>2, <1>6 DEF ExecutionInv, ReleaseInv, SessionsRelease
<1>8. FaultlessInv'
  <2>1. SUFFICES ASSUME faults = {} PROVE FaultlessInv'
    BY <1>2 DEF FaultlessInv
  <2>2. runner = "aligned" /\ ~Target(clock') /\ initial' = (initial \/ clock' = 0)
    BY <2>1 DEF CallbackReturns
  <2>3. clock' = 0 /\ clock = -1
    BY <1>2, <2>1, <2>2, Limits DEF Target, ExecutionInv, ClockInv
  <2>4. \A i \in DOMAIN plan.actions : ~(plan.actions[i].offset <= clock')
    BY <1>2, <2>3 DEF IsPlan
  <2>5. clock' < Horizon /\ sequence = 0
    BY <1>2, <2>1, <2>3, Limits DEF ExecutionInv, FaultlessInv
  <2>6. /\ phase = "EXECUTING" /\ ~failed /\ recorded = sequence /\ ~stopRequested
        /\ observed[ResetId] = None /\ (~live => resetOk)
        /\ done < Len(plan.actions) => observed[done + 1] = None
    BY <1>2, <2>1, <2>2 DEF ExecutionInv, FaultlessInv
  <2>7. initial' /\ clock' >= 0
    <3>1. initial'
      BY <2>2, <2>3, Zenon
    <3> QED
      BY <2>3, <3>1
  <2> QED
    BY <1>1, <1>2, <1>6, <2>2, <2>3, <2>4, <2>5, <2>6, <2>7 DEF FaultlessInv
<1> QED
  BY <1>3, <1>4, <1>5, <1>7, <1>8 DEF ExecutionInv

LEMMA CallbackLacksHandlesStep ==
  ASSUME ExecutionInv, CallbackLacksHandles
  PROVE  ExecutionInv'
<1> USE DEF artifactVars, fixedVars
<1>1. /\ CallsBack
      /\ UNCHANGED <<done, executed, override, guardVars, sequence, resetOk>>
      /\ handle = "unknown" /\ faults # {} /\ phase' = "STOPPING"
      /\ handle' \in {"unknown", "found", "missing"}
  BY DEF CallbackLacksHandles, Fails, planVars
<1>2. /\ runner \in {"short", "aligned"} /\ phase \in {"EXECUTING", "STOPPING"}
      /\ UNCHANGED <<artifactVars, fixedVars>>
      /\ clock' = clock + 1
  BY <1>1, CallbackFacts
<1>3. ArmedInv'
  BY <1>2, ArmedStep DEF ExecutionInv
<1>4. ClockInv'
  BY <1>1, <1>2 DEF ExecutionInv, ClockInv
<1>5. MemoryInv' /\ ProgressInv'
  BY <1>1, <1>2, QuietStep DEF ExecutionInv, ClockInv
<1>6. ReleaseInv'
  BY <1>1, <1>2 DEF ExecutionInv, ReleaseInv, SessionsRelease, guardVars
<1>7. FaultlessInv'
  BY <1>1, <1>2 DEF FaultlessInv
<1> QED
  BY <1>3, <1>4, <1>5, <1>6, <1>7 DEF ExecutionInv

\* Where an action leaves the actuator: never moved once it was given back.
LEMMA ActuatorStep ==
  ASSUME ExecutionInv, CallsBack, LooksUp, sequence' = Sequence, phase' # "IDLE",
         phase' # "ENDED", UNCHANGED resetOk, observed'[ResetId] = observed[ResetId],
         \/ UNCHANGED override
         \/ /\ Target(clock') /\ Due(sequence') = "due" /\ live /\ handle' # "missing"
            /\ \E i \in DOMAIN plan.actions : override' = plan.actions[i].value
  PROVE  ReleaseInv'
<1> USE DEF artifactVars, fixedVars
<1>1. /\ runner \in {"short", "aligned"} /\ phase \in {"EXECUTING", "STOPPING"}
      /\ UNCHANGED <<artifactVars, fixedVars>> /\ IsPlan(plan)
      /\ Sequence \in Nat /\ Sequence >= sequence
  BY CallbackFacts
<1>2. handle' # "found" => handle' = "missing" /\ override = None
  BY <1>1 DEF LooksUp, ExecutionInv, ClockInv, ReleaseInv
<1>3. live /\ resetOk => override = None /\ sequence >= Horizon
  BY <1>1 DEF ExecutionInv, ReleaseInv
<1>4. CASE UNCHANGED override
  BY <1>1, <1>2, <1>3, <1>4, Limits DEF ExecutionInv, ClockInv, ReleaseInv, SessionsRelease
<1>5. CASE /\ Target(clock') /\ Due(sequence') = "due" /\ live /\ handle' # "missing"
           /\ \E i \in DOMAIN plan.actions : override' = plan.actions[i].value
  <2>1. sequence' <= 6 + Hold /\ sequence' > sequence
    BY <1>1, <1>5, CallbackFacts, DueFacts DEF ExecutionInv
  <2>2. ~resetOk
    BY <1>1, <1>3, <1>5, <2>1, Limits DEF ExecutionInv, ClockInv
  <2>3. phase # "IDLE" /\ phase' # "IDLE"
    BY <1>1
  <2> QED
    BY <1>1, <1>2, <1>5, <2>2, <2>3 DEF ReleaseInv, SessionsRelease
<1> QED
  BY <1>4, <1>5

LEMMA CallbackFailsStep ==
  ASSUME ExecutionInv, CallbackFails
  PROVE  ExecutionInv'
<1> USE DEF artifactVars, fixedVars
<1>1. /\ CallsBack /\ LooksUp /\ sequence' = Sequence
      /\ phase' = "STOPPING" /\ failed' /\ UNCHANGED resetOk
  BY DEF CallbackFails, Fails
<1>2. /\ runner \in {"short", "aligned"} /\ phase \in {"EXECUTING", "STOPPING"}
      /\ UNCHANGED <<artifactVars, fixedVars>>
      /\ clock' = clock + 1 /\ clock' \in Nat /\ IsPlan(plan)
      /\ Sequence \in Nat /\ Sequence >= sequence
      /\ Target(clock') => Sequence > sequence
      /\ runner = "aligned" => Sequence <= clock'
  BY <1>1, CallbackFacts
<1>3. ArmedInv'
  BY <1>2, ArmedStep DEF ExecutionInv
<1>4. ClockInv'
  BY <1>1, <1>2 DEF ExecutionInv, ClockInv, LooksUp
<1>5. /\ MemoryInv' /\ ProgressInv' /\ observed'[ResetId] = observed[ResetId] /\ faults # {}
      /\ \/ UNCHANGED override
         \/ /\ Target(clock') /\ Due(sequence') = "due" /\ live /\ handle' # "missing"
            /\ \E i \in DOMAIN plan.actions : override' = plan.actions[i].value
  <2>1. CASE "value" \in faults /\ UNCHANGED <<planVars, guardVars>>
    <3>1. UNCHANGED <<done, executed, override, guardVars, observed>>
      BY <2>1 DEF planVars, guardVars
    <3> QED
      BY <1>1, <1>2, <2>1, <3>1, QuietStep DEF ExecutionInv
  <2>2. CASE "value" \in faults /\ runner = "short" /\ Executes(sequence')
    <3>1. Target(clock')
      BY <2>2 DEF Target
    <3> QED
      BY <1>1, <1>2, <2>2, <3>1, ExecutesStep DEF ExecutionInv
  <2>3. CASE "value" \in faults /\ runner = "short" /\ Waits(sequence')
    <3>1. UNCHANGED <<done, executed, override, guardVars, observed>>
      BY <2>3 DEF Waits, planVars, guardVars
    <3> QED
      BY <1>1, <1>2, <2>3, <3>1, QuietStep DEF ExecutionInv
  <2>4. CASE Target(clock') /\ Refused(sequence')
    <3>1. /\ MemoryInv' /\ ProgressInv'
          /\ UNCHANGED <<done, override>>
          /\ observed'[ResetId] = observed[ResetId]
          /\ \/ Due(sequence') = "late"
             \/ done < Len(plan.actions) /\ observed[done + 1] # None
             \/ "writer" \in faults
      BY <1>1, <1>2, <2>4, RefusedStep DEF ExecutionInv
    <3>2. ASSUME faults = {}
          PROVE  FALSE
      <4>1. phase = "EXECUTING" /\ Sequence = clock + 1
        BY <1>1, <1>2, <2>4, <3>2, CallbackFacts
      <4>2. Due(sequence') # "late"
        BY <1>1, <1>2, <3>2, <4>1, OnTime DEF ExecutionInv, FaultlessInv, ClockInv
      <4> QED
        BY <3>1, <3>2, <4>1, <4>2 DEF ExecutionInv, FaultlessInv
    <3> QED
      BY <3>1, <3>2
  <2> QED
    BY <2>1, <2>2, <2>3, <2>4 DEF CallbackFails
<1>6. ReleaseInv'
  BY <1>1, <1>5, ActuatorStep
<1>7. FaultlessInv'
  BY <1>2, <1>5 DEF FaultlessInv
<1> QED
  BY <1>3, <1>4, <1>5, <1>6, <1>7 DEF ExecutionInv

LEMMA CallbackActsStep ==
  ASSUME ExecutionInv, CallbackActs
  PROVE  ExecutionInv'
<1> USE DEF artifactVars, fixedVars
<1>1. /\ CallsBack /\ LooksUp /\ Target(clock') /\ sequence' = Sequence
      /\ recorded' = recorded + 1
      /\ UNCHANGED <<initial, failed, resetOk>>
      /\ IF AtHorizon(sequence') /\ ~stopRequested
           THEN IF live
                  THEN phase' = "RESETTING_TO_NATIVE" /\ UNCHANGED stopRequested
                  ELSE phase' = "STOPPING" /\ stopRequested' = TRUE
           ELSE UNCHANGED <<phase, stopRequested>>
  BY DEF CallbackActs
<1>2. /\ runner \in {"short", "aligned"} /\ phase \in {"EXECUTING", "STOPPING"}
      /\ UNCHANGED <<artifactVars, fixedVars>>
      /\ clock' = clock + 1 /\ clock' \in Nat /\ IsPlan(plan)
      /\ Sequence \in Nat /\ Sequence > sequence
      /\ runner = "aligned" => Sequence <= clock'
      /\ faults = {} => /\ phase = "EXECUTING" /\ clock < Horizon
                        /\ clock' \in 1 .. Horizon /\ Sequence = clock' /\ sequence = clock
  BY <1>1, CallbackFacts
<1>3. ArmedInv'
  BY <1>2, ArmedStep DEF ExecutionInv
<1>4. ClockInv'
  <2>1. /\ phase' \in {"EXECUTING", "RESETTING_TO_NATIVE", "STOPPING"}
        /\ phase' = "RESETTING_TO_NATIVE" => live /\ sequence' >= Horizon
    BY <1>1, <1>2, Limits DEF AtHorizon
  <2> QED
    BY <1>1, <1>2, <2>1 DEF ExecutionInv, ClockInv, LooksUp
<1>5. faults = {} =>
        \A i \in DOMAIN plan.actions :
          plan.actions[i].offset <= clock' =>
            i <= IF Due(clock') = "due" THEN done + 1 ELSE done
  <2>1. faults = {} =>
          \A i \in DOMAIN plan.actions : plan.actions[i].offset <= clock => i <= done
    BY <1>2 DEF ExecutionInv, FaultlessInv
  <2> QED
    BY <1>1, <1>2, <2>1, OnTime DEF ExecutionInv, ClockInv
<1>6. /\ MemoryInv' /\ ProgressInv' /\ observed'[ResetId] = observed[ResetId]
      /\ faults = {} =>
           /\ done' < Len(plan.actions) => observed'[done' + 1] = None
           /\ done' = IF Due(clock') = "due" THEN done + 1 ELSE done
      /\ \/ UNCHANGED override
         \/ /\ Target(clock') /\ Due(sequence') = "due" /\ live /\ handle' # "missing"
            /\ \E i \in DOMAIN plan.actions : override' = plan.actions[i].value
  <2>1. phase # "IDLE" /\ phase' # "IDLE"
    BY <1>1, <1>2
  <2>2. CASE Executes(sequence')
    BY <1>1, <1>2, <2>1, <2>2, ExecutesStep DEF ExecutionInv
  <2>3. CASE Waits(sequence')
    <3>1. /\ Due(sequence') = "none"
          /\ UNCHANGED <<done, executed, override, guardVars, observed>>
      BY <2>3 DEF Waits, planVars, guardVars
    <3>2. sequence' \in Nat /\ sequence' >= sequence /\ UNCHANGED plan
      BY <1>1, <1>2 DEF ExecutionInv, ClockInv
    <3>3. MemoryInv' /\ ProgressInv'
      BY <2>1, <3>1, <3>2, QuietStep DEF ExecutionInv
    <3> QED
      BY <1>1, <1>2, <3>1, <3>3 DEF ExecutionInv, FaultlessInv
  <2> QED
    BY <2>2, <2>3 DEF CallbackActs
<1>7. ReleaseInv'
  <2>1. phase' # "IDLE" /\ phase' # "ENDED"
    BY <1>1, <1>2
  <2> QED
    BY <1>1, <1>6, <2>1, ActuatorStep
<1>8. FaultlessInv'
  <2>1. SUFFICES ASSUME faults = {} PROVE FaultlessInv'
    BY <1>2 DEF FaultlessInv
  <2>2. /\ ~failed /\ recorded = sequence /\ ~stopRequested /\ (~live => resetOk)
        /\ observed[ResetId] = None /\ runner # "orchestrator"
        /\ runner = "aligned" => (initial <=> clock >= 0)
    BY <1>2, <2>1 DEF ExecutionInv, FaultlessInv
  <2>3. recorded' = sequence' /\ sequence' = clock' /\ clock >= 0 /\ clock' >= 0
    <3>1. sequence \in Nat /\ sequence = clock /\ recorded = sequence
      BY <1>2, <2>1, <2>2 DEF ExecutionInv, ClockInv
    <3> QED
      BY <1>1, <1>2, <2>1, <3>1
  <2>4. AtHorizon(sequence') <=> clock' = Horizon
    BY <1>1, <1>2, <2>1, <2>3, Limits DEF AtHorizon
  <2>5. /\ phase' \in {"EXECUTING", "RESETTING_TO_NATIVE", "STOPPING"}
        /\ IF phase' = "EXECUTING" THEN clock' < Horizon ELSE clock' = Horizon
        /\ phase' = "STOPPING" => ~live
        /\ ~stopRequested' \/ phase' = "STOPPING"
    BY <1>1, <1>2, <2>1, <2>2, <2>4, Limits
  <2>6. /\ \A i \in DOMAIN plan.actions : plan.actions[i].offset <= clock' => i <= done'
        /\ done' < Len(plan.actions) => observed'[done' + 1] = None
    BY <1>5, <1>6, <2>1
  <2> QED
    BY <1>1, <1>2, <1>6, <2>1, <2>2, <2>3, <2>5, <2>6 DEF FaultlessInv
<1> QED
  BY <1>3, <1>4, <1>6, <1>7, <1>8 DEF ExecutionInv

LEMMA CallbackResetsStep ==
  ASSUME ExecutionInv, CallbackResets
  PROVE  ExecutionInv'
<1> USE DEF artifactVars, fixedVars
<1>1. /\ phase = "RESETTING_TO_NATIVE" /\ phase' = "STOPPING"
      /\ UNCHANGED <<artifactVars, fixedVars, clock, sequence, recorded, initial, passed,
                     done, executed, handle>>
  BY DEF CallbackResets
<1>2. live /\ sequence >= Horizon /\ sequence \in Nat /\ runner # "orchestrator"
  BY <1>1 DEF ExecutionInv, ClockInv
<1>3. PICK d :
        /\ Guard!Evaluate(ResetProposal(sequence, TRUE), d)
        /\ \/ /\ Guard!IsCommand(d)
              /\ override' = Written(d)
              /\ resetOk' = (d.outcome = "RESET_TO_NATIVE")
              /\ UNCHANGED failed
           \/ /\ Guard!IsCommand(d) => "reset" \in faults
              /\ resetOk' = FALSE
              /\ UNCHANGED <<override, failed>>
           \/ "reset" \in faults /\ UNCHANGED <<resetOk, override>>
  BY DEF CallbackResets, Resets
<1>4. /\ MemoryInv' /\ ProgressInv'
      /\ \A id \in 1 .. ActionLimit : observed'[id] = observed[id]
      /\ d.applied = None
      /\ observed[ResetId] = None => d.outcome = "RESET_TO_NATIVE"
  <2>1. /\ sequence >= sequence /\ sequence' = sequence /\ TRUE \in BOOLEAN
        /\ phase # "IDLE" /\ phase' # "IDLE" /\ UNCHANGED <<plan, done, executed>>
    BY <1>1, <1>2
  <2> QED
    BY <1>2, <1>3, <2>1, ResetStep DEF ExecutionInv
<1>5. ArmedInv'
  BY <1>1, ArmedStep DEF ExecutionInv
<1>6. ClockInv'
  BY <1>1, <1>2 DEF ExecutionInv, ClockInv
<1>7. ReleaseInv'
  <2>1. override' \in {override, None} /\ (handle # "found" => override = None)
    BY <1>2, <1>3, <1>4 DEF Written, ExecutionInv, ReleaseInv
  <2>2. resetOk' => override' = None
    BY <1>1, <1>2, <1>3, <1>4, <2>1 DEF Written, ExecutionInv, ReleaseInv
  <2> QED
    BY <1>1, <1>2, <2>1, <2>2 DEF ExecutionInv, ReleaseInv, SessionsRelease
<1>8. FaultlessInv'
  <2>1. SUFFICES ASSUME faults = {} PROVE FaultlessInv'
    BY <1>1 DEF FaultlessInv
  <2>2. observed[ResetId] = None /\ ~failed
    BY <1>1, <2>1 DEF ExecutionInv, FaultlessInv
  <2>3. Guard!IsCommand(d) /\ d.outcome = "RESET_TO_NATIVE"
    BY <1>4, <2>2 DEF Guard!IsCommand
  <2>4. resetOk' /\ ~failed'
    <3>1. resetOk' = (d.outcome = "RESET_TO_NATIVE") /\ UNCHANGED failed
      BY <1>3, <2>1, <2>3
    <3> QED
      BY <2>2, <2>3, <3>1
  <2>5. done < Len(plan.actions) => observed'[done + 1] = observed[done + 1]
    BY <1>1, <1>4, ActionFacts DEF ExecutionInv, ProgressInv, ArmedInv
  <2> QED
    BY <1>1, <1>2, <2>1, <2>4, <2>5 DEF ExecutionInv, FaultlessInv
<1> QED
  BY <1>4, <1>5, <1>6, <1>7, <1>8 DEF ExecutionInv

LEMMA CloseStep ==
  ASSUME ExecutionInv, Close
  PROVE  ExecutionInv'
<1> USE DEF artifactVars, fixedVars
<1>1. /\ runner \in {"short", "aligned"} /\ phase' = "ENDED"
      /\ UNCHANGED <<artifactVars, fixedVars, clock, sequence, recorded, initial, failed,
                     resetOk, stopRequested, done, executed, guardVars, handle>>
      /\ \/ override' = IF ClosesWithReset THEN None ELSE override
         \/ "reset" \in faults /\ UNCHANGED override
      /\ passed' = (/\ recorded = Horizon
                    /\ runner = "aligned" => initial
                    /\ ~failed
                    /\ resetOk)
      /\ \/ phase = "STOPPING"
         \/ phase = "EXECUTING" /\ ("timeout" \in faults \/ clock > Horizon)
  BY DEF Close
<1>2. ArmedInv'
  BY <1>1, ArmedStep DEF ExecutionInv
<1>3. ClockInv'
  BY <1>1 DEF ExecutionInv, ClockInv
<1>4. MemoryInv' /\ ProgressInv'
  <2>1. /\ sequence' \in Nat /\ sequence' >= sequence /\ phase # "IDLE" /\ phase' # "IDLE"
        /\ UNCHANGED <<plan, done, executed, guardVars>>
    BY <1>1 DEF ExecutionInv, ClockInv
  <2> QED
    BY <2>1, QuietStep DEF ExecutionInv
<1>5. ReleaseInv'
  <2>1. /\ override # None => live /\ handle = "found" /\ ~resetOk
        /\ live \in BOOLEAN
    BY <1>1 DEF ExecutionInv, ReleaseInv, ClockInv
  <2>2. override' # None => override' = override /\ ~passed' /\ "reset" \in faults
    BY <1>1, <2>1 DEF ClosesWithReset
  <2> QED
    BY <1>1, <2>1, <2>2 DEF ExecutionInv, ReleaseInv, SessionsRelease
<1>6. FaultlessInv'
  <2>1. SUFFICES ASSUME faults = {} PROVE FaultlessInv'
    BY <1>1 DEF FaultlessInv
  <2>2. phase = "STOPPING"
    BY <1>1, <2>1, Limits DEF ExecutionInv, FaultlessInv, ClockInv
  <2>3. /\ recorded = sequence /\ clock = Horizon /\ ~failed /\ resetOk
        /\ sequence = IF clock < 0 THEN 0 ELSE clock
        /\ runner = "aligned" => (initial <=> clock >= 0)
    BY <1>1, <2>1, <2>2 DEF ExecutionInv, FaultlessInv
  <2>4. recorded = Horizon /\ (runner = "aligned" => initial)
    BY <2>3, Limits
  <2>5. passed'
    BY <1>1, <2>3, <2>4
  <2> QED
    BY <1>1, <2>1, <2>2, <2>5 DEF ExecutionInv, FaultlessInv, guardVars
<1> QED
  BY <1>2, <1>3, <1>4, <1>5, <1>6 DEF ExecutionInv

-----------------------------------------------------------------------------
(* Theorems.                                                               *)

\* What every step of approvals, sessions and runs keeps: the inductive invariant.
THEOREM ExecutionInvariant == ExecutionSpec => []ExecutionInv
<1>1. ExecutionInit => ExecutionInv
  <2> SUFFICES ASSUME ExecutionInit PROVE ExecutionInv
    OBVIOUS
  <2>1. ArmedInv /\ ClockInv /\ ProgressInv /\ FaultlessInv
    <3>0. ArmedInv
      BY DEF ExecutionInit, ArmedInv
    <3>1. ClockInv
      <4>1. /\ clock = 0 /\ sequence = 0 /\ phase = "IDLE" /\ handle = "unknown"
            /\ live \in BOOLEAN
        BY DEF ExecutionInit
      <4> QED
        BY <4>1 DEF ClockInv
    <3>2. executed = <<>> /\ done = 0 /\ phase = "IDLE"
      BY DEF ExecutionInit
    <3>3. ProgressInv /\ FaultlessInv
      BY <3>2 DEF ProgressInv, FaultlessInv, ExecutedAsPlanned
    <3> QED
      BY <3>0, <3>1, <3>3
  <2>2. /\ observed = [id \in NoId .. ActionLimit |-> None] /\ lastSafe = None
        /\ lastValid = 0 /\ ~disabled /\ ~shutdown /\ context = SessionContext
        /\ sequence = 0
    BY DEF ExecutionInit, Guard!GuardInit
  <2>3. MemoryInv
    BY <2>2, Limits DEF MemoryInv, ResetId, NoId
  <2>4. ReleaseInv
    BY <2>2, Limits DEF ExecutionInit, ReleaseInv, SessionsRelease, ResetId, NoId
  <2> QED
    BY <2>1, <2>3, <2>4 DEF ExecutionInv
<1>2. ExecutionInv /\ [ExecutionNext]_executionVars => ExecutionInv'
  <2> SUFFICES ASSUME ExecutionInv, [ExecutionNext]_executionVars PROVE ExecutionInv'
    OBVIOUS
  <2>1. CASE UNCHANGED executionVars
    <3> USE <2>1 DEF executionVars, artifactVars, fixedVars, reportVars, planVars, guardVars
    <3>1. ArmedInv' /\ ClockInv' /\ ProgressInv'
      BY DEF ExecutionInv, ArmedInv, IsApproval, ClockInv, ProgressInv, ExecutedAsPlanned
    <3>2. MemoryInv' /\ ReleaseInv' /\ FaultlessInv'
      BY DEF ExecutionInv, MemoryInv, ReleaseInv, SessionsRelease, FaultlessInv
    <3> QED
      BY <3>1, <3>2 DEF ExecutionInv
  <2>2. CASE ExecutionNext
    BY <2>2, IdleStep, ArmStep, ExitStep, OrchestratorActsStep, OrchestratorFailsStep,
       OrchestratorResetsStep, CallbackReturnsStep, CallbackLacksHandlesStep,
       CallbackFailsStep, CallbackActsStep, CallbackResetsStep, CloseStep
       DEF ExecutionNext
  <2> QED
    BY <2>1, <2>2
<1> QED
  BY <1>1, <1>2, PTL DEF ExecutionSpec

\* Whoever runs a session and whatever fails in it, the guard's memory, which it
\* shares with the scheduler's count of actions, makes it execute the planned values
\* in their order and windows, each once.
THEOREM Planned == ExecutionSpec => []ExecutedAsPlanned
<1>1. ExecutionInv => ExecutedAsPlanned
  BY DEF ExecutionInv, ProgressInv
<1> QED
  BY <1>1, ExecutionInvariant, PTL

\* A session without faults passes, and it has executed what was due in it.
THEOREM Passes == ExecutionSpec => []FaultlessPasses
<1>1. ExecutionInv => FaultlessPasses
  <2> SUFFICES ASSUME ExecutionInv, phase = "ENDED", faults = {}
               PROVE  /\ passed
                      /\ \A i \in DOMAIN plan.actions :
                           plan.actions[i].offset <= clock => i \in DOMAIN executed
    BY DEF FaultlessPasses
  <2>1. /\ passed
        /\ \A i \in DOMAIN plan.actions : plan.actions[i].offset <= clock => i <= done
    BY DEF ExecutionInv, FaultlessInv
  <2>2. DOMAIN executed = 1 .. done /\ done \in Nat /\ DOMAIN plan.actions \subseteq Nat \ {0}
    BY DEF ExecutionInv, ArmedInv, IsPlan, ProgressInv
  <2> QED
    BY <2>1, <2>2
<1> QED
  BY <1>1, ExecutionInvariant, PTL

\* What ends has given the actuator back, unless a reset failed, and then it is no
\* PASS.
THEOREM Released == ExecutionSpec => []SessionsRelease
<1>1. ExecutionInv => SessionsRelease
  BY DEF ExecutionInv, ReleaseInv
<1> QED
  BY <1>1, ExecutionInvariant, PTL

\* The orchestrator and the aligned run move the actuator to values of the approved
\* plan only, and only by a live approval.
THEOREM Approved == ExecutionSpec => []OverrideIsApproved
<1>1. ExecutionInv => OverrideIsApproved
  BY DEF ExecutionInv, ReleaseInv, ArmedInv, OverrideIsApproved
<1> QED
  BY <1>1, ExecutionInvariant, PTL

=============================================================================
