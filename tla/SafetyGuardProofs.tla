-------------------------- MODULE SafetyGuardProofs --------------------------
(***************************************************************************)
(* Theorems about SafetyGuard, for every value of its constants.           *)
(*                                                                         *)
(* The invariant below is inductive where the properties are not: that the *)
(* setpoint a command carries is in bounds depends, through the hold and   *)
(* the rate limit, on the setpoint of the last safe command, and that a    *)
(* remembered command is on record depends on the store's transaction      *)
(* being empty between two calls.                                          *)
(***************************************************************************)
EXTENDS SafetyGuard, TLAPS

\* A decision applies a setpoint within the bounds, or none at all.
Sound(d) ==
  IF d.outcome \in SetOutcomes THEN d.applied \in Minimum .. Maximum
                               ELSE d.applied = None

\* What the guard may answer a proposal with.
Answers(p, d) == d \in Decision /\ d.proposal = p /\ Sound(d)

\* The memory refers only to commands that were released, and every released
\* command is sound.
MemorySound ==
  /\ \A c \in released : IsCommand(c) /\ Sound(c)
  /\ lastSafe # None => lastSafe \in released /\ lastSafe.outcome \in SetOutcomes
  /\ \A id \in CommandIds :
       observed[id] # None /\ IsCommand(observed[id]) => observed[id] \in released

\* With one row to a transaction nothing is ever left in an open one, so what
\* was released or is remembered is on record, and the command ids on record
\* are unique.
StoreSound ==
  /\ pending = {}
  /\ pendingCount = 0
  /\ released \subseteq committed
  /\ \A id \in CommandIds : observed[id] \in committed \cup {None}
  /\ \A a, b \in committed :
       IsCommand(a) /\ IsCommand(b) /\ a.proposal.id = b.proposal.id => a = b

GuardInv ==
  GuardTypeOK /\ MemorySound /\ (Audited /\ CommitInterval = 1 => StoreSound)

-----------------------------------------------------------------------------
(* What the guard decides.                                                 *)

\* The rate limit permits a move of at least nothing and at most the limits.
LEMMA PermittedFacts ==
  ASSUME lastSafe \in Decision, NEW p \in Proposal
  PROVE  /\ Permitted(p) \in Nat
         /\ Permitted(p) <= MaximumStep
         /\ Permitted(p) <= StepPerTimestep
                              * Greater(1, p.source - lastSafe.proposal.source)
<1> DEFINE elapsed == Greater(1, p.source - lastSafe.proposal.source)
<1>1. elapsed \in Nat /\ elapsed >= 1
  BY DEF Decision, Proposal, Greater
<1>2. MaximumStep \in Nat /\ StepPerTimestep \in Nat
  BY GuardAssumption
<1>3. StepPerTimestep * elapsed \in Nat
  BY <1>1, <1>2, SMT
<1> HIDE DEF elapsed
<1>4. Permitted(p) = Lesser(MaximumStep, StepPerTimestep * elapsed)
  BY DEF Permitted, elapsed
<1> QED
  BY <1>2, <1>3, <1>4 DEF Lesser, elapsed

\* The three ways to make a decision make a sound one.
LEMMA DecidedSound ==
  ASSUME NEW p \in Proposal, NEW reason \in Reasons
  PROVE  /\ \A outcome \in SetOutcomes, applied \in Minimum .. Maximum :
              Answers(p, Decided(p, outcome, reason, applied))
         /\ Answers(p, Reject(p, reason))
         /\ Answers(p, Reset(p, reason))
<1>1. ASSUME NEW outcome \in SetOutcomes, NEW applied \in Minimum .. Maximum
      PROVE  Answers(p, Decided(p, outcome, reason, applied))
  <2>1. applied \in Int
    BY GuardAssumption
  <2> QED
    BY <2>1 DEF Answers, Decided, Decision, Outcomes, SetOutcomes, Sound
<1>2. Answers(p, Reject(p, reason)) /\ Answers(p, Reset(p, reason))
  BY DEF Answers, Reject, Reset, Decided, Decision, Outcomes, SetOutcomes, Sound
<1> QED
  BY <1>1, <1>2

\* What the guard holds is within the bounds.
LEMMA LastSafeFacts ==
  ASSUME GuardInv, lastSafe # None
  PROVE  lastSafe \in Decision /\ lastSafe.applied \in Minimum .. Maximum
BY DEF GuardInv, GuardTypeOK, MemorySound, Sound

\* Recovering repeats the last safe setpoint or gives the actuator back.
LEMMA RecoverSound ==
  ASSUME GuardInv, NEW p \in Proposal, NEW reason \in Reasons
  PROVE  Answers(p, Recover(p, reason))
<1>1. CASE lastSafe # None /\ p.current <= lastSafe.proposal.expires
  <2>1. Recover(p, reason) = Decided(p, "HOLD_LAST_SAFE", "held_last_safe", lastSafe.applied)
    BY <1>1 DEF Recover
  <2> QED
    BY <1>1, <2>1, LastSafeFacts, DecidedSound DEF SetOutcomes, Reasons
<1>2. CASE ~(lastSafe # None /\ p.current <= lastSafe.proposal.expires)
  <2>1. Recover(p, reason) = Reset(p, reason)
    BY <1>2 DEF Recover
  <2> QED
    BY <2>1, DecidedSound
<1> QED
  BY <1>1, <1>2

\* The value rules let only setpoints within the absolute bounds through; a
\* move the rate limit cuts short ends between two such setpoints.
LEMMA JudgeValueSound ==
  ASSUME GuardInv, NEW p \in Proposal
  PROVE  Answers(p, JudgeValue(p))
<1> DEFINE boundary == Lesser(Greater(p.value, Minimum), Maximum)
<1>1. CASE p.value \in Unusable
  <2>1. JudgeValue(p) = Recover(p, "unusable_value")
    BY <1>1 DEF JudgeValue
  <2> QED
    BY <2>1, RecoverSound DEF Reasons
<1>2. CASE p.value \notin Unusable
  <2>1. p.value \in Int /\ Minimum \in Int /\ Maximum \in Int /\ Minimum <= Maximum
    BY <1>2, GuardAssumption DEF Proposal
  <2>2. boundary \in Minimum .. Maximum
    BY <2>1 DEF Lesser, Greater
  <2>3. CASE p.value # boundary /\ Distance(p.value, boundary) <= MarginalClamp
    <3>1. JudgeValue(p) = Decided(p, "CLAMP", "clamped_absolute_bound", boundary)
      BY <1>2, <2>3 DEF JudgeValue
    <3> QED
      BY <3>1, <2>2, DecidedSound DEF SetOutcomes, Reasons
  <2>4. CASE p.value # boundary /\ ~(Distance(p.value, boundary) <= MarginalClamp)
    <3>1. JudgeValue(p) = Recover(p, "out_of_absolute_bounds")
      BY <1>2, <2>4 DEF JudgeValue
    <3> QED
      BY <3>1, RecoverSound DEF Reasons
  <2>5. CASE /\ p.value = boundary
             /\ lastSafe # None
             /\ Distance(p.value, lastSafe.applied) > Permitted(p)
    <3>1. lastSafe \in Decision /\ lastSafe.applied \in Minimum .. Maximum
      BY <2>5, LastSafeFacts
    <3>2. Permitted(p) \in Nat
      BY <3>1, PermittedFacts
    <3> DEFINE moved == IF p.value > lastSafe.applied
                          THEN lastSafe.applied + Permitted(p)
                          ELSE lastSafe.applied - Permitted(p)
    <3>3. p.value \in Minimum .. Maximum
      BY <2>2, <2>5
    <3>4. moved \in Minimum .. Maximum
      BY <2>1, <2>5, <3>1, <3>2, <3>3 DEF Distance
    <3>5. JudgeValue(p) = Decided(p, "CLAMP", "clamped_rate_limit", moved)
      BY <1>2, <2>5 DEF JudgeValue
    <3> QED
      BY <3>4, <3>5, DecidedSound DEF SetOutcomes, Reasons
  <2>6. CASE /\ p.value = boundary
             /\ ~(lastSafe # None /\ Distance(p.value, lastSafe.applied) > Permitted(p))
    <3>1. JudgeValue(p) = Decided(p, "ALLOW", "allowed", p.value)
      BY <1>2, <2>6 DEF JudgeValue
    <3> QED
      BY <3>1, <2>2, <2>6, DecidedSound DEF SetOutcomes, Reasons
  <2> QED
    BY <2>3, <2>4, <2>5, <2>6
<1> QED
  BY <1>1, <1>2

\* Whatever check decides, the decision is a sound one about the proposal.
LEMMA JudgementSound ==
  ASSUME GuardInv, NEW p \in Proposal
  PROVE  Answers(p, Judgement(p))
<1>1. \A reason \in Reasons : /\ Answers(p, Reject(p, reason))
                             /\ Answers(p, Reset(p, reason))
                             /\ Answers(p, Recover(p, reason))
  BY DecidedSound, RecoverSound
<1>2. IdentityReason(p) # None => IdentityReason(p) \in Reasons
  BY DEF IdentityReason, IdentityReasons, Reasons
<1>3. Answers(p, JudgeNew(p))
  <2>1. Answers(p, JudgeValue(p))
    BY JudgeValueSound
  <2> QED
    BY <1>1, <1>2, <2>1 DEF JudgeNew, Reasons
<1> QED
  BY <1>1, <1>3 DEF Judgement, Reasons

-----------------------------------------------------------------------------
(* The invariant.                                                          *)

LEMMA InitInv == GuardInit => GuardInv
<1> SUFFICES ASSUME GuardInit PROVE GuardInv
  OBVIOUS
<1>1. GuardTypeOK
  <2>1. {disabled, shutdown} \subseteq BOOLEAN
    BY DEF GuardInit
  <2>2. observed \in [CommandIds -> Decision \cup {None}]
    BY DEF GuardInit
  <2> QED
    BY <2>1, <2>2 DEF GuardInit, GuardTypeOK
<1>2. MemorySound
  BY DEF GuardInit, MemorySound
<1>3. StoreSound
  BY DEF GuardInit, StoreSound
<1> QED
  BY <1>1, <1>2, <1>3 DEF GuardInv

\* A duplicate is answered with a command that was released before.
LEMMA ReturnOriginalInv ==
  ASSUME GuardInv, NEW p \in Proposal, NEW d, ReturnOriginal(p, d)
  PROVE  GuardInv' /\ UNCHANGED guardVars
<1>1. p.id \in CommandIds
  BY DEF Proposal
<1>2. released' = released
  BY <1>1 DEF GuardInv, MemorySound, ReturnOriginal, ExactDuplicate, Released
<1>3. UNCHANGED guardVars
  BY <1>2 DEF ReturnOriginal, guardVars
<1> QED
  BY <1>3 DEF GuardInv, GuardTypeOK, MemorySound, StoreSound, guardVars, memoryVars, storeVars

\* What leaves the memory alone and writes nothing keeps the invariant.
LEMMA FailClosedInv ==
  ASSUME GuardInv, NEW p \in Proposal, NEW d, FailClosed(p, d)
  PROVE  GuardInv'
<1>1. UNCHANGED <<disabled, shutdown, context, lastSafe, lastValid, observed,
                  committed, released>> /\ pending' = {} /\ pendingCount' = 0
  BY DEF FailClosed, Rollback, memoryVars
<1> QED
  BY <1>1 DEF GuardInv, GuardTypeOK, MemorySound, StoreSound

\* A new decision: sound, on record before it is released or remembered, and
\* under an id no command on record has.
LEMMA FinishInv ==
  ASSUME GuardInv, NEW p \in Proposal, NEW d, Finish(p, d)
  PROVE  GuardInv'
<1>1. p.id \in CommandIds
  BY DEF Proposal
<1>2. d \in Decision /\ d.proposal = p /\ Sound(d)
  BY <1>1, JudgementSound DEF Finish, Answers
<1>3. d.outcome \in SetOutcomes => IsCommand(d)
  BY DEF IsCommand, SetOutcomes
<1>4. \/ UNCHANGED memoryVars
      \/ /\ UNCHANGED <<disabled, shutdown, context>>
         /\ lastValid' = Greater(lastValid, p.source)
         /\ observed' = [observed EXCEPT ![p.id] = d]
         /\ lastSafe' = IF d.outcome \in SetOutcomes THEN d ELSE lastSafe
  BY <1>2 DEF Finish, Remember
<1>5. released' = IF IsCommand(d) THEN released \cup {d} ELSE released
  BY DEF Finish, Released
<1>6. /\ committed' \subseteq committed \cup pending \cup {d}
      /\ pending' \subseteq pending \cup {d}
      /\ pendingCount' \in Nat
  BY DEF Finish, Append, storeVars, GuardInv, GuardTypeOK
<1>7. GuardTypeOK'
  <2>1. lastValid' \in Int /\ context' \in Contexts /\ {disabled', shutdown'} \subseteq BOOLEAN
    BY <1>1, <1>4 DEF GuardInv, GuardTypeOK, Proposal, Greater, memoryVars
  <2>2. lastSafe' \in Decision \cup {None} /\ observed' \in [CommandIds -> Decision \cup {None}]
    BY <1>1, <1>2, <1>4 DEF GuardInv, GuardTypeOK, memoryVars
  <2>3. committed' \subseteq Decision /\ pending' \subseteq Decision /\ released' \subseteq Decision
    BY <1>2, <1>5, <1>6 DEF GuardInv, GuardTypeOK
  <2> QED
    BY <1>6, <2>1, <2>2, <2>3 DEF GuardTypeOK
<1>8. MemorySound'
  <2>1. \A c \in released' : IsCommand(c) /\ Sound(c)
    BY <1>2, <1>5 DEF GuardInv, MemorySound
  <2>2. lastSafe' # None => lastSafe' \in released' /\ lastSafe'.outcome \in SetOutcomes
    BY <1>3, <1>4, <1>5 DEF GuardInv, MemorySound, memoryVars
  <2>3. ASSUME NEW id \in CommandIds, observed'[id] # None, IsCommand(observed'[id])
        PROVE  observed'[id] \in released'
    BY <1>1, <1>4, <1>5, <2>3 DEF GuardInv, GuardTypeOK, MemorySound, memoryVars
  <2> QED
    BY <2>1, <2>2, <2>3 DEF MemorySound, IsCommand, Sound
<1>9. ASSUME Audited, CommitInterval = 1
      PROVE  StoreSound'
  <2>1. StoreSound /\ ~StoreRefuses(d) /\ Append(d)
    BY <1>9 DEF GuardInv, Finish
  <2>2. pending' = {} /\ pendingCount' = 0 /\ committed' = committed \cup {d}
    BY <1>9, <2>1 DEF StoreSound, Append
  <2>3. released' \subseteq committed'
    BY <1>5, <2>1, <2>2 DEF StoreSound
  <2>4. \A id \in CommandIds : observed'[id] \in committed' \cup {None}
    BY <1>1, <1>4, <2>1, <2>2 DEF StoreSound, GuardInv, GuardTypeOK, memoryVars
  <2>5. IsCommand(d) => \A row \in committed : IsCommand(row) => row.proposal.id # d.proposal.id
    BY <2>1 DEF StoreRefuses, Rows
  <2>6. \A a, b \in committed' :
          IsCommand(a) /\ IsCommand(b) /\ a.proposal.id = b.proposal.id => a = b
    BY <2>1, <2>2, <2>5 DEF StoreSound
  <2> QED
    BY <2>2, <2>3, <2>4, <2>6 DEF StoreSound, IsCommand
<1> QED
  BY <1>7, <1>8, <1>9 DEF GuardInv

\* Whichever way evaluate returns.
LEMMA EvaluateInv ==
  ASSUME GuardInv, NEW p \in Proposal, NEW d, Evaluate(p, d)
  PROVE  GuardInv'
<1>1. CASE FailInternally(p, d)
  BY <1>1 DEF FailInternally, GuardInv, GuardTypeOK, MemorySound, StoreSound,
              guardVars, memoryVars, storeVars
<1> QED
  BY <1>1, ReturnOriginalInv, FailClosedInv, FinishInv DEF Evaluate

\* What a caller of an audited guard sees: evaluate records at most one row,
\* the sound decision it returns under an id no command on record has, and what
\* it returns as a command is released.
LEMMA EvaluateFacts ==
  ASSUME Audited, CommitInterval = 1, GuardInv,
         NEW p \in Proposal, NEW d, Evaluate(p, d)
  PROVE  /\ UNCHANGED <<disabled, shutdown, context>>
         /\ released \subseteq released'
         /\ IsCommand(d) => d \in released'
         /\ \/ UNCHANGED committed
            \/ /\ committed' = committed \cup {d}
               /\ Answers(p, d)
               /\ IsCommand(d) =>
                    \A row \in committed : IsCommand(row) => row.proposal.id # p.id
<1>1. CASE ReturnOriginal(p, d)
  <2>1. UNCHANGED guardVars
    BY <1>1, ReturnOriginalInv
  <2>2. IsCommand(d) => d \in released
    BY <1>1 DEF ReturnOriginal, ExactDuplicate, GuardInv, MemorySound, Proposal
  <2> QED
    BY <2>1, <2>2 DEF guardVars, memoryVars, storeVars
<1>2. CASE FailInternally(p, d)
  BY <1>2 DEF FailInternally, Reject, Decided, IsCommand, guardVars, memoryVars, storeVars
<1>3. CASE FailClosed(p, d)
  BY <1>3 DEF FailClosed, Rollback, Reject, Decided, IsCommand, memoryVars
<1>4. CASE Finish(p, d)
  <2>1. Answers(p, d)
    BY <1>4, JudgementSound DEF Finish
  <2>2. UNCHANGED <<disabled, shutdown, context>>
    BY <1>4 DEF Finish, Remember, memoryVars
  <2>3. ~StoreRefuses(d) /\ Append(d) /\ Released(d)
    BY <1>4 DEF Finish
  <2>4. committed' = committed \cup {d}
    BY <2>3 DEF Append, GuardInv, StoreSound
  <2>5. IsCommand(d) =>
          \A row \in committed : IsCommand(row) => row.proposal.id # p.id
    BY <2>1, <2>3 DEF StoreRefuses, Rows, Answers
  <2> QED
    BY <2>1, <2>2, <2>3, <2>4, <2>5 DEF Released
<1> QED
  BY <1>1, <1>2, <1>3, <1>4 DEF Evaluate

\* p passes every check that precedes the reset and the value rules.
Timely(p) ==
  /\ ReachesDuplicates(p) /\ observed[p.id] = None
  /\ p.context = context /\ p.environment \in EnvironmentTypes
  /\ lastValid <= p.source /\ p.source < p.validFrom /\ p.source <= p.decided
  /\ p.current \in p.validFrom .. p.expires
  /\ p.current - p.source <= MaximumStateAge + 1
  /\ IdentityReason(p) = None

\* Such a proposal is answered with a command, and a reset with a reset.
LEMMA TimelyJudgement ==
  ASSUME NEW p \in Proposal, Timely(p), lastValid \in Int
  PROVE  /\ p.reset => Judgement(p) = Reset(p, "allowed_native_reset")
         /\ IsCommand(Judgement(p))
         /\ Judgement(p).proposal = p
         /\ Judgement(p).reason # "conflicting_duplicate"
<1>1. Judgement(p) = JudgeNew(p)
  BY DEF Timely, ReachesDuplicates, Judgement
<1>2. JudgeNew(p) = IF p.reset THEN Reset(p, "allowed_native_reset") ELSE JudgeValue(p)
  <2>1. /\ ~(p.source < lastValid)
        /\ ~(p.source >= p.validFrom \/ p.source > p.decided)
        /\ ~(p.current < p.validFrom)
        /\ ~(p.current > p.expires)
    BY DEF Timely, Proposal
  <2>2. ~(p.current - p.source > MaximumStateAge + 1)
    BY GuardAssumption DEF Timely, Proposal
  <2> QED
    BY <2>1, <2>2 DEF Timely, JudgeNew
<1>3. \A outcome, reason, applied :
        /\ Decided(p, outcome, reason, applied).outcome = outcome
        /\ Decided(p, outcome, reason, applied).reason = reason
        /\ Decided(p, outcome, reason, applied).proposal = p
  BY DEF Decided
<1>4. /\ IsCommand(JudgeValue(p))
      /\ JudgeValue(p).proposal = p
      /\ JudgeValue(p).reason # "conflicting_duplicate"
  <2>1. \A reason \in {"unusable_value", "out_of_absolute_bounds"} :
          /\ IsCommand(Recover(p, reason))
          /\ Recover(p, reason).proposal = p
          /\ Recover(p, reason).reason # "conflicting_duplicate"
    BY <1>3 DEF Recover, Reset, IsCommand
  <2> QED
    BY <1>3, <2>1 DEF JudgeValue, IsCommand
<1>5. /\ IsCommand(Reset(p, "allowed_native_reset"))
      /\ Reset(p, "allowed_native_reset").proposal = p
      /\ Reset(p, "allowed_native_reset").reason # "conflicting_duplicate"
  BY <1>3 DEF Reset, IsCommand
<1> QED
  BY <1>1, <1>2, <1>4, <1>5

\* Under an id that is not on record, with a value that can be stored and room
\* for it, it is answered so unless the store fails for a reason of its own.
LEMMA TimelyRecorded ==
  ASSUME Audited, CommitInterval = 1, GuardInv,
         NEW p \in Proposal, Timely(p),
         p.value \notin {NaN, Infinite, Oversized},
         \A row \in committed : row.proposal.id # p.id,
         Cardinality(committed) < MaximumRows, MaximumRows \in Int,
         Cardinality(committed) \in Int,
         NEW d, Evaluate(p, d),
         d.reason = "persistence_failure_fail_closed" => StoreRefuses(Judgement(p))
  PROVE  /\ d = Judgement(p)
         /\ committed' = committed \cup {d}
         /\ lastValid' = p.source
         /\ observed' = [observed EXCEPT ![p.id] = d]
<1>1. lastValid \in Int /\ Rows = committed
  BY DEF GuardInv, GuardTypeOK, StoreSound, Rows
<1>2. /\ IsCommand(Judgement(p))
      /\ Judgement(p).proposal = p
      /\ Judgement(p).reason # "conflicting_duplicate"
  BY <1>1, TimelyJudgement
<1>3. ~Crashes(Judgement(p))
  BY <1>2 DEF Crashes
<1>4. ~StoreRefuses(Judgement(p))
  BY <1>1, <1>2 DEF StoreRefuses
<1>5. ~ExactDuplicate(p)
  BY DEF Timely, ExactDuplicate
<1>6. ~FailClosed(p, d)
  BY <1>4 DEF FailClosed, Reject, Decided
<1>7. Finish(p, d)
  BY <1>3, <1>5, <1>6 DEF Evaluate, ReturnOriginal, FailInternally
<1>8. d = Judgement(p) /\ Append(d) /\ Remember(d)
  BY <1>2, <1>7 DEF Finish
<1>9. committed' = committed \cup {d}
  BY <1>8 DEF Append, GuardInv, StoreSound
<1>10. lastValid' = p.source
  BY <1>1, <1>2, <1>8 DEF Remember, Greater, Timely, Proposal
<1>11. observed' = [observed EXCEPT ![p.id] = d]
  BY <1>2, <1>8 DEF Remember
<1> QED
  BY <1>8, <1>9, <1>10, <1>11

\* Every step of the guard keeps the invariant.
LEMMA StepInv == GuardInv /\ [GuardNext]_guardVars => GuardInv'
<1> SUFFICES ASSUME GuardInv, [GuardNext]_guardVars
             PROVE  GuardInv'
  OBVIOUS
<1>1. ASSUME NEW p \in Proposals, NEW d, Evaluate(p, d)
      PROVE  GuardInv'
  BY <1>1, GuardAssumption, EvaluateInv
<1>2. ASSUME NEW c \in Contexts, ResetFor(c)
      PROVE  GuardInv'
  <2>1. GuardTypeOK'
    <3>1. {disabled', shutdown'} \subseteq BOOLEAN
      BY <1>2 DEF ResetFor
    <3>2. observed' \in [CommandIds -> Decision \cup {None}]
      BY <1>2 DEF ResetFor
    <3> QED
      BY <1>2, <3>1, <3>2 DEF ResetFor, GuardInv, GuardTypeOK, storeVars
  <2>2. MemorySound'
    BY <1>2 DEF ResetFor, GuardInv, MemorySound, IsCommand, Sound
  <2>3. ASSUME StoreSound PROVE StoreSound'
    BY <1>2, <2>3 DEF ResetFor, StoreSound, storeVars
  <2> QED
    BY <2>1, <2>2, <2>3 DEF GuardInv
<1>3. CASE WarmupComplete
  BY <1>3 DEF WarmupComplete, GuardInv, GuardTypeOK, MemorySound, StoreSound, storeVars
<1>4. CASE Disable
  BY <1>4 DEF Disable, GuardInv, GuardTypeOK, MemorySound, StoreSound, storeVars
<1>5. CASE BeginShutdown
  BY <1>5 DEF BeginShutdown, GuardInv, GuardTypeOK, MemorySound, StoreSound, storeVars
<1>6. CASE UNCHANGED guardVars
  BY <1>6 DEF GuardInv, GuardTypeOK, MemorySound, StoreSound, guardVars, memoryVars, storeVars
<1> QED
  BY <1>1, <1>2, <1>3, <1>4, <1>5, <1>6 DEF GuardNext

LEMMA SpecInv == GuardSpec => []GuardInv
BY InitInv, StepInv, PTL DEF GuardSpec

-----------------------------------------------------------------------------
(* The theorems.                                                           *)

\* The guard's memory, its audit store and the commands it has released have
\* their types (evaluate, append and SafetyMemory's operations).
THEOREM TypeCorrect == GuardSpec => []GuardTypeOK
<1>1. GuardInv => GuardTypeOK
  BY DEF GuardInv
<1> QED
  BY <1>1, SpecInv, PTL

\* For every configuration of bounds, clamps and rates and every proposal,
\* finite or not, stale or not: what evaluate releases is within the absolute
\* bounds or gives the actuator back.
THEOREM InBounds == GuardSpec => []ReleasedInBounds
<1>1. GuardInv => ReleasedInBounds
  BY DEF GuardInv, GuardTypeOK, MemorySound, ReleasedInBounds, Sound, IsCommand,
         Decision, Outcomes, SetOutcomes
<1> QED
  BY <1>1, SpecInv, PTL

\* With one row to a transaction, as in live control, whatever evaluate ever
\* released is committed to the audit (SafetyStore.append, _finish).
THEOREM OnRecord == GuardSpec => []ReleasedIsCommitted
<1>1. GuardInv => ReleasedIsCommitted
  BY DEF GuardInv, StoreSound, ReleasedIsCommitted
<1> QED
  BY <1>1, SpecInv, PTL

\* With one row to a transaction no two commands ever leave evaluate under one
\* id, although reset_for_run forgets the ids that were seen.
THEOREM IdsAreUnique == GuardSpec => []OneCommandPerId
<1>1. GuardInv => OneCommandPerId
  BY DEF GuardInv, MemorySound, StoreSound, OneCommandPerId
<1> QED
  BY <1>1, SpecInv, PTL

\* With one row to a transaction, what evaluate would return for a duplicate
\* is a decision the store has on record.
THEOREM RememberedOnRecord ==
  ASSUME CommitInterval = 1
  PROVE  GuardSpec => []RememberedIsPersisted
<1>1. GuardInv => RememberedIsPersisted
  BY DEF GuardInv, StoreSound, RememberedIsPersisted, Rows
<1> QED
  BY <1>1, SpecInv, PTL

-----------------------------------------------------------------------------
(* How far the setpoint the guard holds moves in one step.                 *)

\* d, decided for p, stays within the rate limit, or is no setpoint, or was
\* chosen by the absolute clamp.
WithinRate(p, d) ==
  d.outcome \in SetOutcomes /\ d.reason # "clamped_absolute_bound" =>
    /\ Distance(d.applied, lastSafe.applied) <= MaximumStep
    /\ Distance(d.applied, lastSafe.applied) <=
         StepPerTimestep * Greater(1, p.source - lastSafe.proposal.source)

\* A move of at most what is permitted is within the rate limit.
LEMMA PermittedWithinRate ==
  ASSUME lastSafe \in Decision, NEW p \in Proposal, NEW d \in Decision,
         d.applied \in Int, lastSafe.applied \in Int,
         Distance(d.applied, lastSafe.applied) <= Permitted(p)
  PROVE  WithinRate(p, d)
<1> DEFINE limit == StepPerTimestep * Greater(1, p.source - lastSafe.proposal.source)
<1>1. Greater(1, p.source - lastSafe.proposal.source) \in Nat
  BY DEF Decision, Proposal, Greater
<1>2. limit \in Int /\ MaximumStep \in Int
  BY <1>1, GuardAssumption
<1>3. Permitted(p) \in Nat /\ Permitted(p) <= MaximumStep /\ Permitted(p) <= limit
  BY PermittedFacts
<1>4. Distance(d.applied, lastSafe.applied) \in Int
  BY DEF Distance
<1> HIDE DEF limit
<1>5. /\ Distance(d.applied, lastSafe.applied) <= MaximumStep
      /\ Distance(d.applied, lastSafe.applied) <= limit
  BY <1>2, <1>3, <1>4
<1> QED
  BY <1>5 DEF WithinRate, limit

\* A hold does not move the setpoint at all.
LEMMA RecoverWithinRate ==
  ASSUME GuardInv, lastSafe # None, NEW p \in Proposal, NEW reason \in Reasons
  PROVE  WithinRate(p, Recover(p, reason))
<1>1. CASE p.current <= lastSafe.proposal.expires
  <2>1. Recover(p, reason) = Decided(p, "HOLD_LAST_SAFE", "held_last_safe", lastSafe.applied)
    BY <1>1 DEF Recover
  <2>2. Recover(p, reason).applied = lastSafe.applied
    BY <2>1 DEF Decided
  <2>3. lastSafe \in Decision /\ lastSafe.applied \in Int
    BY LastSafeFacts, GuardAssumption
  <2>4. Distance(lastSafe.applied, lastSafe.applied) = 0
    BY <2>3 DEF Distance
  <2>5. Recover(p, reason) \in Decision
    BY RecoverSound DEF Answers
  <2>6. 0 <= Permitted(p)
    BY <2>3, PermittedFacts
  <2> QED
    BY <2>2, <2>3, <2>4, <2>5, <2>6, PermittedWithinRate
<1>2. CASE ~(p.current <= lastSafe.proposal.expires)
  BY <1>2 DEF Recover, Reset, Decided, WithinRate, SetOutcomes
<1> QED
  BY <1>1, <1>2

\* Every decision that applies a setpoint keeps to the rate limit, unless the
\* absolute clamp returned first.
LEMMA JudgementWithinRate ==
  ASSUME GuardInv, lastSafe # None, NEW p \in Proposal
  PROVE  WithinRate(p, Judgement(p))
<1>1. \A reason \in Reasons : /\ WithinRate(p, Reject(p, reason))
                              /\ WithinRate(p, Reset(p, reason))
                              /\ WithinRate(p, Recover(p, reason))
  <2>1. \A reason \in Reasons : /\ WithinRate(p, Reject(p, reason))
                                /\ WithinRate(p, Reset(p, reason))
    BY DEF Reject, Reset, Decided, WithinRate, SetOutcomes
  <2> QED
    BY <2>1, RecoverWithinRate
<1>2. WithinRate(p, JudgeValue(p))
  <2> DEFINE boundary == Lesser(Greater(p.value, Minimum), Maximum)
  <2>1. lastSafe \in Decision /\ lastSafe.applied \in Int
    BY LastSafeFacts, GuardAssumption
  <2>2. Permitted(p) \in Nat
    BY <2>1, PermittedFacts
  <2>3. JudgeValue(p) \in Decision
    BY JudgeValueSound DEF Answers
  <2>4. CASE p.value \in Unusable \/ (p.value # boundary
                                       /\ ~(Distance(p.value, boundary) <= MarginalClamp))
    BY <1>1, <2>4 DEF JudgeValue, Reasons
  <2>5. CASE /\ p.value \notin Unusable
             /\ p.value # boundary
             /\ Distance(p.value, boundary) <= MarginalClamp
    BY <2>5 DEF JudgeValue, Decided, WithinRate
  <2>6. CASE p.value \notin Unusable /\ p.value = boundary
    <3>1. p.value \in Int
      BY <2>6 DEF Proposal
    <3>2. CASE Distance(p.value, lastSafe.applied) > Permitted(p)
      <4> DEFINE moved == IF p.value > lastSafe.applied
                            THEN lastSafe.applied + Permitted(p)
                            ELSE lastSafe.applied - Permitted(p)
      <4>1. JudgeValue(p).applied = moved
        BY <2>6, <3>2 DEF JudgeValue, Decided
      <4>2. moved \in Int /\ Distance(moved, lastSafe.applied) <= Permitted(p)
        BY <2>1, <2>2, <3>1 DEF Distance
      <4> HIDE DEF moved
      <4> QED
        BY <2>1, <2>3, <4>1, <4>2, PermittedWithinRate
    <3>3. CASE ~(Distance(p.value, lastSafe.applied) > Permitted(p))
      <4>1. JudgeValue(p).applied = p.value
        BY <2>6, <3>3 DEF JudgeValue, Decided
      <4>2. Distance(p.value, lastSafe.applied) <= Permitted(p)
        BY <2>1, <2>2, <3>1, <3>3 DEF Distance
      <4> QED
        BY <2>1, <2>3, <3>1, <4>1, <4>2, PermittedWithinRate
    <3> QED
      BY <3>2, <3>3
  <2> QED
    BY <2>4, <2>5, <2>6
<1>3. IdentityReason(p) # None => IdentityReason(p) \in Reasons
  BY DEF IdentityReason, IdentityReasons, Reasons
<1>4. WithinRate(p, JudgeNew(p))
  BY <1>1, <1>2, <1>3 DEF JudgeNew, Reasons
<1> QED
  BY <1>1, <1>4 DEF Judgement, Reasons

\* For every rate, clamp and sequence of proposals: unless the absolute clamp
\* chose it, the setpoint the guard holds next is within the rate limit of the
\* one it holds now (_evaluate's rate rule, _recover, and what _finish
\* remembers).
THEOREM RateLimited == GuardSpec => MovesWithinRate
<1> DEFINE Moves ==
      lastSafe # None /\ lastSafe' # None
        /\ lastSafe'.reason # "clamped_absolute_bound" =>
          /\ Distance(lastSafe'.applied, lastSafe.applied) <= MaximumStep
          /\ Distance(lastSafe'.applied, lastSafe.applied) <=
               StepPerTimestep * Greater(1, lastSafe'.proposal.source
                                              - lastSafe.proposal.source)
<1>1. ASSUME GuardInv, lastSafe # None, UNCHANGED lastSafe
      PROVE  Moves
  <2>1. lastSafe \in Decision /\ lastSafe.applied \in Int
    BY <1>1, LastSafeFacts, GuardAssumption
  <2>2. lastSafe.proposal.source \in Int
    BY <2>1 DEF Decision, Proposal
  <2>3. /\ Distance(lastSafe.applied, lastSafe.applied) = 0
        /\ Greater(1, lastSafe.proposal.source - lastSafe.proposal.source) = 1
    BY <2>1, <2>2 DEF Distance, Greater
  <2>4. 0 <= MaximumStep /\ 0 <= StepPerTimestep * 1
    BY GuardAssumption
  <2> QED
    BY <1>1, <2>3, <2>4
<1>2. ASSUME GuardInv, [GuardNext]_guardVars
      PROVE  Moves
  <2>1. CASE lastSafe # None /\ lastSafe' # None /\ lastSafe' # lastSafe
    <3>1. PICK p \in Proposals : \E d \in Returns(p) : Finish(p, d)
      BY <1>2, <2>1 DEF GuardNext, Evaluate, ReturnOriginal, FailInternally, FailClosed,
           ResetFor, WarmupComplete, Disable, BeginShutdown, guardVars, memoryVars
    <3>2. PICK d : Finish(p, d)
      BY <3>1
    <3>3. p \in Proposal
      BY GuardAssumption
    <3>4. d = Judgement(p) /\ d.proposal = p
      BY <1>2, <3>2, <3>3, JudgementSound DEF Finish, Answers
    <3>5. lastSafe' = d /\ d.outcome \in SetOutcomes
      BY <2>1, <3>2 DEF Finish, Remember, memoryVars
    <3>6. WithinRate(p, d)
      BY <1>2, <2>1, <3>3, <3>4, JudgementWithinRate
    <3> QED
      BY <3>4, <3>5, <3>6 DEF WithinRate
  <2> QED
    BY <1>1, <1>2, <2>1
<1>3. GuardInv /\ [GuardNext]_guardVars => [Moves]_guardVars
  BY <1>2
<1> QED
  BY <1>3, SpecInv, PTL DEF GuardSpec, MovesWithinRate

\* A guard that is disabled or shutting down answers every proposal with a reset,
\* also one that it once allowed and would otherwise answer as before: the test
\* for duplicates comes after the tests for stopping (evaluate).
THEOREM StoppedResets == GuardSpec => []StoppedOnlyResets
<1>1. StoppedOnlyResets
  <2> SUFFICES ASSUME disabled \/ shutdown, NEW p \in Proposals
               PROVE  (IF ExactDuplicate(p) THEN observed[p.id] ELSE Judgement(p)).outcome
                        \in {"RESET_TO_NATIVE", "REJECT_NO_WRITE"}
    BY DEF StoppedOnlyResets
  <2>1. ~ExactDuplicate(p)
    BY DEF ExactDuplicate, ReachesDuplicates
  <2>2. Judgement(p) \in {Reset(p, "disabled_control"), Reset(p, "shutdown_in_progress")}
    BY DEF Judgement
  <2>3. \A reason : Reset(p, reason).outcome = "RESET_TO_NATIVE"
    BY DEF Reset, Decided
  <2> QED
    BY <2>1, <2>2, <2>3
<1> QED
  BY <1>1, PTL

=============================================================================
