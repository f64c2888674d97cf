------------------------ MODULE GuardedControlProofs ------------------------
(***************************************************************************)
(* Theorems about GuardedControl, for every value of its constants.        *)
(***************************************************************************)
EXTENDS GuardedControl, FiniteSetTheorems, TLAPS

\* The theorems about the guard and the controller, of which the controller's are
\* taken with any setpoint, since it may read its own override back.
GuardFacts == INSTANCE SafetyGuardProofs WITH
  Enabled <- TRUE, Audited <- TRUE, CommitInterval <- 1, SchemaVersion <- 1,
  EnvironmentTypes <- {3}, ApprovedZones <- {RealZone}, PlenumZones <- {"PLENUM-1"},
  ApprovedActuator <- Space3, Names <- Names, Contexts <- {LiveContext},
  CommandIds <- NoId .. MaximumSequence, NoCommandId <- NoId, Proposals <- {},
  MaximumRows <- 2 * MaximumSequence

\* What is used of the controller says nothing of the history kept beside it.
ControllerFacts == INSTANCE FallbackControllerProofs WITH
  Zones <- {RealZone}, ApprovedZones <- {RealZone}, Gaps <- {1}, Setpoints <- Int,
  hot <- 0, protected <- 0

-----------------------------------------------------------------------------
(* The invariants.                                                         *)

\* A snapshot is counted after it was normalised, and decided on when it was.
Counters ==
  /\ snapshots \in Nat
  /\ normalised \in snapshots .. snapshots + 1
  /\ normalised <= MaximumSequence
  /\ lastSequence = normalised
  /\ currentSequence = IF snapshots = 0 THEN 0 ELSE snapshots + 1

\* The guard is never stopped here, and judges in the context of the run; what
\* is in the buffer was released by it, and decided from a past state.
GuardInUse ==
  /\ GuardFacts!GuardInv
  /\ ~disabled /\ ~shutdown /\ context = LiveContext
  /\ latest # None => latest \in released
  /\ \A row \in committed : row.proposal.source < row.proposal.validFrom

\* What a reading of the plant may show.
PlantTyped == native \in NativeSetpoints /\ override \in Int \cup {None}

ContractInv ==
  Counters /\ PlantTyped /\ ControllerFacts!ControllerTypeOK /\ GuardInUse

\* In a run whose store does not fail there is one row for every snapshot that
\* was counted, so that the store is not full and the next id is new.
OneRowPerSnapshot ==
  /\ lastValid <= snapshots
  /\ \A id \in NoId .. MaximumSequence : observed[id] # None => id \in 1 .. snapshots
  /\ \A row \in committed : row.proposal.id \in 1 .. snapshots
  /\ IsFiniteSet(committed) /\ Cardinality(committed) <= snapshots

\* The buffer always has the command for the period at hand, and after the
\* executor has run it is the one that stands on the actuator.
LatestIsCurrent ==
  /\ IF currentSequence = 0
       THEN latest = None /\ override = None
       ELSE /\ latest # None
            /\ latest.proposal.validFrom = currentSequence
            /\ latest.proposal.expires = currentSequence - 1 + CommandTtl
  /\ active <=> override # None
  /\ ~handle => override = None
  /\ phase = "zone" /\ currentSequence > 0 /\ handle =>
       override = latest.applied /\ authority = latest

\* A zone the controller does not hold has been given back, unless its decision
\* was lost, after which there is no other.
ReleasedWhenInactive ==
  Settled /\ ~zone.active => latest = None \/ latest.applied = None

ReliableInv ==
  /\ zone.active => zone.native \in NativeSetpoints
  /\ ~closed => OneRowPerSnapshot /\ LatestIsCurrent /\ ReleasedWhenInactive
  /\ closed => override = None

ReleaseInv == "audit" \notin faults => ReliableInv

-----------------------------------------------------------------------------
(* The guard and the controller are the ones the theorems are about.       *)

LEMMA GuardAssumed == GuardFacts!GuardAssumption
<1>1. NoId \in NoId .. MaximumSequence
  BY ControlAssumption DEF NoId
<1>2. {LiveContext} \subseteq GuardFacts!Context
  BY DEF LiveContext, Names, GuardFacts!Context
<1> QED
  BY <1>1, <1>2, ControlAssumption DEF GuardFacts!GuardAssumption, GuardFacts!Unusable

LEMMA ControllerAssumed == ControllerFacts!ControllerAssumption
BY ControlAssumption DEF ControllerFacts!ControllerAssumption

\* The helpers of the guard that its action evaluate is built from.
LEMMA SameJudgement ==
  ASSUME NEW p
  PROVE  /\ Guard!Judgement(p) = GuardFacts!Judgement(p)
         /\ Guard!ExactDuplicate(p) <=> GuardFacts!ExactDuplicate(p)
<1>1. \A reason : /\ Guard!Reject(p, reason) = GuardFacts!Reject(p, reason)
                  /\ Guard!Reset(p, reason) = GuardFacts!Reset(p, reason)
                  /\ Guard!Recover(p, reason) = GuardFacts!Recover(p, reason)
  BY DEF Guard!Reject, GuardFacts!Reject, Guard!Reset, GuardFacts!Reset, Guard!Recover,
         GuardFacts!Recover, Guard!Decided, GuardFacts!Decided
<1>2. Guard!IdentityReason(p) = GuardFacts!IdentityReason(p)
  BY DEF Guard!IdentityReason, GuardFacts!IdentityReason
<1>3. Guard!Permitted(p) = GuardFacts!Permitted(p)
  BY DEF Guard!Permitted, GuardFacts!Permitted, Guard!Lesser, GuardFacts!Lesser,
         Guard!Greater, GuardFacts!Greater
<1>4. Guard!JudgeValue(p) = GuardFacts!JudgeValue(p)
  <2>1. \A a, b : /\ Guard!Lesser(a, b) = GuardFacts!Lesser(a, b)
                 /\ Guard!Greater(a, b) = GuardFacts!Greater(a, b)
                 /\ Guard!Distance(a, b) = GuardFacts!Distance(a, b)
    BY DEF Guard!Lesser, GuardFacts!Lesser, Guard!Greater, GuardFacts!Greater,
           Guard!Distance, GuardFacts!Distance
  <2>2. \A outcome, reason, applied :
          Guard!Decided(p, outcome, reason, applied) = GuardFacts!Decided(p, outcome, reason, applied)
    BY DEF Guard!Decided, GuardFacts!Decided
  <2> QED
    BY <1>1, <1>3, <2>1, <2>2 DEF Guard!JudgeValue, GuardFacts!JudgeValue,
       Guard!Unusable, GuardFacts!Unusable
<1>5. Guard!JudgeNew(p) = GuardFacts!JudgeNew(p)
  BY <1>1, <1>2, <1>4 DEF Guard!JudgeNew, GuardFacts!JudgeNew
<1>6. Guard!Judgement(p) = GuardFacts!Judgement(p)
  BY <1>1, <1>5 DEF Guard!Judgement, GuardFacts!Judgement
<1>7. Guard!ExactDuplicate(p) <=> GuardFacts!ExactDuplicate(p)
  BY DEF Guard!ExactDuplicate, GuardFacts!ExactDuplicate, Guard!ReachesDuplicates,
         GuardFacts!ReachesDuplicates
<1> QED
  BY <1>6, <1>7

LEMMA SameCardinality ==
  ASSUME NEW S
  PROVE  /\ Guard!Cardinality(S) = Cardinality(S)
         /\ GuardFacts!Cardinality(S) = Cardinality(S)
BY DEF Guard!Cardinality, GuardFacts!Cardinality, Cardinality

LEMMA SameDecision == Guard!Decision = GuardFacts!Decision
BY DEF Guard!Decision, GuardFacts!Decision, Guard!Proposal, GuardFacts!Proposal,
   Guard!Context, GuardFacts!Context, Guard!Actuator, GuardFacts!Actuator,
   Guard!Unusable, GuardFacts!Unusable, Guard!Outcomes, GuardFacts!Outcomes,
   Guard!SetOutcomes, GuardFacts!SetOutcomes, Guard!Reasons, GuardFacts!Reasons,
   Guard!IdentityReasons, GuardFacts!IdentityReasons

LEMMA SameRefusal ==
  ASSUME NEW d
  PROVE  Guard!StoreRefuses(d) <=> GuardFacts!StoreRefuses(d)
BY SameCardinality DEF Guard!StoreRefuses, GuardFacts!StoreRefuses, Guard!Rows,
   GuardFacts!Rows, Guard!IsCommand, GuardFacts!IsCommand

LEMMA SameEvaluate ==
  ASSUME NEW p, NEW d, Guard!Evaluate(p, d)
  PROVE  GuardFacts!Evaluate(p, d)
<1>1. CASE Guard!ReturnOriginal(p, d)
  BY <1>1, SameJudgement DEF Guard!ReturnOriginal, GuardFacts!ReturnOriginal,
     GuardFacts!Evaluate, Guard!Released, GuardFacts!Released, Guard!IsCommand,
     GuardFacts!IsCommand, Guard!memoryVars, GuardFacts!memoryVars, Guard!storeVars,
     GuardFacts!storeVars
<1>2. CASE Guard!FailInternally(p, d)
  BY <1>2, SameJudgement DEF Guard!FailInternally, GuardFacts!FailInternally,
     GuardFacts!Evaluate, Guard!Crashes, GuardFacts!Crashes, Guard!IsCommand,
     GuardFacts!IsCommand, Guard!Reject, GuardFacts!Reject, Guard!Decided,
     GuardFacts!Decided, Guard!guardVars, GuardFacts!guardVars, Guard!memoryVars,
     GuardFacts!memoryVars, Guard!storeVars, GuardFacts!storeVars
<1>3. CASE Guard!FailClosed(p, d)
  BY <1>3, SameJudgement DEF Guard!FailClosed, GuardFacts!FailClosed,
     GuardFacts!Evaluate, Guard!Crashes, GuardFacts!Crashes, Guard!IsCommand,
     GuardFacts!IsCommand, Guard!Reject, GuardFacts!Reject, Guard!Decided,
     GuardFacts!Decided, Guard!memoryVars, GuardFacts!memoryVars, Guard!Rollback,
     GuardFacts!Rollback
<1>4. CASE Guard!Finish(p, d)
  <2>1. /\ ~GuardFacts!ExactDuplicate(p)
        /\ d = GuardFacts!Judgement(p)
        /\ ~GuardFacts!Crashes(d)
    BY <1>4, SameJudgement DEF Guard!Finish, Guard!Crashes, GuardFacts!Crashes,
       Guard!IsCommand, GuardFacts!IsCommand
  <2>2. ~GuardFacts!StoreRefuses(d) /\ GuardFacts!Append(d)
    BY <1>4, SameCardinality DEF Guard!Finish, Guard!StoreRefuses, GuardFacts!StoreRefuses,
       Guard!Append, GuardFacts!Append, Guard!Rows, GuardFacts!Rows, Guard!IsCommand,
       GuardFacts!IsCommand
  <2>3. IF d.reason = "conflicting_duplicate" THEN UNCHANGED GuardFacts!memoryVars
                                              ELSE GuardFacts!Remember(d)
    BY <1>4 DEF Guard!Finish, Guard!Remember, GuardFacts!Remember, Guard!memoryVars,
       GuardFacts!memoryVars, Guard!Greater, GuardFacts!Greater, Guard!SetOutcomes,
       GuardFacts!SetOutcomes
  <2>4. GuardFacts!Released(d)
    BY <1>4 DEF Guard!Finish, Guard!Released, GuardFacts!Released, Guard!IsCommand,
       GuardFacts!IsCommand
  <2> QED
    BY <2>1, <2>2, <2>3, <2>4 DEF GuardFacts!Evaluate, GuardFacts!Finish
<1> QED
  BY <1>1, <1>2, <1>3, <1>4 DEF Guard!Evaluate

LEMMA SameEvaluation ==
  ASSUME NEW sequence, NEW state, Controller!Evaluate(sequence, state)
  PROVE  ControllerFacts!Evaluate(sequence, state)
<1>1. \A a, b : /\ Controller!Lesser(a, b) = ControllerFacts!Lesser(a, b)
               /\ Controller!Greater(a, b) = ControllerFacts!Greater(a, b)
  BY DEF Controller!Lesser, ControllerFacts!Lesser, Controller!Greater,
         ControllerFacts!Greater
<1>2. ASSUME NEW name, NEW zoneState, NEW m
      PROVE  Controller!EvaluateZone(name, zoneState, m)
               = ControllerFacts!EvaluateZone(name, zoneState, m)
  <2>1. Controller!Counted(zoneState, m) = ControllerFacts!Counted(zoneState, m)
    BY <1>1 DEF Controller!Counted, ControllerFacts!Counted
  <2>2. Controller!Baseline(zoneState, m) = ControllerFacts!Baseline(zoneState, m)
    BY DEF Controller!Baseline, ControllerFacts!Baseline
  <2>3. \A b : Controller!Wanted(zoneState, m, b) = ControllerFacts!Wanted(zoneState, m, b)
    BY <1>1 DEF Controller!Wanted, ControllerFacts!Wanted, Controller!Recovering,
       ControllerFacts!Recovering, Controller!Protected, ControllerFacts!Protected
  <2>4. \A a, b : Controller!Bounded(a, b) = ControllerFacts!Bounded(a, b)
    BY <1>1 DEF Controller!Bounded, ControllerFacts!Bounded
  <2>5. Controller!Chosen(zoneState, m) = ControllerFacts!Chosen(zoneState, m)
    BY <2>1, <2>2, <2>3, <2>4 DEF Controller!Chosen, ControllerFacts!Chosen
  <2>6. \A mode, action, value :
          Controller!Unchosen(Controller!Counted(zoneState, m), mode, action, value)
            = ControllerFacts!Unchosen(ControllerFacts!Counted(zoneState, m), mode, action, value)
    BY <2>1 DEF Controller!Unchosen, ControllerFacts!Unchosen
  <2>7. Controller!MustHold(m) <=> ControllerFacts!MustHold(m)
    BY DEF Controller!MustHold, ControllerFacts!MustHold
  <2> QED
    BY <2>5, <2>6, <2>7 DEF Controller!EvaluateZone, ControllerFacts!EvaluateZone
<1>3. \A policy : Controller!Decide(sequence, policy) = ControllerFacts!Decide(sequence, policy)
  BY DEF Controller!Decide, ControllerFacts!Decide, Controller!Gap, ControllerFacts!Gap
<1> QED
  BY <1>2, <1>3 DEF Controller!Evaluate, ControllerFacts!Evaluate

\* A decision of the controller on a reading of the plant.
LEMMA ControllerStep ==
  ASSUME ContractInv, NEW sequence \in Nat, NEW reading \in Reading,
         Controller!Evaluate(sequence, [z \in {RealZone} |-> reading])
  PROVE  /\ ControllerFacts!ControllerTypeOK'
         /\ lastSequence' = sequence
         /\ decision'[RealZone] \in ControllerFacts!Decision
         /\ decision'[RealZone].sequence = sequence
<1> DEFINE state == [z \in {RealZone} |-> reading]
<1>1. reading \in ControllerFacts!ZoneState
  <2>1. reading.effective \in Int \cup {None}
    BY ControlAssumption DEF ContractInv, PlantTyped, Reading
  <2> QED
    BY <2>1 DEF Reading, ControllerFacts!ZoneState
<1>2. state \in [{RealZone} -> ControllerFacts!ZoneState]
  BY <1>1
<1>3. ~ControllerFacts!NearBounds
  <2>1. MaximumSetpoint + MaximumDelta + 1 \in Int
    BY ControlAssumption
  <2>2. MaximumSetpoint + MaximumDelta + 1 \notin
          (MinimumSetpoint - MaximumDelta) .. (MaximumSetpoint + MaximumDelta)
    BY ControlAssumption
  <2> QED
    BY <2>1, <2>2 DEF ControllerFacts!NearBounds
<1>4. ControllerFacts!ControllerInv
  BY <1>3 DEF ControllerFacts!ControllerInv, ContractInv
<1>5. ControllerFacts!Evaluate(sequence, state)
  BY SameEvaluation
<1>6. ControllerFacts!ControllerInv'
  BY <1>2, <1>4, <1>5, ControllerAssumed, ControllerFacts!EvaluateInv
<1>7. lastSequence' = sequence /\ decision'[RealZone].sequence = sequence
  BY <1>5 DEF ControllerFacts!Evaluate, ControllerFacts!Decide
<1> QED
  BY <1>6, <1>7 DEF ControllerFacts!ControllerInv, ControllerFacts!ControllerTypeOK

\* What the executor finds in the buffer is a command on record, in its time.
LEMMA FetchedFacts ==
  ASSUME ContractInv, NEW command \in GuardFacts!Decision, NEW sequence \in Int,
         Fetched(command, sequence) # None
  PROVE  /\ Fetched(command, sequence) = command
         /\ sequence \in command.proposal.validFrom .. command.proposal.expires
<1>1. /\ command.proposal.validFrom \in Int /\ command.proposal.expires \in Int
  BY DEF GuardFacts!Decision, GuardFacts!Proposal
<1>2. command # None
  BY DEF Fetched, Kept
<1> QED
  BY <1>1, <1>2 DEF Fetched, Kept, Expired

-----------------------------------------------------------------------------
(* The contract.                                                           *)

LEMMA ContractInit == ControlInit => ContractInv
<1> SUFFICES ASSUME ControlInit PROVE ContractInv
  OBVIOUS
<1>1. Counters
  BY ControlAssumption DEF ControlInit, Controller!ControllerInit, Counters
<1>2. ControllerFacts!ControllerTypeOK
  <2>1. ControllerFacts!ControllerInit
    BY DEF ControlInit, Controller!ControllerInit, ControllerFacts!ControllerInit,
       Controller!NewMemory, ControllerFacts!NewMemory, Controller!NoDecision,
       ControllerFacts!NoDecision
  <2> QED
    BY <2>1, ControllerAssumed, ControllerFacts!InitInv DEF ControllerFacts!ControllerInv
<1>3. GuardInUse
  <2>1. GuardFacts!GuardInit
    BY DEF ControlInit, Guard!GuardInit, GuardFacts!GuardInit
  <2>2. GuardFacts!GuardInv
    BY <2>1, GuardAssumed, GuardFacts!InitInv
  <2> QED
    BY <2>2 DEF ControlInit, Guard!GuardInit, GuardInUse
<1> QED
  BY <1>1, <1>2, <1>3 DEF ContractInv, PlantTyped, ControlInit

\* The commands publish_snapshot and close put before the guard are decided
\* from a state that lies before the periods they are for.
LEMMA ProposalFacts ==
  ASSUME NEW d \in ControllerFacts!Decision, d.sequence <= MaximumSequence
  PROVE  /\ ProposalOf(d) \in GuardFacts!Proposal
         /\ ProposalOf(d).source < ProposalOf(d).validFrom
<1>1. /\ d.sequence \in Nat /\ d.approved \in Int \cup {None}
      /\ MaximumSequence \in Nat /\ CommandTtl \in Nat
  BY ControlAssumption DEF ControllerFacts!Decision
<1>2. LiveContext \in GuardFacts!Context
  BY DEF LiveContext, Names, GuardFacts!Context
<1>3. Space3 \in GuardFacts!Actuator
  BY DEF Space3, RealZone, Names, GuardFacts!Actuator
<1>4. d.sequence \in NoId .. MaximumSequence /\ d.sequence + CommandTtl \in Int
  BY <1>1 DEF NoId
<1>5. RealZone \in Names
  BY DEF Names
<1> QED
  BY <1>1, <1>2, <1>3, <1>4, <1>5 DEF ProposalOf, GuardFacts!Proposal, GuardFacts!Unusable,
     Controller!ValidFrom, Controller!ExpiresAfter

LEMMA ShutdownFacts ==
  ASSUME ContractInv
  PROVE  /\ ShutdownProposal \in GuardFacts!Proposal
         /\ ShutdownProposal.source < ShutdownProposal.validFrom
<1>1. LiveContext \in GuardFacts!Context
  BY DEF LiveContext, Names, GuardFacts!Context
<1>2. Space3 \in GuardFacts!Actuator
  BY DEF Space3, RealZone, Names, GuardFacts!Actuator
<1>3. currentSequence \in Int /\ ShutdownId \in NoId .. MaximumSequence
  BY ControlAssumption DEF ContractInv, Counters, ShutdownId, NoId
<1>4. RealZone \in Names
  BY DEF Names
<1> QED
  BY <1>1, <1>2, <1>3, <1>4 DEF ShutdownProposal, GuardFacts!Proposal, GuardFacts!Unusable

\* The grants on record.
Granted == {GrantOf(c) : c \in {row \in committed : Guard!IsCommand(row)}}

\* A call of evaluate grants at most one thing, and a sound one.
LEMMA JudgedStep ==
  ASSUME ContractInv, NEW p \in GuardFacts!Proposal, NEW d, Judged(p, d),
         p.source < p.validFrom,
         latest' \in {Published(d), None}
  PROVE  /\ GuardInUse'
         /\ Contract!Record
         /\ Published(d) # None => Published(d) \in released'
<1>1. GuardFacts!Evaluate(p, d) /\ GuardFacts!GuardInv
  BY SameEvaluate DEF Judged, ContractInv, GuardInUse
<1>2. GuardFacts!GuardInv'
  BY <1>1, GuardAssumed, GuardFacts!EvaluateInv
<1>3. /\ UNCHANGED <<disabled, shutdown, context>>
      /\ released \subseteq released'
      /\ GuardFacts!IsCommand(d) => d \in released'
      /\ \/ UNCHANGED committed
         \/ /\ committed' = committed \cup {d}
            /\ GuardFacts!Answers(p, d)
            /\ GuardFacts!IsCommand(d) =>
                 \A row \in committed :
                   GuardFacts!IsCommand(row) => row.proposal.id # p.id
  BY <1>1, GuardAssumed, GuardFacts!EvaluateFacts
<1>4. \A c : Guard!IsCommand(c) <=> GuardFacts!IsCommand(c)
  BY DEF Guard!IsCommand, GuardFacts!IsCommand
<1>5. Published(d) # None => Published(d) \in released'
  BY <1>3, <1>4 DEF Published, ContractInv, GuardInUse
<1>6. \A row \in committed' : row.proposal.source < row.proposal.validFrom
  BY <1>3 DEF ContractInv, GuardInUse, GuardFacts!Answers
<1>7. GuardInUse'
  BY <1>2, <1>3, <1>5, <1>6 DEF ContractInv, GuardInUse
<1>8. Granted' = Granted \/ \E g \in Granted' :
        /\ g \in Contract!Grant
        /\ g.source < g.from
        /\ \A h \in Granted : h.id # g.id
        /\ Granted' = Granted \cup {g}
  <2>1. CASE UNCHANGED committed
    BY <2>1 DEF Granted, Guard!IsCommand
  <2>2. CASE committed' = committed \cup {d} /\ ~Guard!IsCommand(d)
    BY <2>2 DEF Granted, Guard!IsCommand
  <2>3. CASE /\ committed' = committed \cup {d}
             /\ GuardFacts!Answers(p, d)
             /\ Guard!IsCommand(d)
             /\ \A row \in committed :
                  GuardFacts!IsCommand(row) => row.proposal.id # p.id
    <3> DEFINE g == GrantOf(d)
    <3>1. g \in Contract!Grant
      <4>1. g.setpoint \in (Minimum .. Maximum) \cup {None}
        BY <2>3 DEF GrantOf, GuardFacts!Answers, GuardFacts!Sound
      <4>2. d.proposal.id \in NoId .. MaximumSequence
        BY <2>3 DEF GuardFacts!Answers, GuardFacts!Proposal
      <4>3. d.proposal.id \in Int
        BY <4>2, ControlAssumption DEF NoId
      <4> QED
        BY <2>3, <4>1, <4>3 DEF GrantOf, GuardFacts!Answers, GuardFacts!Proposal,
           Contract!Grant
    <3>2. g.source < g.from
      BY <2>3 DEF GrantOf, GuardFacts!Answers
    <3>3. \A h \in Granted : h.id # g.id
      BY <1>4, <2>3 DEF Granted, GrantOf, GuardFacts!Answers
    <3>4. Granted' = Granted \cup {g} /\ g \in Granted'
      BY <2>3 DEF Granted, Guard!IsCommand, GrantOf
    <3> QED
      BY <3>1, <3>2, <3>3, <3>4
  <2> QED
    BY <1>3, <1>4, <2>1, <2>2, <2>3
<1>9. Contract!Record
  BY <1>8 DEF Contract!Record, Granted
<1> QED
  BY <1>5, <1>7, <1>9

\* The actuator is moved to what a grant says, in the grant's time.
Moved ==
  \/ UNCHANGED override
  \/ \E g \in Granted' : currentSequence \in g.from .. g.until /\ override' = g.setpoint

\* A command the guard released moves it so.
LEMMA FetchedMoves ==
  ASSUME ContractInv, GuardInUse', NEW command, command # None => command \in released',
         Fetched(command, currentSequence) # None,
         override' = Fetched(command, currentSequence).applied
  PROVE  Moved /\ override' \in Int \cup {None}
<1>1. command \in released'
  BY DEF Fetched, Kept
<1>2. /\ command \in committed' /\ command \in GuardFacts!Decision
      /\ GuardFacts!IsCommand(command)
  BY <1>1 DEF GuardInUse, GuardFacts!GuardInv, GuardFacts!GuardTypeOK,
     GuardFacts!MemorySound, GuardFacts!StoreSound, GuardFacts!IsCommand
<1>3. /\ Fetched(command, currentSequence) = command
      /\ currentSequence \in command.proposal.validFrom .. command.proposal.expires
  BY <1>2, FetchedFacts DEF ContractInv, Counters
<1>4. GrantOf(command) \in Granted'
  BY <1>2 DEF Granted, GrantOf, Guard!IsCommand, GuardFacts!IsCommand
<1> QED
  BY <1>2, <1>3, <1>4 DEF Moved, GrantOf, GuardFacts!Decision

\* Nothing happens to the guard's records, nor to what may be in the buffer.
LEMMA GuardIdle ==
  ASSUME GuardInUse, UNCHANGED guardVars, latest' \in {latest, None}
  PROVE  GuardInUse' /\ Contract!Record
<1>1. GuardInUse'
  BY DEF GuardInUse, guardVars, GuardFacts!GuardInv, GuardFacts!GuardTypeOK,
     GuardFacts!MemorySound, GuardFacts!StoreSound, GuardFacts!IsCommand, GuardFacts!Sound
<1>2. Contract!Record
  BY DEF guardVars, Contract!Record, Guard!IsCommand
<1> QED
  BY <1>1, <1>2

\* What one step comes to.
ContractStepOf ==
  ContractInv' /\ Contract!Record /\ Moved /\ currentSequence' >= currentSequence

LEMMA SystemTimestepContract == ContractInv /\ SystemTimestep => ContractStepOf
<1> SUFFICES ASSUME ContractInv, SystemTimestep PROVE ContractStepOf
  OBVIOUS
<1>1. UNCHANGED <<native, snapshots, normalised, currentSequence, controllerVars, guardVars>>
  BY DEF SystemTimestep, sensorVars
<1>2. latest' \in {latest, None}
  BY DEF SystemTimestep, Kept
<1>3. GuardInUse' /\ Contract!Record
  BY <1>1, <1>2, GuardIdle DEF ContractInv
<1>4. Moved /\ override' \in Int \cup {None}
  <2>1. CASE UNCHANGED override
    BY <2>1 DEF Moved, ContractInv, PlantTyped
  <2>2. CASE /\ Fetched(latest, currentSequence) # None
             /\ override' = Fetched(latest, currentSequence).applied
    <3>1. latest # None => latest \in released'
      BY <1>1 DEF ContractInv, GuardInUse, guardVars
    <3> QED
      BY <1>3, <2>2, <3>1, FetchedMoves
  <2> QED
    BY <2>1, <2>2 DEF SystemTimestep, Submit
<1>5. Counters' /\ ControllerFacts!ControllerTypeOK' /\ currentSequence' >= currentSequence
  BY <1>1, ControlAssumption DEF ContractInv, Counters, controllerVars,
     ControllerFacts!ControllerTypeOK
<1> QED
  BY <1>1, <1>3, <1>4, <1>5 DEF ContractStepOf, ContractInv, PlantTyped

\* A timestep whose snapshot is lost before the controller decides on it.
LEMMA LostSnapshotContract ==
  ContractInv /\ (SensorFailure \/ RepeatedSequence) => ContractStepOf
<1> SUFFICES ASSUME ContractInv, SensorFailure \/ RepeatedSequence PROVE ContractStepOf
  OBVIOUS
<1>1. /\ UNCHANGED <<override, snapshots, normalised, latest, currentSequence,
                     controllerVars, guardVars>>
      /\ native' \in NativeSetpoints
  BY DEF SensorFailure, RepeatedSequence, EndOfTimestep, sensorVars, executorVars
<1>2. GuardInUse' /\ Contract!Record
  BY <1>1, GuardIdle DEF ContractInv
<1>3. Counters' /\ ControllerFacts!ControllerTypeOK' /\ currentSequence' >= currentSequence
  BY <1>1, ControlAssumption DEF ContractInv, Counters, controllerVars,
     ControllerFacts!ControllerTypeOK
<1> QED
  BY <1>1, <1>2, <1>3 DEF ContractStepOf, ContractInv, PlantTyped, Moved

LEMMA EnqueueFailureContract == ContractInv /\ EnqueueFailure => ContractStepOf
<1> SUFFICES ASSUME ContractInv, EnqueueFailure PROVE ContractStepOf
  OBVIOUS
<1>1. /\ UNCHANGED <<override, snapshots, latest, currentSequence, guardVars>>
      /\ native' \in NativeSetpoints
      /\ normalised' = snapshots + 1
      /\ normalised' <= MaximumSequence
  BY DEF EnqueueFailure, EndOfTimestep, executorVars
<1>2. PICK reading \in Reading :
        Controller!Evaluate(normalised', [z \in {RealZone} |-> reading])
  BY DEF EnqueueFailure
<1>3. normalised' \in Nat
  BY <1>1 DEF ContractInv, Counters
<1>4. ControllerFacts!ControllerTypeOK' /\ lastSequence' = normalised'
  BY <1>2, <1>3, ControllerStep
<1>5. GuardInUse' /\ Contract!Record
  BY <1>1, GuardIdle DEF ContractInv
<1>6. Counters' /\ currentSequence' >= currentSequence
  BY <1>1, <1>4 DEF ContractInv, Counters
<1> QED
  BY <1>1, <1>4, <1>5, <1>6 DEF ContractStepOf, ContractInv, PlantTyped, Moved

LEMMA PublishSnapshotContract == ContractInv /\ PublishSnapshot => ContractStepOf
<1> SUFFICES ASSUME ContractInv, PublishSnapshot PROVE ContractStepOf
  OBVIOUS
<1>1. /\ UNCHANGED override
      /\ native' \in NativeSetpoints
      /\ snapshots + 1 > normalised
      /\ normalised' = snapshots + 1
      /\ normalised' <= MaximumSequence
      /\ currentSequence' = normalised' + 1
      /\ snapshots' = normalised'
  BY DEF PublishSnapshot, EndOfTimestep
<1>2. PICK reading \in Reading :
        Controller!Evaluate(normalised', [z \in {RealZone} |-> reading])
  BY DEF PublishSnapshot
<1>3. normalised' \in Nat
  BY <1>1 DEF ContractInv, Counters
<1>4. /\ ControllerFacts!ControllerTypeOK'
      /\ lastSequence' = normalised'
      /\ decision'[RealZone] \in ControllerFacts!Decision
      /\ decision'[RealZone].sequence = normalised'
  BY <1>2, <1>3, ControllerStep
<1> DEFINE p == ProposalOf(decision'[RealZone])
<1>5. PICK d : Judged(p, d) /\ latest' = Published(d)
  BY DEF PublishSnapshot
<1>6. p \in GuardFacts!Proposal /\ p.source < p.validFrom
  BY <1>1, <1>4, ProposalFacts
<1> HIDE DEF p
<1>7. GuardInUse' /\ Contract!Record
  BY <1>5, <1>6, JudgedStep
<1>8. Counters' /\ currentSequence' >= currentSequence
  BY <1>1, <1>4 DEF ContractInv, Counters
<1> QED
  BY <1>1, <1>4, <1>7, <1>8 DEF ContractStepOf, ContractInv, PlantTyped, Moved

LEMMA CloseContract == ContractInv /\ (CloseActive \/ CloseInactive) => ContractStepOf
<1> SUFFICES ASSUME ContractInv, CloseActive \/ CloseInactive PROVE ContractStepOf
  OBVIOUS
<1>1. /\ UNCHANGED <<native, snapshots, normalised, currentSequence, controllerVars>>
      /\ latest' = None
  BY DEF CloseActive, CloseInactive, plantVars, sensorVars, executorVars
<1>2. Counters' /\ ControllerFacts!ControllerTypeOK' /\ currentSequence' >= currentSequence
  BY <1>1, ControlAssumption DEF ContractInv, Counters, controllerVars,
     ControllerFacts!ControllerTypeOK
<1>3. GuardInUse' /\ Contract!Record /\ Moved /\ override' \in Int \cup {None}
  <2>1. CASE CloseInactive
    <3>1. UNCHANGED <<override, guardVars>>
      BY <2>1 DEF CloseInactive, plantVars
    <3> QED
      BY <1>1, <3>1, GuardIdle DEF ContractInv, Moved, PlantTyped
  <2>2. CASE CloseActive
    <3>1. PICK d :
            /\ Judged(ShutdownProposal, d)
            /\ \/ UNCHANGED override
               \/ /\ Fetched(Published(d), currentSequence) # None
                  /\ override' = Fetched(Published(d), currentSequence).applied
      BY <2>2 DEF CloseActive
    <3>2. /\ GuardInUse' /\ Contract!Record
          /\ Published(d) # None => Published(d) \in released'
      BY <1>1, <3>1, ShutdownFacts, JudgedStep
    <3>3. Moved /\ override' \in Int \cup {None}
      BY <3>1, <3>2, FetchedMoves DEF Moved, ContractInv, PlantTyped
    <3> QED
      BY <3>2, <3>3
  <2> QED
    BY <2>1, <2>2
<1> QED
  BY <1>1, <1>2, <1>3 DEF ContractStepOf, ContractInv, PlantTyped

LEMMA ContractStep ==
  ASSUME ContractInv, [ControlNext]_controlVars
  PROVE  ContractInv' /\ [Contract!Next]_(Contract!vars)
<1>1. CASE ControlNext
  <2>1. ContractStepOf
    BY <1>1, SystemTimestepContract, LostSnapshotContract, EnqueueFailureContract,
       PublishSnapshotContract, CloseContract DEF ControlNext, Callback
  <2>2. Contract!Move
    BY <2>1 DEF ContractStepOf, Moved, Granted, Contract!Move
  <2> QED
    BY <2>1, <2>2 DEF ContractStepOf, Contract!Next
<1>2. CASE UNCHANGED controlVars
  <2>1. /\ UNCHANGED <<native, override, snapshots, normalised, currentSequence, latest>>
        /\ UNCHANGED <<controllerVars, guardVars>>
    BY <1>2 DEF controlVars, plantVars, sensorVars, executorVars
  <2>2. GuardInUse'
    BY <2>1, GuardIdle DEF ContractInv
  <2>3. Counters' /\ ControllerFacts!ControllerTypeOK' /\ PlantTyped'
    BY <2>1 DEF ContractInv, Counters, PlantTyped, controllerVars,
       ControllerFacts!ControllerTypeOK
  <2>4. UNCHANGED Contract!vars
    BY <2>1 DEF Contract!vars, guardVars, Guard!IsCommand
  <2> QED
    BY <2>2, <2>3, <2>4 DEF ContractInv
<1> QED
  BY <1>1, <1>2

LEMMA ContractHolds == ControlSpec => []ContractInv
BY ContractInit, ContractStep, PTL DEF ControlSpec

-----------------------------------------------------------------------------
(* Release.                                                                *)

\* The controller takes a zone over at a setpoint of the building's schedule,
\* and gives up a zone only by a reset.
LEMMA ControllerKeeps ==
  ASSUME ContractInv, NEW sequence \in Nat, NEW reading \in Reading,
         Controller!Evaluate(sequence, [z \in {RealZone} |-> reading]),
         zone.active => zone.native \in NativeSetpoints,
         ~zone.active => override = None
  PROVE  /\ zone'.active => zone'.native \in NativeSetpoints
         /\ ~zone'.active => decision'[RealZone].action = "RESET"
<1> DEFINE state == [z \in {RealZone} |-> reading]
<1> DEFINE result == ControllerFacts!EvaluateZone(RealZone, reading, zone)
<1>1. reading \in ControllerFacts!ZoneState
  <2>1. reading.effective \in Int \cup {None}
    BY ControlAssumption DEF ContractInv, PlantTyped, Reading
  <2> QED
    BY <2>1 DEF Reading, ControllerFacts!ZoneState
<1>2. zone \in ControllerFacts!ZoneMemory
  BY DEF ContractInv, ControllerFacts!ControllerTypeOK, zone
<1>3. ~zone.active => reading.effective \in NativeSetpoints \cup {None}
  BY DEF Reading, ContractInv, PlantTyped
<1>4. NativeSetpoints \in SUBSET Int
  BY ControlAssumption
<1>5. /\ result.memory.active => result.memory.native \in NativeSetpoints
      /\ ~result.memory.active => result.action = "RESET"
  BY <1>1, <1>2, <1>3, <1>4, ControllerAssumed, ControllerFacts!EvaluateZoneKeeps
<1>6. /\ zone' = result.memory
      /\ decision'[RealZone] = ControllerFacts!Decide(sequence, result)
  BY SameEvaluation DEF ControllerFacts!Evaluate, zone
<1> HIDE DEF result
<1> QED
  BY <1>5, <1>6 DEF ControllerFacts!Decide

\* With a store that does not fail, a command the guard is asked for in time and
\* under a new id is recorded and returned; a reset is.
LEMMA JudgedInTime ==
  ASSUME ContractInv, OneRowPerSnapshot, snapshots < 2 * MaximumSequence,
         "audit" \notin faults,
         NEW p \in GuardFacts!Proposal, NEW d, Judged(p, d),
         p.id \notin 1 .. snapshots, p.id # NoId,
         p.context = LiveContext, p.environment = 3, p.zone = RealZone,
         p.actuator = Space3, p.ready, ~p.warmup, p.schema = 1,
         p.value \in Int \cup {None},
         snapshots <= p.source, p.source < p.validFrom, p.source <= p.decided,
         p.current \in p.validFrom .. p.expires, p.current = p.source + 1
  PROVE  /\ Published(d) = d /\ d # None
         /\ d.proposal = p
         /\ p.reset => d.applied = None
         /\ committed' = committed \cup {d}
         /\ lastValid' = p.source
         /\ observed' = [observed EXCEPT ![p.id] = d]
<1>1. GuardFacts!Evaluate(p, d) /\ GuardFacts!GuardInv
  BY SameEvaluate DEF Judged, ContractInv, GuardInUse
<1>2. /\ lastValid \in Int /\ snapshots \in Nat
      /\ p.id \in NoId .. MaximumSequence
  BY <1>1 DEF GuardFacts!GuardInv, GuardFacts!GuardTypeOK, GuardFacts!Proposal,
     ContractInv, Counters
<1>3. GuardFacts!Timely(p)
  <2>1. GuardFacts!ReachesDuplicates(p)
    BY DEF GuardFacts!ReachesDuplicates, ContractInv, GuardInUse
  <2>2. GuardFacts!IdentityReason(p) = None
    BY DEF GuardFacts!IdentityReason, RealZone, Space3
  <2>3. observed[p.id] = None
    BY <1>2 DEF OneRowPerSnapshot
  <2>4. lastValid <= p.source /\ p.current - p.source <= MaximumStateAge + 1
    BY <1>2, ControlAssumption DEF OneRowPerSnapshot, GuardFacts!Proposal
  <2> QED
    BY <2>1, <2>2, <2>3, <2>4 DEF GuardFacts!Timely, ContractInv, GuardInUse
<1>4. p.value \notin {NaN, Infinite, Oversized}
  BY ControlAssumption
<1>5. \A row \in committed : row.proposal.id # p.id
  BY DEF OneRowPerSnapshot
<1>6. /\ GuardFacts!Cardinality(committed) < 2 * MaximumSequence
      /\ GuardFacts!Cardinality(committed) \in Int
      /\ 2 * MaximumSequence \in Int
  <2>1. GuardFacts!Cardinality(committed) = Cardinality(committed)
    BY SameCardinality
  <2>2. Cardinality(committed) \in Nat /\ Cardinality(committed) <= snapshots
    BY FS_CardinalityType DEF OneRowPerSnapshot
  <2>3. MaximumSequence \in Nat
    BY ControlAssumption
  <2> HIDE DEF OneRowPerSnapshot
  <2> QED
    BY <1>2, <2>1, <2>2, <2>3
<1>7. d.reason = "persistence_failure_fail_closed" =>
        GuardFacts!StoreRefuses(GuardFacts!Judgement(p))
  <2>1. Guard!Judgement(p) = GuardFacts!Judgement(p)
    BY SameJudgement
  <2>2. d.reason = "persistence_failure_fail_closed" =>
          Guard!StoreRefuses(GuardFacts!Judgement(p))
    BY <2>1 DEF Judged, Guard!StoreRefuses
  <2> QED
    BY <2>2, SameRefusal
<1>8. /\ d = GuardFacts!Judgement(p)
      /\ committed' = committed \cup {d}
      /\ lastValid' = p.source
      /\ observed' = [observed EXCEPT ![p.id] = d]
  BY <1>1, <1>3, <1>4, <1>5, <1>6, <1>7, GuardAssumed, GuardFacts!TimelyRecorded
<1>9. /\ p.reset => d = GuardFacts!Reset(p, "allowed_native_reset")
      /\ GuardFacts!IsCommand(d)
      /\ d.proposal = p
  BY <1>2, <1>3, <1>8, GuardAssumed, GuardFacts!TimelyJudgement
<1>10. d # None
  BY <1>8, <1>1, <1>2, GuardAssumed, GuardFacts!JudgementSound, NoneAssumption, SameDecision
     DEF GuardFacts!Answers
<1> QED
  BY <1>8, <1>9, <1>10 DEF Published, Guard!IsCommand, GuardFacts!IsCommand,
     GuardFacts!Reset, GuardFacts!Decided

\* A zone the controller is about to take over has been given back.
LEMMA TakenOverNative ==
  ASSUME ContractInv, ReliableInv, EndOfTimestep, snapshots + 1 > normalised
  PROVE  ~zone.active => override = None
<1>1. Settled
  BY DEF ContractInv, Counters, Settled
<1>2. LatestIsCurrent /\ ReleasedWhenInactive /\ phase = "zone" /\ currentSequence \in Nat
  BY DEF ReliableInv, EndOfTimestep, ContractInv, Counters
<1> QED
  BY <1>1, <1>2 DEF LatestIsCurrent, ReleasedWhenInactive

\* What the executor finds in the buffer is for the period at hand.
LEMMA SystemTimestepReliable ==
  ASSUME CommandTtl >= 1, ContractInv, ReliableInv, SystemTimestep
  PROVE  ReliableInv'
<1>1. /\ ~closed /\ ~closed' /\ phase' = "zone"
      /\ UNCHANGED <<snapshots, currentSequence, lastSequence, memory, lastValid,
                     observed, committed>>
  BY DEF SystemTimestep, sensorVars, controllerVars, guardVars
<1>2. OneRowPerSnapshot /\ LatestIsCurrent /\ ReleasedWhenInactive
  BY <1>1 DEF ReliableInv
<1>3. OneRowPerSnapshot'
  BY <1>1, <1>2 DEF OneRowPerSnapshot
<1>4. currentSequence \in Nat /\ CommandTtl \in Nat
  BY ControlAssumption DEF ContractInv, Counters
<1>5. LatestIsCurrent' /\ latest' = latest
  <2>1. CASE currentSequence = 0
    <3>1. latest = None /\ override = None
      BY <1>2, <2>1 DEF LatestIsCurrent
    <3>2. latest' = None /\ override' = None /\ active' = active
      BY <3>1 DEF SystemTimestep, Kept, Fetched, Submit
    <3> QED
      BY <1>1, <1>2, <2>1, <3>1, <3>2 DEF LatestIsCurrent
  <2>2. CASE currentSequence > 0
    <3>1. /\ latest # None
          /\ latest.proposal.validFrom = currentSequence
          /\ latest.proposal.expires = currentSequence - 1 + CommandTtl
      BY <1>2, <2>2 DEF LatestIsCurrent
    <3>2. ~Expired(latest, currentSequence)
      BY <1>4, <3>1 DEF Expired
    <3>3. /\ Kept(latest, currentSequence) = latest
          /\ Fetched(latest, currentSequence) = latest
      BY <1>4, <3>1, <3>2 DEF Kept, Fetched
    <3>4. latest.outcome # "RESET_TO_NATIVE" <=> latest.applied # None
      <4>1. latest \in released /\ GuardFacts!GuardInv
        BY <3>1 DEF ContractInv, GuardInUse
      <4>2. /\ GuardFacts!Sound(latest) /\ latest.outcome \in GuardFacts!Outcomes
            /\ latest.outcome # "REJECT_NO_WRITE"
        BY <4>1 DEF GuardFacts!GuardInv, GuardFacts!MemorySound, GuardFacts!GuardTypeOK,
           GuardFacts!Decision, GuardFacts!IsCommand
      <4>3. None \notin Minimum .. Maximum
        BY ControlAssumption
      <4> QED
        BY <4>2, <4>3 DEF GuardFacts!Sound, GuardFacts!Outcomes, GuardFacts!SetOutcomes
    <3>5. CASE /\ handle' = TRUE
               /\ latest' = latest
               /\ override' = latest.applied
               /\ active' = (latest.outcome # "RESET_TO_NATIVE")
               /\ authority' = latest
      <4>1. active' <=> override' # None
        BY <3>4, <3>5
      <4> QED
        BY <1>1, <2>2, <3>1, <3>5, <4>1 DEF LatestIsCurrent
    <3>6. CASE ~handle /\ UNCHANGED <<handle, latest, override, active, authority>>
      BY <1>1, <1>2, <3>6 DEF LatestIsCurrent
    <3> QED
      BY <3>1, <3>2, <3>3, <3>5, <3>6 DEF SystemTimestep, Submit
  <2> QED
    BY <1>4, <2>1, <2>2
<1>6. ReleasedWhenInactive'
  BY <1>1, <1>2, <1>5 DEF ReleasedWhenInactive, Settled, zone
<1> QED
  BY <1>1, <1>3, <1>5, <1>6 DEF ReliableInv, zone

\* A snapshot that is lost leaves the last command where it is.
LEMMA LostSnapshotReliable ==
  ASSUME ReliableInv, SensorFailure \/ RepeatedSequence
  PROVE  ReliableInv'
<1>1. /\ ~closed /\ ~closed' /\ phase' = "system"
      /\ UNCHANGED <<snapshots, currentSequence, lastSequence, memory, lastValid,
                     observed, committed, latest, override, active, handle, authority>>
  BY DEF SensorFailure, RepeatedSequence, EndOfTimestep, sensorVars, controllerVars,
     guardVars, executorVars
<1> QED
  BY <1>1 DEF ReliableInv, OneRowPerSnapshot, LatestIsCurrent, ReleasedWhenInactive,
     Settled, zone

\* A decision that is lost is the last one of the run.
LEMMA EnqueueFailureReliable ==
  ASSUME ContractInv, ContractInv', ReliableInv, EnqueueFailure
  PROVE  ReliableInv'
<1>1. /\ ~closed /\ ~closed' /\ phase' = "system"
      /\ snapshots + 1 > normalised
      /\ normalised' = snapshots + 1
      /\ UNCHANGED <<snapshots, currentSequence, lastValid, observed, committed, latest,
                     override, active, handle, authority>>
  BY DEF EnqueueFailure, EndOfTimestep, guardVars, executorVars
<1>2. PICK reading \in Reading :
        Controller!Evaluate(normalised', [z \in {RealZone} |-> reading])
  BY DEF EnqueueFailure
<1>3. ~zone.active => override = None
  BY <1>1, TakenOverNative DEF EnqueueFailure
<1>4. zone'.active => zone'.native \in NativeSetpoints
  <2>1. normalised' \in Nat
    BY DEF ContractInv, Counters
  <2> QED
    BY <1>2, <1>3, <2>1, ControllerKeeps DEF ReliableInv
<1>5. ~Settled'
  BY <1>1 DEF ContractInv, Counters, Settled
<1> QED
  BY <1>1, <1>4, <1>5 DEF ReliableInv, OneRowPerSnapshot, LatestIsCurrent,
     ReleasedWhenInactive

\* A snapshot that is published gets a row, a command for the next period, and a
\* reset when the controller gives the zone up.
LEMMA PublishSnapshotReliable ==
  ASSUME CommandTtl >= 1, ContractInv, ContractInv', ReliableInv,
         "audit" \notin faults, PublishSnapshot
  PROVE  ReliableInv'
<1> DEFINE p == ProposalOf(decision'[RealZone])
<1>1. /\ ~closed /\ ~closed' /\ phase' = "system"
      /\ snapshots + 1 > normalised
      /\ normalised' = snapshots + 1
      /\ normalised' <= MaximumSequence
      /\ currentSequence' = normalised' + 1
      /\ snapshots' = normalised'
      /\ UNCHANGED <<override, active, handle, authority>>
  BY DEF PublishSnapshot, EndOfTimestep
<1>2. PICK reading \in Reading :
        Controller!Evaluate(normalised', [z \in {RealZone} |-> reading])
  BY DEF PublishSnapshot
<1>3. snapshots \in Nat /\ normalised' \in Nat /\ MaximumSequence \in Nat /\ CommandTtl \in Nat
  BY <1>1, ControlAssumption DEF ContractInv, Counters
<1>4. /\ decision'[RealZone] \in ControllerFacts!Decision
      /\ decision'[RealZone].sequence = normalised'
  BY <1>2, <1>3, ControllerStep
<1>5. /\ zone'.active => zone'.native \in NativeSetpoints
      /\ ~zone'.active => decision'[RealZone].action = "RESET"
  <2>1. ~zone.active => override = None
    BY <1>1, TakenOverNative DEF PublishSnapshot
  <2> QED
    BY <1>2, <1>3, <2>1, ControllerKeeps DEF ReliableInv
<1>6. PICK d : Judged(p, d) /\ latest' = Published(d)
  BY DEF PublishSnapshot
<1>7. p \in GuardFacts!Proposal
  BY <1>1, <1>4, ProposalFacts
<1>8. OneRowPerSnapshot /\ LatestIsCurrent
  BY <1>1 DEF ReliableInv
<1>9. /\ p.id = normalised' /\ p.source = normalised' /\ p.decided = normalised'
      /\ p.validFrom = normalised' + 1 /\ p.current = normalised' + 1
      /\ p.expires = normalised' + CommandTtl
      /\ p.context = LiveContext /\ p.environment = 3 /\ p.zone = RealZone
      /\ p.actuator = Space3 /\ p.ready /\ ~p.warmup /\ p.schema = 1
      /\ p.reset <=> decision'[RealZone].action = "RESET"
      /\ p.value \in Int \cup {None}
  BY <1>4 DEF ProposalOf, Controller!ValidFrom, Controller!ExpiresAfter,
     ControllerFacts!Decision
<1> HIDE DEF p
<1>10. /\ p.id \notin 1 .. snapshots /\ p.id # NoId
       /\ snapshots < 2 * MaximumSequence
       /\ snapshots <= p.source /\ p.source < p.validFrom /\ p.source <= p.decided
       /\ p.current \in p.validFrom .. p.expires /\ p.current = p.source + 1
  BY <1>1, <1>3, <1>9 DEF NoId
<1>11. /\ latest' = d /\ d # None /\ d.proposal = p
       /\ p.reset => d.applied = None
       /\ committed' = committed \cup {d}
       /\ lastValid' = p.source
       /\ observed' = [observed EXCEPT ![p.id] = d]
  BY <1>6, <1>7, <1>8, <1>9, <1>10, JudgedInTime
<1>12. OneRowPerSnapshot'
  <2>1. lastValid' <= snapshots'
    BY <1>1, <1>3, <1>9, <1>11
  <2>2. ASSUME NEW id \in NoId .. MaximumSequence, observed'[id] # None
        PROVE  id \in 1 .. snapshots'
    <3>1. observed \in [NoId .. MaximumSequence -> GuardFacts!Decision \cup {None}]
      BY DEF ContractInv, GuardInUse, GuardFacts!GuardInv, GuardFacts!GuardTypeOK
    <3>2. id = normalised' \/ observed[id] # None
      BY <1>9, <1>11, <2>2, <3>1
    <3>3. id = normalised' \/ id \in 1 .. snapshots
      BY <1>8, <3>2 DEF OneRowPerSnapshot
    <3> QED
      BY <1>1, <1>3, <3>3
  <2>3. \A row \in committed' : row.proposal.id \in 1 .. snapshots'
    BY <1>1, <1>3, <1>8, <1>9, <1>11 DEF OneRowPerSnapshot
  <2>4. IsFiniteSet(committed) /\ Cardinality(committed) <= snapshots
    BY <1>8 DEF OneRowPerSnapshot
  <2>5. /\ IsFiniteSet(committed')
        /\ Cardinality(committed') <= Cardinality(committed) + 1
        /\ Cardinality(committed) \in Nat /\ Cardinality(committed') \in Nat
    <3>1. /\ IsFiniteSet(committed \cup {d})
          /\ \/ Cardinality(committed \cup {d}) = Cardinality(committed)
             \/ Cardinality(committed \cup {d}) = Cardinality(committed) + 1
      BY <2>4, FS_AddElement
    <3>2. Cardinality(committed) \in Nat
      BY <2>4, FS_CardinalityType
    <3> QED
      BY <1>11, <3>1, <3>2
  <2>6. Cardinality(committed') <= snapshots'
    BY <1>1, <1>3, <2>4, <2>5
  <2> QED
    BY <2>1, <2>2, <2>3, <2>5, <2>6 DEF OneRowPerSnapshot
<1>13. LatestIsCurrent'
  BY <1>1, <1>3, <1>8, <1>9, <1>11 DEF LatestIsCurrent
<1>14. ReleasedWhenInactive'
  BY <1>5, <1>9, <1>11 DEF ReleasedWhenInactive
<1> QED
  BY <1>1, <1>5, <1>12, <1>13, <1>14 DEF ReliableInv

\* The reset that close asks for is allowed, and valid at once.
LEMMA CloseReliable ==
  ASSUME ContractInv, ReliableInv, "audit" \notin faults,
         CloseActive \/ CloseInactive
  PROVE  ReliableInv'
<1>1. ~closed /\ closed' /\ UNCHANGED memory
  BY DEF CloseActive, CloseInactive, controllerVars
<1>2. OneRowPerSnapshot /\ LatestIsCurrent
  BY <1>1 DEF ReliableInv
<1>3. override' = None
  <2>1. CASE CloseInactive
    <3>1. ~active /\ UNCHANGED override
      BY <2>1 DEF CloseInactive, plantVars
    <3> QED
      BY <1>2, <3>1 DEF LatestIsCurrent
  <2>2. CASE CloseActive
    <3> DEFINE p == ShutdownProposal
    <3>1. active
      BY <2>2 DEF CloseActive
    <3>2. /\ snapshots \in Nat /\ snapshots # 0 /\ currentSequence = snapshots + 1
          /\ snapshots <= MaximumSequence /\ MaximumSequence \in Nat
      BY <1>2, <3>1, ControlAssumption DEF LatestIsCurrent, ContractInv, Counters
    <3>3. PICK d :
            /\ Judged(p, d)
            /\ \/ Fetched(Published(d), currentSequence) = None
               \/ override' = Fetched(Published(d), currentSequence).applied
      BY <2>2 DEF CloseActive
    <3>4. p \in GuardFacts!Proposal
      BY ShutdownFacts
    <3>5. /\ p.id = 0 /\ p.source = snapshots /\ p.decided = snapshots
          /\ p.validFrom = snapshots + 1 /\ p.current = snapshots + 1
          /\ p.expires = snapshots + 2
          /\ p.context = LiveContext /\ p.environment = 3 /\ p.zone = RealZone
          /\ p.actuator = Space3 /\ p.ready /\ ~p.warmup /\ p.schema = 1
          /\ p.reset /\ p.value \in Int \cup {None}
      BY <3>2 DEF ShutdownProposal, ShutdownId
    <3> HIDE DEF p
    <3>6. /\ p.id \notin 1 .. snapshots /\ p.id # NoId
          /\ snapshots < 2 * MaximumSequence
          /\ snapshots <= p.source /\ p.source < p.validFrom /\ p.source <= p.decided
          /\ p.current \in p.validFrom .. p.expires /\ p.current = p.source + 1
      BY <3>2, <3>5 DEF NoId
    <3>7. Published(d) = d /\ d # None /\ d.proposal = p /\ d.applied = None
      BY <1>2, <3>3, <3>4, <3>5, <3>6, JudgedInTime
    <3>8. Fetched(d, currentSequence) = d
      BY <3>2, <3>5, <3>7 DEF Fetched, Kept, Expired
    <3> QED
      BY <3>3, <3>7, <3>8
  <2> QED
    BY <2>1, <2>2
<1> QED
  BY <1>1, <1>3 DEF ReliableInv, zone

LEMMA ReleaseInit == ControlInit => ReleaseInv
<1> SUFFICES ASSUME ControlInit PROVE ReliableInv
  BY DEF ReleaseInv
<1>1. /\ snapshots = 0 /\ currentSequence = 0 /\ lastValid = 0 /\ committed = {}
      /\ observed = [id \in NoId .. MaximumSequence |-> None]
      /\ latest = None /\ override = None /\ active = FALSE /\ handle = FALSE
      /\ ~closed /\ phase = "system"
  BY DEF ControlInit, Guard!GuardInit
<1>2. zone.active = FALSE
  BY DEF ControlInit, Controller!ControllerInit, Controller!NewMemory, zone
<1>3. OneRowPerSnapshot
  BY <1>1, FS_EmptySet DEF OneRowPerSnapshot
<1> QED
  BY <1>1, <1>2, <1>3 DEF ReliableInv, LatestIsCurrent, ReleasedWhenInactive

LEMMA ReleaseStep ==
  ASSUME CommandTtl >= 1, ContractInv, ContractInv', ReleaseInv,
         [ControlNext]_controlVars
  PROVE  ReleaseInv'
<1>1. UNCHANGED faults
  BY DEF ControlNext, Callback, SystemTimestep, SensorFailure, RepeatedSequence,
     EnqueueFailure, PublishSnapshot, EndOfTimestep, CloseActive, CloseInactive,
     controlVars, plantVars
<1> SUFFICES ASSUME "audit" \notin faults PROVE ReliableInv'
  BY <1>1 DEF ReleaseInv
<1>2. ReliableInv
  BY DEF ReleaseInv
<1>3. CASE UNCHANGED controlVars
  BY <1>2, <1>3 DEF controlVars, plantVars, sensorVars, controllerVars, guardVars,
     executorVars, ReliableInv, OneRowPerSnapshot, LatestIsCurrent,
     ReleasedWhenInactive, Settled, zone
<1>4. CASE ControlNext
  BY <1>2, <1>4, SystemTimestepReliable, LostSnapshotReliable, EnqueueFailureReliable,
     PublishSnapshotReliable, CloseReliable DEF ControlNext, Callback
<1> QED
  BY <1>3, <1>4

LEMMA ReleaseHolds ==
  ASSUME CommandTtl >= 1
  PROVE  ControlSpec => [](ContractInv /\ ReleaseInv)
<1>1. ContractInv /\ ContractInv' /\ ReleaseInv /\ [ControlNext]_controlVars => ReleaseInv'
  BY ReleaseStep
<1> QED
  BY <1>1, ReleaseInit, ContractHolds, PTL DEF ControlSpec

-----------------------------------------------------------------------------
(* The theorems.                                                           *)

\* Whatever fails in a run, for every policy, limit and time to live: the
\* actuator is only ever moved to what a row of the audit grants, in the periods
\* the row is for, and a grant is recorded once, decided from an earlier state
\* and within the absolute bounds (publish_snapshot, evaluate and the executor
\* together implement AuthorisedActuation).
THEOREM ActuationAuthorised == ControlSpec => Authorised
<1>1. ControlInit => Contract!Init
  <2>1. ControlInit => committed = {} /\ currentSequence \in Int /\ override = None
    BY DEF ControlInit, Guard!GuardInit
  <2> QED
    BY <2>1 DEF Contract!Init
<1>2. ContractInv /\ [ControlNext]_controlVars => [Contract!Next]_(Contract!vars)
  BY ContractStep
<1> QED
  BY <1>1, <1>2, ContractHolds, PTL DEF ControlSpec, Authorised, Contract!Spec

\* In a run whose store does not fail, for every schedule and policy and whatever
\* else is lost: the baseline of a zone the controller holds is a setpoint of the
\* building's schedule, never the controller's own override read back
\* (evaluate_zone, and the executor that releases the actuator in time).
THEOREM BaselineNative ==
  ASSUME CommandTtl >= 1
  PROVE  ControlSpec => []BaselineIsNative
<1>1. ReleaseInv => BaselineIsNative
  BY DEF ReleaseInv, ReliableInv, BaselineIsNative
<1> QED
  BY <1>1, ReleaseHolds, PTL

\* In such a run what stands on the actuator when the executor has run has not
\* expired, although the executor itself leaves an expired command standing: the
\* buffer has a command for every period that a published snapshot begins.
THEOREM ExpiredReplaced ==
  ASSUME CommandTtl >= 1
  PROVE  ControlSpec => []ExpiredIsReplaced
<1>1. ContractInv /\ ReleaseInv => ExpiredIsReplaced
  <2> SUFFICES ASSUME ContractInv, ReleaseInv, "audit" \notin faults, phase = "zone",
                      override # None
               PROVE  ~Expired(authority, currentSequence)
    BY DEF ExpiredIsReplaced
  <2>1. LatestIsCurrent
    BY DEF ReleaseInv, ReliableInv
  <2>2. currentSequence \in Nat /\ CommandTtl \in Nat
    BY ControlAssumption DEF ContractInv, Counters
  <2>3. /\ currentSequence > 0 /\ handle
        /\ authority = latest
        /\ latest.proposal.expires = currentSequence - 1 + CommandTtl
    BY <2>1, <2>2 DEF LatestIsCurrent
  <2> QED
    BY <2>2, <2>3 DEF Expired
<1> QED
  BY <1>1, ReleaseHolds, PTL

\* In such a run the actuator is given back when the run is closed, because the
\* guard cannot refuse the reset that close asks for.
THEOREM ReleasedAtClose ==
  ASSUME CommandTtl >= 1
  PROVE  ControlSpec => []ClosedReleases
<1>1. ReleaseInv => ClosedReleases
  BY DEF ReleaseInv, ReliableInv, ClosedReleases
<1> QED
  BY <1>1, ReleaseHolds, PTL
=============================================================================
