--------------------------- MODULE EvidenceProofs ---------------------------
(***************************************************************************)
(* Theorems about EvidenceStore, for every set of plans, trainings and     *)
(* approvals and every number of programs, of which each may be stopped    *)
(* between any two of its steps; about ComfortLedger, which computes the   *)
(* evaluations that are stored; and about EvidenceDashboard, which         *)
(* presents what has been stored.                                          *)
(*                                                                         *)
(* The invariant says of the program that runs what its last step finds:   *)
(* the plans of the rollouts that it holds are on record, and the sessions *)
(* of a comparison are the two that have names of their own.               *)
(*                                                                         *)
(* The accounts of an evaluation balance for every rollout, every horizon  *)
(* and every setting of the ledger and the bank.  What is needed of an     *)
(* earlier stage is that amounts are natural numbers (Amounts); the rest   *)
(* is how rounding, limits and the order of the bank's movements combine.  *)
(*                                                                         *)
(* The dashboard's three passes over the artifacts are compared by how     *)
(* often an artifact must have changed to have been seen as it was: one    *)
(* that differs between two passes has changed in between, so the counts   *)
(* of changes stand in for the contents that were there.                   *)
(***************************************************************************)
EXTENDS ComfortLedger, EvidenceStore, EvidenceDashboard, TLAPS

Names(set) == {s.session : s \in set}

PlansOf(set) == {r.plan : r \in set}

\* A program is a record with the fields of Idle.
IsProgram(p) ==
  p = [name |-> p.name, stage |-> p.stage, batch |-> p.batch, approval |-> p.approval,
       training |-> p.training, written |-> p.written]

ProgramInv ==
  /\ IsProgram(program)
  /\ program.name = "candidates" => PlansOf(program.batch) \subseteq PlansOf(planned)
  /\ program.name = "compare" => Names(program.batch) = {"shadow", "live"}

StoreInv ==
  /\ ProgramInv
  /\ version \in 0 .. 10 /\ settings \in Settings
  /\ Names(sessions) \subseteq {"replay", "shadow", "live"}
  /\ EvidenceIsLinked

-----------------------------------------------------------------------------
(* Tables.                                                                 *)

\* Rows that are replaced or ignored take no key away.
LEMMA KeysKept ==
  ASSUME NEW table, NEW new
  PROVE  /\ Keys(table) \cup Keys(new) = Keys(OrReplace(table, new))
         /\ table \subseteq OrIgnore(table, new)
         /\ Keys(table) \cup Keys(new) = Keys(OrIgnore(table, new))
         /\ OrIgnore(table, new) \subseteq table \cup new
         /\ OrReplace(table, new) \subseteq table \cup new
<1>1. Keys(OrReplace(table, new)) = Keys(table) \cup Keys(new)
  BY DEF Keys, OrReplace
<1>2. Keys(OrIgnore(table, new)) = Keys(table) \cup Keys(new)
  BY DEF Keys, OrIgnore
<1> QED
  BY <1>1, <1>2 DEF OrIgnore, OrReplace

\* The bank transactions of a batch are of its evaluations.
LEMMA NumberedKeys ==
  ASSUME NEW batch
  PROVE  Keys(Numbered(batch)) \subseteq Keys(batch)
<1>1. ASSUME NEW t \in Numbered(batch)
      PROVE  \E e \in batch : Key(t) = Key(e)
  <2>1. PICK m \in Moves(batch) :
          t = [model |-> m[1].model, plan |-> m[1].plan, movement |-> m[2],
               sequence |-> Position(m, Moves(batch))]
    BY DEF Numbered
  <2>2. m[1] \in batch
    BY DEF Moves
  <2> QED
    BY <2>1, <2>2 DEF Key
<1> QED
  BY <1>1 DEF Keys

\* planning_common.build leaves a row of every plan.
LEMMA BuildKeeps ==
  ASSUME Build
  PROVE  planned \subseteq planned' /\ Plans \subseteq PlansOf(planned')
<1>1. planned \subseteq planned'
  BY DEF Build, PersistPlans
<1>2. ASSUME NEW p \in Plans
      PROVE  p \in PlansOf(planned')
  <2> DEFINE g == [plan |-> p, eligible |-> p \in Eligible(settings)]
  <2>1. g \in Generated /\ g.plan = p
    BY DEF Generated
  <2>2. CASE \A k \in planned : k.plan # g.plan
    <3>1. g \in planned'
      BY <2>1, <2>2 DEF Build, PersistPlans
    <3> QED
      BY <2>1, <3>1 DEF PlansOf
  <2>3. CASE \E k \in planned : k.plan = g.plan
    BY <1>1, <2>1, <2>3 DEF PlansOf
  <2> QED
    BY <2>2, <2>3
<1> QED
  BY <1>1, <1>2

-----------------------------------------------------------------------------
(* The invariant, step by step.                                            *)

LEMMA StoreInitInv == StoreInit => StoreInv
<1> SUFFICES ASSUME StoreInit PROVE StoreInv
  OBVIOUS
<1>1. ProgramInv
  BY DEF StoreInit, ProgramInv, IsProgram, Idle
<1>2. EvidenceIsLinked
  BY DEF StoreInit, EvidenceIsLinked, Keys
<1> QED
  BY <1>1, <1>2 DEF StoreInit, MicroTwinInit, StoreInv, Names

\* What a program does that leaves the rows of the evidence alone and takes no plan
\* from the record.
LEMMA StoreFrame ==
  ASSUME StoreInv, UNCHANGED <<version, advisory, sessions, files>>,
         planned \subseteq planned', settings' \in Settings, ProgramInv'
  PROVE  StoreInv'
<1>1. Names(sessions') = Names(sessions) /\ Keys(transactions') = Keys(transactions)
      /\ Keys(evaluations') = Keys(evaluations) /\ Keys(rollouts') = Keys(rollouts)
  BY DEF advisory
<1>2. PlansOf(planned) \subseteq PlansOf(planned')
  BY DEF PlansOf
<1>3. {r.plan : r \in rollouts \cup {f.rollout : f \in files}} \subseteq PlansOf(planned)
  BY DEF StoreInv, EvidenceIsLinked, PlansOf
<1>4. {r.plan : r \in rollouts' \cup {f.rollout : f \in files'}} \subseteq PlansOf(planned')
  BY <1>2, <1>3 DEF advisory
<1>5. EvidenceIsLinked'
  BY <1>1, <1>4 DEF StoreInv, EvidenceIsLinked, advisory, HasRollout, PlansOf
<1> QED
  BY <1>1, <1>5 DEF StoreInv

\* Where the next step of a program finds what the step before left.
LEMMA ProgramGoesOn ==
  ASSUME ProgramInv, planned \subseteq planned',
         \/ program' = program \/ Ends
         \/ \E later : GoesOn(later)
         \/ \E n : program' = [program EXCEPT !.written = n]
  PROVE  ProgramInv'
<1>1. PlansOf(planned) \subseteq PlansOf(planned')
  BY DEF PlansOf
<1>2. CASE program' = Idle
  BY <1>2 DEF ProgramInv, IsProgram, Idle
<1>3. CASE program' = program
  BY <1>1, <1>3 DEF ProgramInv, IsProgram
<1>4. ASSUME NEW later, program' = [program EXCEPT !.stage = later]
      PROVE  ProgramInv'
  <2>1. program' = [name |-> program.name, stage |-> later, batch |-> program.batch,
                    approval |-> program.approval, training |-> program.training,
                    written |-> program.written]
    BY <1>4 DEF ProgramInv, IsProgram
  <2> QED
    BY <1>1, <2>1 DEF ProgramInv, IsProgram
<1>5. ASSUME NEW n, program' = [program EXCEPT !.written = n]
      PROVE  ProgramInv'
  <2>1. program' = [name |-> program.name, stage |-> program.stage, batch |-> program.batch,
                    approval |-> program.approval, training |-> program.training,
                    written |-> n]
    BY <1>5 DEF ProgramInv, IsProgram
  <2> QED
    BY <1>1, <2>1 DEF ProgramInv, IsProgram
<1> QED
  BY <1>2, <1>3, <1>4, <1>5 DEF Ends, GoesOn

\* The programs that leave the evidence alone.
LEMMA StepsOfPrograms ==
  ASSUME StoreInv,
         \/ PlansOnly \/ Train \/ BuildPackage \/ Interrupt \/ Reconfigured
         \/ \E t \in Trainings : StartTraining(t)
         \/ EvaluateCandidates \/ EvaluateLedger
         \/ \E a \in Approvals : CreateExactApproval(a) \/ ReplayDryRun(a)
         \/ StartAssessment
         \/ \E shadow, live \in Approvals : StartComparison(shadow, live)
  PROVE  StoreInv'
<1> USE DEF execution, disk, base, twin
<1>1. ProgramInv /\ settings \in Settings
  BY DEF StoreInv
<1>2. CASE PlansOnly
  <2>1. planned \subseteq planned'
    BY <1>2, BuildKeeps DEF PlansOnly
  <2> QED
    BY <1>1, <1>2, <2>1, StoreFrame, ProgramGoesOn DEF PlansOnly
<1>3. CASE Train
  BY <1>1, <1>3, StoreFrame, ProgramGoesOn DEF Train
<1>4. CASE BuildPackage \/ Reconfigured
  BY <1>1, <1>4, StoreFrame, ProgramGoesOn DEF BuildPackage, Reconfigured, Reconfigure
<1>5. CASE Interrupt
  BY <1>1, <1>5, StoreFrame, ProgramGoesOn DEF Interrupt
<1>6. CASE \E t \in Trainings : StartTraining(t)
  <2>1. PICK t \in Trainings : StartTraining(t)
    BY <1>6
  <2>2. planned \subseteq planned' /\ UNCHANGED <<version, advisory, sessions, files, settings>>
    BY <2>1, BuildKeeps DEF StartTraining
  <2>3. ProgramInv'
    BY <2>1 DEF StartTraining, Begin, Idle, ProgramInv, IsProgram
  <2> QED
    BY <1>1, <2>2, <2>3, StoreFrame
<1>7. CASE EvaluateCandidates
  <2>1. /\ planned \subseteq planned' /\ Plans \subseteq PlansOf(planned')
        /\ UNCHANGED <<version, advisory, sessions, files, settings>>
    BY <1>7, BuildKeeps DEF EvaluateCandidates
  <2>2. PlansOf(Rollouts) \subseteq Plans
    <3>1. Eligible(settings) \subseteq Plans
      BY <1>1, MicroTwinAssumption
    <3> QED
      BY <3>1 DEF PlansOf, Rollouts, Rollout
  <2>3. ProgramInv'
    BY <1>7, <2>1, <2>2 DEF EvaluateCandidates, Begin, Idle, ProgramInv, IsProgram
  <2> QED
    BY <1>1, <2>1, <2>3, StoreFrame
<1>8. CASE EvaluateLedger
  <2>1. planned \subseteq planned' /\ UNCHANGED <<version, advisory, sessions, files, settings>>
    BY <1>8, BuildKeeps DEF EvaluateLedger
  <2>2. ProgramInv'
    BY <1>8 DEF EvaluateLedger, Begin, Idle, ProgramInv, IsProgram
  <2> QED
    BY <1>1, <2>1, <2>2, StoreFrame
<1>9. ASSUME NEW a \in Approvals, CreateExactApproval(a)
      PROVE  StoreInv'
  <2>1. UNCHANGED <<version, advisory, sessions, files, planned, settings>>
    BY <1>9 DEF CreateExactApproval
  <2>2. ProgramInv'
    BY <1>9 DEF CreateExactApproval, Begin, Idle, ProgramInv, IsProgram
  <2> QED
    BY <1>1, <2>1, <2>2, StoreFrame
<1>10. ASSUME NEW a \in Approvals, ReplayDryRun(a)
       PROVE  StoreInv'
  <2>1. planned \subseteq planned' /\ UNCHANGED <<version, advisory, sessions, files, settings>>
    BY <1>10, BuildKeeps DEF ReplayDryRun
  <2>2. ProgramInv'
    BY <1>10 DEF ReplayDryRun, Begin, Idle, ProgramInv, IsProgram
  <2> QED
    BY <1>1, <2>1, <2>2, StoreFrame
<1>11. CASE StartAssessment
  <2>1. UNCHANGED <<version, advisory, sessions, files, planned, settings>>
    BY <1>11 DEF StartAssessment
  <2>2. ProgramInv'
    BY <1>11 DEF StartAssessment, Begin, Idle, ProgramInv, IsProgram
  <2> QED
    BY <1>1, <2>1, <2>2, StoreFrame
<1>12. ASSUME NEW shadow \in Approvals, NEW live \in Approvals,
              StartComparison(shadow, live)
       PROVE  StoreInv'
  <2>1. planned \subseteq planned' /\ UNCHANGED <<version, advisory, sessions, files, settings>>
    BY <1>12, BuildKeeps DEF StartComparison
  <2>2. Names(program'.batch) = {"shadow", "live"}
    <3>1. program'.batch = {[session |-> "shadow", approval |-> shadow],
                            [session |-> "live", approval |-> live]}
      BY <1>12 DEF StartComparison, Begin, Idle
    <3> QED
      BY <3>1 DEF Names
  <2>3. ProgramInv'
    BY <1>12, <2>2 DEF StartComparison, Begin, Idle, ProgramInv, IsProgram
  <2> QED
    BY <1>1, <2>1, <2>3, StoreFrame
<1> QED
  BY <1>2, <1>3, <1>4, <1>5, <1>6, <1>7, <1>8, <1>9, <1>10, <1>11, <1>12

\* A store that is opened, and what is stored of approvals and sessions.
LEMMA MigrateStep ==
  ASSUME StoreInv, Migrate
  PROVE  StoreInv' /\ version <= version'
<1> USE DEF base, twin, advisory, execution, disk
<1>1. version' \in 0 .. 10 /\ version <= version'
  BY DEF Migrate, Stamped, StoreInv
<1>2. ProgramInv'
  BY ProgramGoesOn DEF Migrate, StoreInv
<1>3. EvidenceIsLinked'
  BY DEF Migrate, StoreInv, EvidenceIsLinked, HasRollout
<1> QED
  BY <1>1, <1>2, <1>3 DEF Migrate, StoreInv

LEMMA SessionSteps ==
  ASSUME StoreInv, PersistApproval \/ PersistReport \/ PersistComparison \/ PersistAssessment
  PROVE  StoreInv' /\ Names(sessions) \subseteq Names(sessions')
<1> USE DEF base, twin, advisory, disk
<1>1. UNCHANGED <<version, settings, planned, files, advisory>> /\ Ends
  BY DEF PersistApproval, PersistReport, PersistComparison, PersistAssessment
<1>2. ProgramInv'
  BY <1>1, ProgramGoesOn DEF StoreInv
<1>3. /\ Names(sessions') \subseteq {"replay", "shadow", "live"}
      /\ Names(sessions) \subseteq Names(sessions')
  <2>1. CASE UNCHANGED sessions
    BY <2>1 DEF StoreInv
  <2>2. CASE sessions' = sessions \cup {[session |-> "replay", approval |-> program.approval]}
    BY <2>2 DEF StoreInv, Names
  <2>3. CASE /\ program.name = "compare"
             /\ sessions' = {t \in sessions : t.session = "replay"} \cup program.batch
    <3>1. Names(program.batch) = {"shadow", "live"}
      BY <2>3 DEF StoreInv, ProgramInv
    <3> QED
      BY <2>3, <3>1 DEF StoreInv, Names
  <2> QED
    BY <2>1, <2>2, <2>3
    DEF PersistApproval, PersistReport, PersistComparison, PersistAssessment, Runs
<1>4. EvidenceIsLinked'
  BY <1>1 DEF StoreInv, EvidenceIsLinked, HasRollout
<1> QED
  BY <1>1, <1>2, <1>3, <1>4 DEF StoreInv

\* The steps that record evidence.
LEMMA CandidatesStep ==
  ASSUME StoreInv, PersistCandidates
  PROVE  StoreInv' /\ Keys(rollouts) \subseteq Keys(rollouts')
<1> USE DEF base, twin, execution, disk
<1>1. /\ models' = models \cup {r.model : r \in program.batch}
      /\ rollouts' = OrReplace(rollouts, program.batch)
      /\ program.name = "candidates" /\ Ends
      /\ UNCHANGED <<version, settings, planned, files, sessions, evaluations, transactions,
                     rankings>>
  BY DEF PersistCandidates, Runs
<1>2. /\ Keys(rollouts) \subseteq Keys(rollouts')
      /\ rollouts' \subseteq rollouts \cup program.batch
  BY <1>1, KeysKept
<1>3. ProgramInv'
  BY <1>1, ProgramGoesOn DEF StoreInv
<1>4. \A e \in evaluations : Key(e) \in Keys(rollouts')
  BY <1>2 DEF StoreInv, EvidenceIsLinked, HasRollout
<1>5. {r.model : r \in rollouts'} \subseteq models'
  BY <1>1, <1>2 DEF StoreInv, EvidenceIsLinked
<1>6. {r.plan : r \in rollouts' \cup {f.rollout : f \in files}} \subseteq
        {k.plan : k \in planned}
  <2>1. \A r \in program.batch : r.plan \in {k.plan : k \in planned}
    BY <1>1 DEF StoreInv, ProgramInv, PlansOf
  <2>2. \A r \in rollouts \cup {f.rollout : f \in files} : r.plan \in {k.plan : k \in planned}
    BY DEF StoreInv, EvidenceIsLinked
  <2> QED
    BY <1>2, <2>1, <2>2
<1>7. Keys(transactions') = Keys(transactions) /\ Keys(evaluations') = Keys(evaluations)
  BY <1>1
<1>8. EvidenceIsLinked'
  BY <1>1, <1>4, <1>5, <1>6, <1>7 DEF StoreInv, EvidenceIsLinked, HasRollout
<1> QED
  BY <1>1, <1>2, <1>3, <1>8 DEF StoreInv

LEMMA LedgerStep ==
  ASSUME StoreInv, PersistLedger
  PROVE  /\ StoreInv'
         /\ evaluations \subseteq evaluations' /\ transactions \subseteq transactions'
         /\ rankings \subseteq rankings'
<1> USE DEF base, twin, execution, disk
<1> DEFINE kept == Kept(program.batch)
<1>1. /\ evaluations' = OrIgnore(evaluations, kept)
      /\ transactions' = transactions \cup NewTransactions(Numbered(kept))
      /\ rankings' = IF kept = program.batch THEN rankings \cup {Ranking(kept)} ELSE rankings
      /\ Ends
      /\ UNCHANGED <<version, settings, planned, files, sessions, models, rollouts>>
  BY DEF PersistLedger
<1>2. kept \in {{}, program.batch} /\ \A e \in kept : HasRollout(e)
  BY DEF Kept
<1> HIDE DEF kept
<1>3. /\ evaluations \subseteq evaluations' /\ evaluations' \subseteq evaluations \cup kept
      /\ Keys(evaluations') = Keys(evaluations) \cup Keys(kept)
  BY <1>1, KeysKept
<1>4. ProgramInv'
  BY <1>1, ProgramGoesOn DEF StoreInv
<1>5. \A e \in evaluations' : HasRollout(e)'
  BY <1>1, <1>2, <1>3 DEF StoreInv, EvidenceIsLinked, HasRollout
<1>6. Keys(transactions') \subseteq Keys(evaluations')
  <2>1. Keys(NewTransactions(Numbered(kept))) \subseteq Keys(kept)
    <3>1. NewTransactions(Numbered(kept)) \subseteq Numbered(kept)
      BY DEF NewTransactions
    <3>2. Keys(Numbered(kept)) \subseteq Keys(kept)
      BY NumberedKeys
    <3> QED
      BY <3>1, <3>2 DEF Keys
  <2>2. Keys(transactions') = Keys(transactions) \cup Keys(NewTransactions(Numbered(kept)))
    BY <1>1 DEF Keys
  <2> QED
    BY <1>3, <2>1, <2>2 DEF StoreInv, EvidenceIsLinked
<1>7. ASSUME NEW e \in evaluations', e.eligible
      PROVE  \E r \in rankings' : e.plan \in r
  <2>1. CASE e \in evaluations
    BY <1>1, <1>7, <2>1 DEF StoreInv, EvidenceIsLinked
  <2>2. CASE e \in kept
    <3>1. kept = program.batch
      BY <1>2, <2>2
    <3>2. e.plan \in Ranking(kept)
      BY <1>7, <2>2 DEF Ranking
    <3> QED
      BY <1>1, <3>1, <3>2
  <2> QED
    BY <1>3, <1>7, <2>1, <2>2
<1>8. EvidenceIsLinked'
  BY <1>1, <1>5, <1>6, <1>7 DEF StoreInv, EvidenceIsLinked
<1> QED
  BY <1>1, <1>3, <1>4, <1>8 DEF StoreInv

LEMMA ApprovalFileStep ==
  ASSUME StoreInv, NEW a \in Approvals, NEW p \in Plans, CreateApproval(a, p)
  PROVE  StoreInv' /\ planned \subseteq planned'
<1> USE DEF twin, execution, advisory
<1>1. /\ planned \subseteq planned' /\ Plans \subseteq PlansOf(planned')
      /\ UNCHANGED <<version, settings, sessions, models, rollouts, evaluations, transactions,
                     rankings>>
      /\ files' = files \cup {[approval |-> a, rollout |-> Rollout(p)]}
  BY BuildKeeps DEF CreateApproval
<1>2. ProgramInv'
  BY DEF CreateApproval, Begin, Idle, ProgramInv, IsProgram
<1>3. \A r \in rollouts' \cup {f.rollout : f \in files'} : r.plan \in PlansOf(planned')
  <2>1. Rollout(p).plan \in PlansOf(planned')
    BY <1>1 DEF Rollout
  <2>2. \A r \in rollouts \cup {f.rollout : f \in files} : r.plan \in PlansOf(planned')
    BY <1>1 DEF StoreInv, EvidenceIsLinked, PlansOf
  <2> QED
    BY <1>1, <2>1, <2>2
<1>4. EvidenceIsLinked'
  BY <1>1, <1>3 DEF StoreInv, EvidenceIsLinked, HasRollout, PlansOf
<1> QED
  BY <1>1, <1>2, <1>4 DEF StoreInv

LEMMA StoreInvStep ==
  ASSUME StoreInv, [StoreNext]_storeVars
  PROVE  StoreInv'
<1>1. CASE UNCHANGED storeVars
  <2>1. UNCHANGED <<planned, settings, version, advisory, sessions, files, program>>
    BY <1>1 DEF storeVars, base, twin, execution, disk
  <2> QED
    BY <2>1, StoreFrame, ProgramGoesOn DEF StoreInv
<1> QED
  BY <1>1, StepsOfPrograms, MigrateStep, SessionSteps, CandidatesStep, LedgerStep,
     ApprovalFileStep
  DEF StoreNext

-----------------------------------------------------------------------------
(* Approvals, step by step.                                                *)

\* An approval keeps its row, and a consumed one its consumption.
ApprovalsKept ==
  \A a \in approvals : \E b \in approvals' :
    b.approval = a.approval /\ (a.consumer # "none" => b.consumer # "none")

\* Consuming an approval is consuming every row of it, and nothing else.
LEMMA ConsumedKeeps ==
  ASSUME NEW approval, NEW consumer, consumer # "none",
         \A a \in approvals : a = [approval |-> a.approval, consumer |-> a.consumer],
         approvals' = Consumed(approval, consumer)
  PROVE  /\ ApprovalsKept
         /\ \A a \in approvals' : a = [approval |-> a.approval, consumer |-> a.consumer]
         /\ Recorded(approval) => \E a \in approvals' : a.approval = approval /\ a.consumer = consumer
<1> DEFINE New(a) == IF a.approval = approval THEN [a EXCEPT !.consumer = consumer] ELSE a
<1>1. ASSUME NEW a \in approvals
      PROVE  /\ New(a) \in approvals'
             /\ New(a) = [approval |-> New(a).approval, consumer |-> New(a).consumer]
             /\ New(a).approval = a.approval
             /\ New(a).consumer = IF a.approval = approval THEN consumer ELSE a.consumer
  <2>1. a = [approval |-> a.approval, consumer |-> a.consumer]
    OBVIOUS
  <2>2. New(a) \in approvals'
    BY DEF Consumed
  <2>3. CASE a.approval = approval
    <3>1. New(a) = [approval |-> a.approval, consumer |-> consumer]
      BY <2>1, <2>3
    <3> QED
      BY <2>2, <2>3, <3>1
  <2>4. CASE a.approval # approval
    BY <2>1, <2>2, <2>4
  <2> QED
    BY <2>3, <2>4
<1>2. \A b \in approvals' : \E a \in approvals : b = New(a)
  BY DEF Consumed
<1> HIDE DEF New
<1> QED
  BY <1>1, <1>2 DEF ApprovalsKept, Recorded

ApprovalsInv ==
  /\ \A a \in approvals : a = [approval |-> a.approval, consumer |-> a.consumer]
  /\ SessionsAreApproved

\* A report, a comparison or an assessment is recorded with the consumption of the
\* approvals that it names, or not at all.
LEMMA ApprovalsStep ==
  ASSUME ApprovalsInv, [StoreNext]_storeVars
  PROVE  ApprovalsInv' /\ ApprovalsKept /\ bindings \subseteq bindings'
<1>1. CASE UNCHANGED execution
  BY <1>1 DEF execution, ApprovalsInv, SessionsAreApproved, ApprovalsKept
<1>2. CASE PersistApproval
  <2> DEFINE new == [approval |-> program.approval, consumer |-> "none"]
  <2>1. approvals' = approvals \cup {new} /\ UNCHANGED <<sessions, bindings>>
    BY <1>2 DEF PersistApproval
  <2> QED
    BY <2>1 DEF ApprovalsInv, SessionsAreApproved, ApprovalsKept
<1>3. CASE PersistReport
  <2> DEFINE new == [session |-> "replay", approval |-> program.approval]
  <2>1. CASE Recorded(program.approval)
    <3>1. /\ sessions' = sessions \cup {new} /\ new.approval = program.approval
          /\ approvals' = Consumed(program.approval, "replay") /\ bindings' = bindings
      BY <1>3, <2>1 DEF PersistReport
    <3>2. /\ ApprovalsKept
          /\ \A a \in approvals' : a = [approval |-> a.approval, consumer |-> a.consumer]
          /\ \E a \in approvals' : a.approval = program.approval /\ a.consumer = "replay"
      BY <2>1, <3>1, ConsumedKeeps DEF ApprovalsInv
    <3> HIDE DEF new
    <3>3. {t.approval : t \in sessions'} \cup bindings' =
            ({t.approval : t \in sessions} \cup bindings) \cup {program.approval}
      BY <3>1
    <3> QED
      BY <3>1, <3>2, <3>3 DEF ApprovalsInv, SessionsAreApproved, ApprovalsKept
  <2>2. CASE ~Recorded(program.approval)
    BY <1>1, <1>3, <2>2 DEF PersistReport, execution
  <2> QED
    BY <2>1, <2>2
<1>4. CASE PersistAssessment
  <2>1. CASE Recorded(program.approval)
    <3>1. /\ bindings' = bindings \cup {program.approval} /\ sessions' = sessions
          /\ approvals' = Consumed(program.approval, "assessed")
      BY <1>4, <2>1 DEF PersistAssessment
    <3>2. /\ ApprovalsKept
          /\ \A a \in approvals' : a = [approval |-> a.approval, consumer |-> a.consumer]
          /\ \E a \in approvals' : a.approval = program.approval /\ a.consumer = "assessed"
      BY <2>1, <3>1, ConsumedKeeps DEF ApprovalsInv
    <3> QED
      BY <3>1, <3>2 DEF ApprovalsInv, SessionsAreApproved, ApprovalsKept
  <2>2. CASE ~Recorded(program.approval)
    BY <1>1, <1>4, <2>2 DEF PersistAssessment, execution
  <2> QED
    BY <2>1, <2>2
<1>5. CASE PersistComparison
  <2>1. CASE \A t \in program.batch : Recorded(t.approval)
    <3> DEFINE New(a) == [approval |-> a.approval,
                          consumer |-> IF \E t \in program.batch : t.approval = a.approval
                                         THEN "compared" ELSE a.consumer]
    <3>1. /\ sessions' \subseteq sessions \cup program.batch /\ bindings' = bindings
          /\ approvals' = {New(a) : a \in approvals}
      BY <1>5, <2>1 DEF PersistComparison
    <3>2. \A a \in approvals :
            /\ New(a) \in approvals' /\ New(a).approval = a.approval
            /\ New(a) = [approval |-> New(a).approval, consumer |-> New(a).consumer]
            /\ a.consumer # "none" => New(a).consumer # "none"
            /\ (\E t \in program.batch : t.approval = a.approval) => New(a).consumer # "none"
      BY <3>1
    <3>3. \A b \in approvals' : \E a \in approvals : b = New(a)
      BY <3>1
    <3> HIDE DEF New
    <3>4. ApprovalsKept
      BY <3>2 DEF ApprovalsKept
    <3>5. \A a \in approvals' : a = [approval |-> a.approval, consumer |-> a.consumer]
      BY <3>2, <3>3
    <3>6. \A t \in program.batch :
            \E a \in approvals' : a.approval = t.approval /\ a.consumer # "none"
      BY <2>1, <3>2 DEF Recorded
    <3>7. \A approval \in {t.approval : t \in sessions} \cup bindings :
            \E a \in approvals' : a.approval = approval /\ a.consumer # "none"
      BY <3>4 DEF ApprovalsInv, SessionsAreApproved, ApprovalsKept
    <3> QED
      BY <3>1, <3>4, <3>5, <3>6, <3>7 DEF ApprovalsInv, SessionsAreApproved
  <2>2. CASE ~\A t \in program.batch : Recorded(t.approval)
    BY <1>1, <1>5, <2>2 DEF PersistComparison, execution
  <2> QED
    BY <2>1, <2>2
<1> QED
  BY <1>1, <1>2, <1>3, <1>4, <1>5
  DEF StoreNext, storeVars, PlansOnly, StartTraining, Train, EvaluateCandidates,
      PersistCandidates, EvaluateLedger, PersistLedger, CreateApproval, BuildPackage,
      CreateExactApproval, ReplayDryRun, StartAssessment, StartComparison, Migrate,
      Interrupt, Reconfigured

-----------------------------------------------------------------------------
(* Theorems.                                                               *)

\* What a run of the programs keeps: the inductive invariant.
THEOREM StoreInvariant == StoreSpec => []StoreInv
<1>1. StoreInit => StoreInv
  BY StoreInitInv
<1>2. StoreInv /\ [StoreNext]_storeVars => StoreInv'
  BY StoreInvStep
<1> QED
  BY <1>1, <1>2, PTL DEF StoreSpec

\* Evidence names only evidence that is on record.
THEOREM Linked == StoreSpec => []EvidenceIsLinked
<1>1. StoreInv => EvidenceIsLinked
  BY DEF StoreInv
<1> QED
  BY <1>1, StoreInvariant, PTL

\* What has been executed or assessed was approved, and its approval is consumed.
THEOREM SessionsApproved == StoreSpec => []SessionsAreApproved
<1>1. StoreInit => ApprovalsInv
  BY DEF StoreInit, ApprovalsInv, SessionsAreApproved
<1>2. ApprovalsInv /\ [StoreNext]_storeVars => ApprovalsInv'
  BY ApprovalsStep
<1>3. ApprovalsInv => SessionsAreApproved
  BY DEF ApprovalsInv
<1> QED
  BY <1>1, <1>2, <1>3, PTL DEF StoreSpec

\* No program takes away or changes what another has recorded.
THEOREM Additive == StoreSpec => EvidenceIsAdditive
<1>1. StoreInit => ApprovalsInv
  BY DEF StoreInit, ApprovalsInv, SessionsAreApproved
<1>2. ApprovalsInv /\ [StoreNext]_storeVars => ApprovalsInv'
  BY ApprovalsStep
<1> DEFINE Adds ==
      /\ version <= version' /\ planned \subseteq planned'
      /\ models \subseteq models' /\ Keys(rollouts) \subseteq Keys(rollouts')
      /\ evaluations \subseteq evaluations' /\ transactions \subseteq transactions'
      /\ rankings \subseteq rankings' /\ bindings \subseteq bindings'
      /\ {s.session : s \in sessions} \subseteq {s.session : s \in sessions'}
      /\ \A a \in approvals : \E b \in approvals' :
           b.approval = a.approval /\ (a.consumer # "none" => b.consumer # "none")
<1>3. StoreInv /\ ApprovalsInv /\ [StoreNext]_storeVars => [Adds]_storeVars
  <2> SUFFICES ASSUME StoreInv, ApprovalsInv, StoreNext PROVE Adds
    OBVIOUS
  <2> USE DEF base, twin, advisory, execution, disk
  <2>1. /\ \A a \in approvals : \E b \in approvals' :
             b.approval = a.approval /\ (a.consumer # "none" => b.consumer # "none")
        /\ bindings \subseteq bindings'
    BY ApprovalsStep DEF ApprovalsKept
  <2>2. version <= version' /\ planned \subseteq planned'
    <3>1. version \in 0 .. 10
      BY DEF StoreInv
    <3>2. Build \/ planned' = planned
      BY DEF StoreNext, PlansOnly, StartTraining, Train, EvaluateCandidates,
             PersistCandidates, EvaluateLedger, PersistLedger, CreateApproval, BuildPackage,
             CreateExactApproval, PersistApproval, ReplayDryRun, PersistReport,
             StartAssessment, StartComparison, PersistComparison, PersistAssessment, Migrate,
             Interrupt, Reconfigured
    <3>3. Migrate \/ version' = version
      BY DEF StoreNext, PlansOnly, StartTraining, Train, EvaluateCandidates,
             PersistCandidates, EvaluateLedger, PersistLedger, CreateApproval, BuildPackage,
             CreateExactApproval, PersistApproval, ReplayDryRun, PersistReport,
             StartAssessment, StartComparison, PersistComparison, PersistAssessment,
             Interrupt, Reconfigured
    <3> QED
      BY <3>1, <3>2, <3>3, BuildKeeps, MigrateStep
  <2>3. CASE PersistCandidates
    BY <2>1, <2>2, <2>3, CandidatesStep DEF PersistCandidates
  <2>4. CASE PersistLedger
    BY <2>1, <2>2, <2>4, LedgerStep DEF PersistLedger
  <2>5. CASE PersistApproval \/ PersistReport \/ PersistComparison \/ PersistAssessment
    <3>1. {s.session : s \in sessions} \subseteq {s.session : s \in sessions'}
      BY <2>5, SessionSteps DEF Names
    <3>2. UNCHANGED advisory
      BY <2>5 DEF PersistApproval, PersistReport, PersistComparison, PersistAssessment
    <3> QED
      BY <2>1, <2>2, <3>1, <3>2
  <2>6. CASE UNCHANGED <<advisory, sessions>>
    BY <2>1, <2>2, <2>6
  <2> QED
    BY <2>3, <2>4, <2>5, <2>6
    DEF StoreNext, PlansOnly, StartTraining, Train, EvaluateCandidates, EvaluateLedger,
        CreateApproval, BuildPackage, CreateExactApproval, ReplayDryRun, StartAssessment,
        StartComparison, Migrate, Interrupt, Reconfigured
<1>4. EvidenceIsAdditive <=> [][Adds]_storeVars
  BY PTL DEF EvidenceIsAdditive
<1> QED
  BY <1>1, <1>2, <1>3, <1>4, StoreInvariant, PTL DEF StoreSpec

-----------------------------------------------------------------------------
(* The accounts of one evaluation.                                         *)

Stages == {"entries", "totalled", "closed", "refused"}

\* The amounts the later stages start from.
Amounts ==
  /\ stage \in Stages
  /\ tally.burden \in Nat /\ tally.credit \in Nat
  /\ account.credit \in Nat /\ account.debt \in Nat

LedgerInv == Amounts /\ DebtIsAccounted /\ BankIsBalanced /\ RefusalIsRounding

-----------------------------------------------------------------------------
(* Numbers.                                                                *)

LEMMA LeastFacts ==
  ASSUME NEW a \in Int, NEW b \in Int
  PROVE  /\ Least(a, b) \in Int /\ Least(a, b) <= a /\ Least(a, b) <= b
         /\ Least(a, b) = a \/ Least(a, b) = b
BY DEF Least

LEMMA GreatestFacts ==
  ASSUME NEW a \in Int, NEW b \in Int
  PROVE  /\ Greatest(a, b) \in Int /\ Greatest(a, b) >= a /\ Greatest(a, b) >= b
         /\ Greatest(a, b) = a \/ Greatest(a, b) = b
BY DEF Greatest

\* round: a rounded half, quarter, twentieth or two-hundredth of an amount is an
\* amount, off by half of its unit at most.
LEMMA RoundedFacts ==
  ASSUME NEW n \in Nat, NEW d \in {2, 4, 20, 200}, NEW m \in Rounded(n, d)
  PROVE  /\ m \in Nat
         /\ 2 * (n - m * d) <= d
         /\ 2 * (m * d - n) <= d
<1>1. m \in Int /\ 2 * (n - m * d) <= d /\ 2 * (m * d - n) <= d
  BY DEF Rounded
<1>2. m >= 0
  <2>1. CASE d = 2   BY <1>1, <2>1
  <2>2. CASE d = 4   BY <1>1, <2>2
  <2>3. CASE d = 20  BY <1>1, <2>3
  <2>4. CASE d = 200 BY <1>1, <2>4
  <2> QED BY <2>1, <2>2, <2>3, <2>4
<1> QED BY <1>1, <1>2

-----------------------------------------------------------------------------
(* Entries.                                                                *)

LEMMA EntryAmounts ==
  ASSUME NEW p \in Points
  PROVE  Burdens(p) \subseteq Nat /\ Credits(p) \subseteq Nat
<1>1. /\ p.lower \in Int /\ p.predicted \in Int /\ p.upper \in Int
  BY PointsAssumption
<1>2. Lower(p) \in Int /\ Upper(p) \in Int
  BY SettingsAssumption DEF Lower, Upper
<1>3. Central(p) \in Nat /\ Uncertain(p) \in Nat /\ Margin(p) \in Nat
  BY <1>1, <1>2 DEF Central, Uncertain, Margin, Exceedance, Least, Greatest
<1>4. Burdens(p) \subseteq Nat
  <2>1. Greatest(Central(p), Uncertain(p)) \in Nat
    BY <1>3 DEF Greatest
  <2>2. 5 * Greatest(Central(p), Uncertain(p)) \in Nat
    BY <2>1
  <2>3. \A m \in Rounded(5 * Greatest(Central(p), Uncertain(p)), 4) : m \in Nat
    BY <2>2, RoundedFacts
  <2> QED BY <2>1, <2>3 DEF Burdens
<1>5. Credits(p) \subseteq Nat
  <2>1. Least(2 * CreditPerTimestep, Margin(p)) \in Nat /\ Least(CreditPerTimestep, Margin(p)) \in Nat
    BY <1>3, SettingsAssumption DEF Least
  <2>2. \A m \in Rounded(Least(2 * CreditPerTimestep, Margin(p)), 2) : m \in Nat
    BY <2>1, RoundedFacts
  <2> QED BY <2>1, <2>2 DEF Credits
<1> QED BY <1>4, <1>5

LEMMA AddEntryInv ==
  ASSUME LedgerInv, NEW p \in Points, AddEntry(p)
  PROVE  LedgerInv'
<1>1. PICK burden \in Burdens(p), credit \in Credits(p) :
        tally'.burden = tally.burden + burden /\ tally'.credit = tally.credit + credit
  BY DEF AddEntry
<1>2. burden \in Nat /\ credit \in Nat
  BY <1>1, EntryAmounts
<1>3. UNCHANGED <<stage, account, bank>>
  BY DEF AddEntry
<1> QED
  BY <1>1, <1>2, <1>3
  DEF LedgerInv, Amounts, DebtIsAccounted, BankIsBalanced, RefusalIsRounding, Result

-----------------------------------------------------------------------------
(* The ledger.                                                             *)

\* A repayment is of a debt, and of half of a credit at most.
LEMMA RepaidFacts ==
  ASSUME NEW opening \in Nat, NEW credit \in Nat, NEW repayment \in Repaid(opening, credit)
  PROVE  repayment \in Nat /\ repayment <= opening /\ 2 * repayment <= credit + 1
<1> DEFINE due == Least(2 * opening, credit)
<1>1. due \in Nat /\ due <= 2 * opening /\ due <= credit
  BY DEF Least
<1>2. repayment \in Rounded(due, 2)
  BY DEF Repaid
<1> HIDE DEF due
<1>3. repayment \in Nat /\ 2 * (repayment * 2 - due) <= 2
  BY <1>1, <1>2, RoundedFacts
<1> QED BY <1>1, <1>3

LEMMA TotalInv ==
  ASSUME LedgerInv, NEW opening \in Openings, NEW qualified \in BOOLEAN,
         Total(opening, qualified)
  PROVE  LedgerInv'
<1> DEFINE credit == Least(CreditPerHorizon, tally.credit)
<1>1. opening \in Nat /\ credit \in Nat /\ tally.burden \in Nat
  BY SettingsAssumption DEF LedgerInv, Amounts, Least
<1> HIDE DEF credit
<1>2. PICK repayment \in Repaid(opening, credit) :
        /\ account'.opening = opening /\ account'.burden = tally.burden
        /\ account'.credit = credit /\ account'.repayment = repayment
        /\ account'.debt = Debt(opening, tally.burden, repayment)
  <2>1. PICK repayment \in Repaid(opening, credit) :
          \E heavy, concentrated :
            account' = [opening |-> opening, burden |-> tally.burden, credit |-> credit,
                        repayment |-> repayment,
                        debt |-> Debt(opening, tally.burden, repayment),
                        blocking |-> Blocking(tally, heavy, qualified),
                        unfair |-> Unfair(tally, concentrated)]
    BY DEF Total, credit
  <2> QED BY <2>1
<1>3. repayment \in Nat /\ repayment <= opening /\ 2 * repayment <= credit + 1
  BY <1>1, RepaidFacts
<1>4. stage' = "totalled" /\ UNCHANGED <<tally, bank>>
  BY DEF Total
<1>5. /\ account'.debt \in Nat
      /\ \/ account'.debt = opening + tally.burden - repayment
         \/ account'.debt = MaximumDebt /\ opening + tally.burden > MaximumDebt
  BY <1>1, <1>2, <1>3, SettingsAssumption DEF Debt, Least, Greatest
<1>6. Amounts'
  BY <1>1, <1>2, <1>4, <1>5 DEF LedgerInv, Amounts, Stages
<1>7. DebtIsAccounted'
  BY <1>1, <1>2, <1>3, <1>5 DEF DebtIsAccounted
<1> QED BY <1>4, <1>6, <1>7 DEF LedgerInv, BankIsBalanced, RefusalIsRounding

-----------------------------------------------------------------------------
(* The bank.                                                               *)

\* What is set aside as uncertain is no more than there is: half a unit of
\* rounding does not fit under a deposit that rounds up to one.
LEMMA UncertaintyFacts ==
  ASSUME NEW before \in Nat, NEW deposit \in Nat, deposit <= before,
         NEW uncertainty \in UncertaintyReserves(before, deposit)
  PROVE  uncertainty \in Nat /\ uncertainty <= before
<1> DEFINE due == Least(10 * before, deposit)
<1>1. due \in Nat /\ due <= deposit
  BY DEF Least
<1>2. PICK m \in Rounded(due, 200) : uncertainty = 20 * m
  BY DEF UncertaintyReserves, Million
<1> HIDE DEF due
<1>3. m \in Nat /\ 2 * (m * 200 - due) <= 200
  BY <1>1, <1>2, RoundedFacts
<1> QED BY <1>1, <1>2, <1>3

\* A reserve exceeds what remains by half a millionth at most.
LEMMA ReserveFacts ==
  ASSUME NEW remaining \in Nat, NEW events \in BOOLEAN,
         NEW reserve \in Reserves(remaining, events)
  PROVE  reserve \in Nat /\ 2 * reserve <= 2 * remaining + Million
<1> DEFINE due == Least(remaining, IF events THEN ProtectedReserve ELSE 0)
<1>1. due \in Nat /\ due <= remaining
  BY SettingsAssumption DEF Least
<1>2. PICK k \in Rounded(due, 20) : reserve = 20 * k
  BY DEF Reserves, Million
<1> HIDE DEF due
<1>3. k \in Nat /\ 2 * (k * 20 - due) <= 20
  BY <1>1, <1>2, RoundedFacts
<1> QED BY <1>1, <1>2, <1>3 DEF Million

\* closing_balance of movements that the evaluation can have computed.
Computed(b) ==
  /\ b.opening \in Nat /\ b.deposit \in Nat /\ b.withdrawal \in Nat /\ b.penalty \in Nat
  /\ b.uncertainty \in Nat /\ b.reserve \in Nat /\ b.available \in Nat
  /\ b.withdrawal + b.penalty <= b.available
  /\ \/ Result(b) >= 0
     \/ b.available = 0 /\ 2 * Result(b) >= -Million
  /\ account.blocking # {} => b.deposit = 0 /\ b.withdrawal = 0

LEMMA CloseFacts ==
  ASSUME NEW opening, NEW deposit, NEW uncertainty, NEW reserve, NEW available,
         NEW withdrawal, NEW penalty,
         Computed([opening |-> opening, deposit |-> deposit, uncertainty |-> uncertainty,
                    reserve |-> reserve, available |-> available,
                    withdrawal |-> withdrawal, penalty |-> penalty, closing |-> 0]),
         Close([opening |-> opening, deposit |-> deposit, uncertainty |-> uncertainty,
                reserve |-> reserve, available |-> available,
                withdrawal |-> withdrawal, penalty |-> penalty, closing |-> 0]),
         UNCHANGED account
  PROVE  stage' \in {"closed", "refused"} /\ BankIsBalanced' /\ RefusalIsRounding'
<1> DEFINE b == [opening |-> opening, deposit |-> deposit, uncertainty |-> uncertainty,
                 reserve |-> reserve, available |-> available,
                 withdrawal |-> withdrawal, penalty |-> penalty, closing |-> 0]
<1> DEFINE r == opening + deposit - withdrawal - penalty - uncertainty - reserve
<1>1. Result(b) = r
  BY DEF Result
<1>2. /\ opening \in Nat /\ deposit \in Nat /\ withdrawal \in Nat /\ penalty \in Nat
      /\ uncertainty \in Nat /\ reserve \in Nat /\ available \in Nat
      /\ withdrawal + penalty <= available
      /\ r >= 0 \/ (available = 0 /\ 2 * r >= -20)
      /\ account.blocking # {} => deposit = 0 /\ withdrawal = 0
  BY <1>1 DEF Computed, Million
<1>3. /\ \E m \in Rounded(r, 20) : bank' = [b EXCEPT !.closing = 20 * m]
      /\ \/ (MayOverdraw(b) \/ MayOverfill(b)) /\ stage' = "refused"
         \/ r \in 0 .. MaximumBalance /\ stage' = "closed"
  BY <1>1 DEF Close, Million
<1>4. PICK m \in Rounded(r, 20) : bank' = [b EXCEPT !.closing = 20 * m]
  BY <1>3
<1>5. m \in Int /\ 2 * (r - 20 * m) <= 20 /\ 2 * (20 * m - r) <= 20
  BY <1>2, <1>4 DEF Rounded
<1>6. stage' = "refused" => r <= 0 \/ r >= MaximumBalance
  BY <1>1, <1>2, <1>3, SettingsAssumption DEF MayOverdraw, MayOverfill
<1>7. /\ bank'.opening = opening /\ bank'.deposit = deposit
      /\ bank'.withdrawal = withdrawal /\ bank'.penalty = penalty
      /\ bank'.uncertainty = uncertainty /\ bank'.reserve = reserve
      /\ bank'.available = available /\ bank'.closing = 20 * m
  BY <1>4
<1>8. Result(bank)' = r
  BY <1>7 DEF Result
<1>9. BankIsBalanced'
  <2>1. SUFFICES ASSUME stage' = "closed"
                 PROVE  /\ 20 * m \in 0 .. MaximumBalance + 20
                        /\ 2 * (r - 20 * m) <= 20 /\ 2 * (20 * m - r) <= 20
                        /\ withdrawal + penalty <= available
                        /\ account.blocking # {} => deposit = 0 /\ withdrawal = 0
    BY <1>7, <1>8 DEF BankIsBalanced, Million
  <2>2. r \in Int /\ r >= 0 /\ r <= MaximumBalance
    BY <1>2, <1>3, <2>1, SettingsAssumption
  <2> HIDE DEF r
  <2>3. m >= 0
    BY <1>5, <2>2
  <2> QED BY <1>2, <1>5, <2>2, <2>3, SettingsAssumption
<1>10. RefusalIsRounding'
  <2>1. SUFFICES ASSUME stage' = "refused"
                 PROVE  \/ r = 0
                        \/ -20 <= 2 * r /\ r < 0 /\ available = 0
                        \/ opening + deposit >= MaximumBalance
    BY <1>7, <1>8 DEF RefusalIsRounding, Million
  <2> QED BY <1>2, <1>6, <2>1, SettingsAssumption
<1> QED BY <1>3, <1>9, <1>10

LEMMA SettleInv ==
  ASSUME LedgerInv, NEW strategy \in Strategies, NEW opening \in BankOpenings,
         NEW events \in BOOLEAN, Settle(strategy, opening, events)
  PROVE  LedgerInv'
<1> DEFINE deposit == Deposit(strategy)
           before  == opening + deposit
<1>1. /\ deposit \in Nat /\ opening \in Nat
      /\ account.blocking # {} => deposit = 0
  BY SettingsAssumption DEF LedgerInv, Amounts, Deposit, Least
<1> HIDE DEF deposit
<1>2. UNCHANGED <<tally, account>>
  BY DEF Settle
<1>3. PICK uncertainty \in UncertaintyReserves(before, deposit) :
        \E reserve \in Reserves(Greatest(0, before - uncertainty), events) :
          LET available  == Greatest(0, Greatest(0, before - uncertainty) - reserve)
              withdrawal == Withdrawal(strategy, available)
          IN  Close([opening |-> opening, deposit |-> deposit,
                     uncertainty |-> uncertainty, reserve |-> reserve,
                     available |-> available, withdrawal |-> withdrawal,
                     penalty |-> Penalty(available, withdrawal), closing |-> 0])
  BY DEF Settle, deposit
<1>4. uncertainty \in Nat /\ uncertainty <= before
  BY <1>1, <1>3, UncertaintyFacts
<1> DEFINE remaining == before - uncertainty
<1>5. remaining \in Nat /\ Greatest(0, before - uncertainty) = remaining
  BY <1>1, <1>4 DEF Greatest
<1>6. PICK reserve \in Reserves(remaining, events) :
          LET available  == Greatest(0, remaining - reserve)
              withdrawal == Withdrawal(strategy, available)
          IN  Close([opening |-> opening, deposit |-> deposit,
                     uncertainty |-> uncertainty, reserve |-> reserve,
                     available |-> available, withdrawal |-> withdrawal,
                     penalty |-> Penalty(available, withdrawal), closing |-> 0])
  BY <1>3, <1>5
<1>7. reserve \in Nat /\ 2 * reserve <= 2 * remaining + 20
  BY <1>5, <1>6, ReserveFacts DEF Million
<1> DEFINE available  == Greatest(0, remaining - reserve)
           withdrawal == Withdrawal(strategy, available)
           penalty    == Penalty(available, withdrawal)
<1>8. /\ available \in Nat
      /\ \/ available = remaining - reserve
         \/ available = 0 /\ 2 * (remaining - reserve) >= -20
  BY <1>5, <1>7 DEF Greatest
<1> HIDE DEF available
<1>9. /\ withdrawal \in Nat /\ withdrawal <= available
      /\ account.blocking # {} => withdrawal = 0
  BY <1>8, SettingsAssumption DEF Withdrawal, Least
<1> HIDE DEF withdrawal
<1>10. penalty \in Nat /\ withdrawal + penalty <= available
  BY <1>8, <1>9 DEF LedgerInv, Amounts, Penalty, Least, Greatest
<1> HIDE DEF penalty
<1> DEFINE b == [opening |-> opening, deposit |-> deposit, uncertainty |-> uncertainty,
                 reserve |-> reserve, available |-> available,
                 withdrawal |-> withdrawal, penalty |-> penalty, closing |-> 0]
<1>11. Computed(b)
  <2>1. Result(b) = remaining - reserve - withdrawal - penalty
    BY <1>1, <1>4, <1>7, <1>9, <1>10 DEF Result
  <2>2. Result(b) >= 0 \/ (available = 0 /\ 2 * Result(b) >= -20)
    BY <2>1, <1>5, <1>7, <1>8, <1>9, <1>10
  <2> HIDE DEF remaining
  <2> QED BY <2>2, <1>1, <1>4, <1>7, <1>8, <1>9, <1>10 DEF Computed, Million
<1>12. Close(b)
  BY <1>6 DEF available, withdrawal, penalty
<1>13. stage' \in {"closed", "refused"} /\ BankIsBalanced' /\ RefusalIsRounding'
  BY <1>2, <1>11, <1>12, CloseFacts
<1>14. stage = "totalled"
  BY DEF Settle
<1> QED
  BY <1>2, <1>13, <1>14 DEF LedgerInv, Amounts, Stages, DebtIsAccounted

-----------------------------------------------------------------------------

LEMMA LedgerInitInv ==
  LedgerInit => LedgerInv
BY DEF LedgerInit, LedgerInv, Amounts, Stages, NoEntries, NoAccount,
       DebtIsAccounted, BankIsBalanced, RefusalIsRounding

LEMMA LedgerStepInv ==
  LedgerInv /\ [LedgerNext]_ledgerVars => LedgerInv'
<1> SUFFICES ASSUME LedgerInv, [LedgerNext]_ledgerVars
             PROVE  LedgerInv'
  OBVIOUS
<1>1. ASSUME NEW p \in Points, AddEntry(p)
      PROVE  LedgerInv'
  BY <1>1, AddEntryInv
<1>2. ASSUME NEW opening \in Openings, NEW qualified \in BOOLEAN, Total(opening, qualified)
      PROVE  LedgerInv'
  BY <1>2, TotalInv
<1>3. ASSUME NEW strategy \in Strategies, NEW opening \in BankOpenings,
             NEW events \in BOOLEAN, Settle(strategy, opening, events)
      PROVE  LedgerInv'
  BY <1>3, SettleInv
<1>4. CASE UNCHANGED ledgerVars
  BY <1>4 DEF ledgerVars, LedgerInv, Amounts, DebtIsAccounted, BankIsBalanced,
              RefusalIsRounding, Result
<1> QED BY <1>1, <1>2, <1>3, <1>4 DEF LedgerNext

LEMMA LedgerInvariance ==
  LedgerSpec => []LedgerInv
BY LedgerInitInv, LedgerStepInv, PTL DEF LedgerSpec

\* Whatever a rollout predicts, burden, repayment and debt of its evaluation add
\* up, or debt is at its maximum (evaluation.py, 171-176).
THEOREM DebtAlwaysAccounted ==
  LedgerSpec => []DebtIsAccounted
<1>1. LedgerInv => DebtIsAccounted
  BY DEF LedgerInv
<1> QED BY <1>1, LedgerInvariance, PTL

\* A bank that closes has a legal balance that accounts for its movements, for
\* every limit it is configured with (evaluation.py, 224-258; accounting.py).
THEOREM BankAlwaysBalanced ==
  LedgerSpec => []BankIsBalanced
<1>1. LedgerInv => BankIsBalanced
  BY DEF LedgerInv
<1> QED BY <1>1, LedgerInvariance, PTL

\* For every setting, opening and rollout: no evaluation is refused for what it
\* withdraws or charges. What refuses it is the last bit of a sum that leaves
\* nothing, a reserve rounded to half a millionth more than there is, with nothing
\* available, or an opening and a deposit that reach the maximum (evaluation.py,
\* 231-258; accounting.py, 37-42).
THEOREM RefusalAlwaysRounding ==
  LedgerSpec => []RefusalIsRounding
<1>1. LedgerInv => RefusalIsRounding
  BY DEF LedgerInv
<1> QED BY <1>1, LedgerInvariance, PTL

-----------------------------------------------------------------------------
(* The evidence as the dashboard presents it.                              *)

Places == {"idle", "check", "hash", "read", "truncate", "write"}

Snapshots ==
  [kind : {"snapshot"}, sums : [Sources -> Nat], data : [Read -> Nat],
   since : [Sources -> Nat], moment : [Sources -> Nat]]

Builders == [place : Places, next : Nat, stale : BOOLEAN, snapshot : Snapshots]

Servers == [place : {"down", "validate", "serving"}, next : Nat, snapshot : Snapshots]

Differ(a, b) == IF a = b THEN 0 ELSE 1

\* An artifact that shows sum, moment, value and content one after the other has
\* changed between any two of these that differ.
Apart(since, sum, moment, value, content, count) ==
  since + Differ(sum, moment) + Differ(moment, value) + Differ(value, content) <= count

\* s, as snapshot has its checksum, and as it is now or as it was when value was read.
Seen(snapshot, s, value, content, count) ==
  Apart(snapshot.since[s], snapshot.sums[s], snapshot.moment[s], value, content, count)

\* The contents in the snapshot were read after its moment.
Complete(snapshot, content, count) ==
  \A s \in Read : Seen(snapshot, s, snapshot.data[s], content[s], count[s])

OneMoment(snapshot, s, count) ==
  snapshot.data[s] = snapshot.moment[s] \/ count[s] >= snapshot.since[s] + 2

Hashing(b, content, count) ==
  /\ b.next \in 1 .. Len(HashOrder)
  /\ b.next > 1 => \A s \in Sources : b.snapshot.since[s] <= count[s]
  /\ \A i \in 1 .. (b.next - 1) :
       LET s == HashOrder[i]
       IN  b.snapshot.since[s] + Differ(b.snapshot.sums[s], content[s]) <= count[s]

Reading(b, content, count) ==
  /\ b.next \in 1 .. Len(ReadOrder)
  /\ \A s \in Sources : Seen(b.snapshot, s, content[s], content[s], count[s])
  /\ \A i \in 1 .. (b.next - 1) :
       Seen(b.snapshot, ReadOrder[i], b.snapshot.data[ReadOrder[i]],
            content[ReadOrder[i]], count[ReadOrder[i]])

BuilderInv(b, content, count) ==
  /\ b \in Builders
  /\ b.place = "check" => b.next \in 1 .. Len(HashOrder)
  /\ b.place = "hash" => Hashing(b, content, count)
  /\ b.place = "read" => Reading(b, content, count)
  /\ b.place \in {"truncate", "write"} => Complete(b.snapshot, content, count)

FileInv(f, content, count) ==
  f \in {NoFile, Torn} \/ (f \in Snapshots /\ Complete(f, content, count))

ServerInv(v, content, count) ==
  /\ v \in Servers
  /\ v.place # "down" => Complete(v.snapshot, content, count)
  /\ v.place = "validate" =>
       /\ v.next \in 1 .. Len(HashOrder)
       /\ \A i \in 1 .. (v.next - 1) :
            HashOrder[i] \in Read => OneMoment(v.snapshot, HashOrder[i], count)

DashboardInv ==
  /\ contents \in [Sources -> Nat] /\ changes \in [Sources -> Nat]
  /\ BuilderInv(builder, contents, changes)
  /\ FileInv(file, contents, changes)
  /\ ServerInv(server, contents, changes)

-----------------------------------------------------------------------------

LEMMA DifferFacts ==
  ASSUME NEW a, NEW b
  PROVE  Differ(a, b) \in {0, 1} /\ (Differ(a, b) = 0 <=> a = b)
BY DEF Differ

LEMMA ApartLater ==
  ASSUME NEW since \in Nat, NEW count \in Nat, NEW sum, NEW moment, NEW value,
         NEW content, NEW later
  PROVE  /\ Apart(since, sum, moment, value, content, count)
              => Apart(since, sum, moment, value, later, count + 1)
         /\ Apart(since, sum, moment, content, content, count)
              => Apart(since, sum, moment, later, later, count + 1)
BY DifferFacts DEF Apart

\* No artifact, or one, has been changed.
Later(content, count, content2, count2) ==
  /\ count \in [Sources -> Nat] /\ count2 \in [Sources -> Nat]
  /\ \A s \in Sources : \/ content2[s] = content[s] /\ count2[s] = count[s]
                        \/ count2[s] = count[s] + 1

LEMMA CompleteLater ==
  ASSUME NEW content, NEW count, NEW content2, NEW count2,
         Later(content, count, content2, count2),
         NEW snapshot \in Snapshots, Complete(snapshot, content, count)
  PROVE  Complete(snapshot, content2, count2)
<1> SUFFICES ASSUME NEW s \in Read
             PROVE  Seen(snapshot, s, snapshot.data[s], content2[s], count2[s])
  BY DEF Complete
<1>1. s \in Sources /\ snapshot.since[s] \in Nat /\ count[s] \in Nat
  BY DashboardAssumption DEF Snapshots, Later
<1>2. Seen(snapshot, s, snapshot.data[s], content[s], count[s])
  BY DEF Complete
<1> QED
  BY <1>1, <1>2, ApartLater DEF Later, Seen

LEMMA BuilderLater ==
  ASSUME NEW content, NEW count, NEW content2, NEW count2,
         Later(content, count, content2, count2), NEW b, BuilderInv(b, content, count)
  PROVE  BuilderInv(b, content2, count2)
<1>1. b.snapshot \in Snapshots /\ b.next \in Nat
  BY DEF BuilderInv, Builders
<1>2. ASSUME NEW s \in Sources
      PROVE  b.snapshot.since[s] \in Nat /\ count[s] \in Nat /\ count2[s] \in Nat
  BY <1>1 DEF Snapshots, Later
<1>3. ASSUME Hashing(b, content, count)
      PROVE  Hashing(b, content2, count2)
  <2>1. b.next > 1 => \A s \in Sources : b.snapshot.since[s] <= count2[s]
    BY <1>2, <1>3 DEF Hashing, Later
  <2>2. ASSUME NEW i \in 1 .. (b.next - 1)
        PROVE  b.snapshot.since[HashOrder[i]]
                 + Differ(b.snapshot.sums[HashOrder[i]], content2[HashOrder[i]])
                   <= count2[HashOrder[i]]
    <3>1. i \in 1 .. Len(HashOrder)
      BY <1>1, <1>3, DashboardAssumption DEF Hashing
    <3>2. PICK s \in Sources : s = HashOrder[i]
      BY <3>1 DEF Sources
    <3>3. b.snapshot.since[s] + Differ(b.snapshot.sums[s], content[s]) <= count[s]
      BY <1>3, <3>2 DEF Hashing
    <3>4. b.snapshot.since[s] + Differ(b.snapshot.sums[s], content2[s]) <= count2[s]
      <4>1. CASE content2[s] = content[s] /\ count2[s] = count[s]
        BY <3>3, <4>1
      <4>2. CASE count2[s] = count[s] + 1
        BY <1>2, <3>3, <4>2, DifferFacts
      <4> QED
        BY <4>1, <4>2 DEF Later
    <3> QED
      BY <3>2, <3>4
  <2> QED
    BY <1>3, <2>1, <2>2 DEF Hashing
<1>4. ASSUME Reading(b, content, count)
      PROVE  Reading(b, content2, count2)
  <2>1. ASSUME NEW s \in Sources
        PROVE  Seen(b.snapshot, s, content2[s], content2[s], count2[s])
    <3>1. Seen(b.snapshot, s, content[s], content[s], count[s])
      BY <1>4 DEF Reading
    <3> QED
      BY <1>2, <3>1, ApartLater DEF Later, Seen
  <2>2. ASSUME NEW i \in 1 .. (b.next - 1)
        PROVE  Seen(b.snapshot, ReadOrder[i], b.snapshot.data[ReadOrder[i]],
                    content2[ReadOrder[i]], count2[ReadOrder[i]])
    <3>1. i \in 1 .. Len(ReadOrder)
      BY <1>1, <1>4, DashboardAssumption DEF Reading
    <3>2. PICK s \in Sources : s = ReadOrder[i]
      BY <3>1, DashboardAssumption DEF Read
    <3>3. Seen(b.snapshot, s, b.snapshot.data[s], content[s], count[s])
      BY <1>4, <3>2 DEF Reading
    <3>4. Seen(b.snapshot, s, b.snapshot.data[s], content2[s], count2[s])
      BY <1>2, <3>3, ApartLater DEF Later, Seen
    <3> QED
      BY <3>2, <3>4
  <2> QED
    BY <1>4, <2>1, <2>2 DEF Reading
<1>5. Complete(b.snapshot, content, count) => Complete(b.snapshot, content2, count2)
  BY <1>1, CompleteLater
<1> QED
  BY <1>3, <1>4, <1>5 DEF BuilderInv

LEMMA ServerLater ==
  ASSUME NEW content, NEW count, NEW content2, NEW count2,
         Later(content, count, content2, count2), NEW v, ServerInv(v, content, count)
  PROVE  ServerInv(v, content2, count2)
<1>1. v.snapshot \in Snapshots /\ v.next \in Nat
  BY DEF ServerInv, Servers
<1>2. Complete(v.snapshot, content, count) => Complete(v.snapshot, content2, count2)
  BY <1>1, CompleteLater
<1>3. ASSUME NEW s \in Read, OneMoment(v.snapshot, s, count)
      PROVE  OneMoment(v.snapshot, s, count2)
  <2>1. s \in Sources /\ v.snapshot.since[s] \in Nat /\ count[s] \in Nat /\ count2[s] \in Nat
    BY <1>1, DashboardAssumption DEF Snapshots, Later
  <2> QED
    BY <1>3, <2>1 DEF OneMoment, Later
<1> QED
  BY <1>2, <1>3 DEF ServerInv

LEMMA RewriteInv ==
  ASSUME DashboardInv, NEW s \in Sources, Rewrite(s)
  PROVE  DashboardInv'
<1>1. PICK content \in (0 .. MaxContent) \ {contents[s]} :
        contents' = [contents EXCEPT ![s] = content]
  BY DEF Rewrite
<1>2. /\ changes' = [changes EXCEPT ![s] = @ + 1]
      /\ UNCHANGED <<builder, file, server>>
  BY DEF Rewrite
<1>3. contents' \in [Sources -> Nat] /\ changes' \in [Sources -> Nat]
  BY <1>1, <1>2 DEF DashboardInv
<1>4. Later(contents, changes, contents', changes')
  BY <1>1, <1>2, <1>3 DEF DashboardInv, Later
<1>5. /\ BuilderInv(builder, contents', changes')
      /\ ServerInv(server, contents', changes')
  BY <1>4, BuilderLater, ServerLater DEF DashboardInv
<1>6. FileInv(file, contents', changes')
  BY <1>4, CompleteLater DEF DashboardInv, FileInv
<1> QED
  BY <1>2, <1>3, <1>5, <1>6 DEF DashboardInv
LEMMA Lengths ==
  /\ Len(HashOrder) \in Nat /\ Len(HashOrder) >= 1
  /\ Len(ReadOrder) \in Nat /\ Len(ReadOrder) >= 1
<1>1. Len(HashOrder) \in Nat /\ Len(ReadOrder) \in Nat
  BY DashboardAssumption
<1>2. \E i \in 1 .. Len(ReadOrder) : TRUE
  BY DashboardAssumption DEF Read
<1>3. \E i \in 1 .. Len(HashOrder) : TRUE
  BY DashboardAssumption DEF Sources
<1> QED
  BY <1>1, <1>2, <1>3

LEMMA Empty == EmptySnapshot \in Snapshots
BY DEF EmptySnapshot, Snapshots

LEMMA NoBuildInv ==
  ASSUME NEW content, NEW count
  PROVE  BuilderInv(NoBuild, content, count)
<1>1. NoBuild \in Builders
  BY Empty DEF NoBuild, Builders, Places
<1> QED
  BY <1>1 DEF NoBuild, BuilderInv

LEMMA GathersInv ==
  ASSUME NEW content, NEW count
  PROVE  BuilderInv(Gathers, content, count)
<1>1. Gathers = [place |-> "hash", next |-> 1, stale |-> FALSE, snapshot |-> EmptySnapshot]
  <2>1. Passes[1] = "hash"
    BY DEF Passes
  <2>2. Gathers = [NoBuild EXCEPT !.place = "hash"]
    BY <2>1 DEF Gathers
  <2> QED
    BY <2>2 DEF NoBuild
<1>2. Gathers \in Builders
  BY <1>1, Empty DEF Builders, Places
<1>3. Gathers.place = "hash" /\ Gathers.next = 1
  BY <1>1
<1>4. Hashing(Gathers, content, count)
  BY <1>3, Lengths DEF Hashing
<1> QED
  BY <1>2, <1>3, <1>4 DEF BuilderInv

LEMMA AfterFacts == After("hash") = "read" /\ After("read") = "truncate"
<1>1. (CHOOSE i \in 1 .. 2 : Passes[i] = "hash") = 1
  BY DEF Passes
<1>2. (CHOOSE i \in 1 .. 2 : Passes[i] = "read") = 2
  BY DEF Passes
<1> QED
  BY <1>1, <1>2 DEF After, Passes

\* The steps of the builder that leave the artifacts, the file and the server.
LEMMA BuilderOnly ==
  ASSUME DashboardInv, UNCHANGED <<contents, changes, file, server>>,
         BuilderInv(builder', contents, changes)
  PROVE  DashboardInv'
BY DEF DashboardInv

LEMMA StartsInv ==
  ASSUME DashboardInv, NEW force \in BOOLEAN, BuilderStarts(force)
  PROVE  DashboardInv'
<1>1. ASSUME NEW stale \in BOOLEAN
      PROVE  BuilderInv([NoBuild EXCEPT !.place = "check", !.stale = stale], contents, changes)
  <2>1. PICK b0 : b0 = [NoBuild EXCEPT !.place = "check"]
    OBVIOUS
  <2>2. b0 \in Builders /\ b0.place = "check" /\ b0.next = 1
    BY <2>1, NoBuildInv DEF BuilderInv, Builders, Places, NoBuild
  <2>3. PICK b : b = [b0 EXCEPT !.stale = stale]
    OBVIOUS
  <2>4. b = [NoBuild EXCEPT !.place = "check", !.stale = stale]
    BY <2>1, <2>3
  <2>5. b \in Builders
    BY <2>2, <2>3 DEF Builders
  <2>6. b.place = "check" /\ b.next = 1
    BY <2>2, <2>3 DEF Builders
  <2>7. BuilderInv(b, contents, changes)
    BY <2>5, <2>6, Lengths DEF BuilderInv
  <2> QED
    BY <2>4, <2>7
<1>2. (~SchemaMatches(file)) \in BOOLEAN
  OBVIOUS
<1>3. BuilderInv(builder', contents, changes)
  BY <1>1, <1>2, GathersInv DEF BuilderStarts
<1> QED
  BY <1>3, BuilderOnly DEF BuilderStarts

LEMMA ChecksInv ==
  ASSUME DashboardInv, BuilderChecks
  PROVE  DashboardInv'
<1>1. PICK stale \in BOOLEAN :
        builder' =
          IF builder.next < Len(HashOrder)
            THEN [builder EXCEPT !.next = @ + 1, !.stale = stale]
          ELSE IF stale THEN Gathers
          ELSE NoBuild
  <2>1. builder.stale \in BOOLEAN
    BY DEF DashboardInv, BuilderInv, Builders
  <2>2. (builder.stale \/ ~Matches(file, HashOrder[builder.next])) \in BOOLEAN
    OBVIOUS
  <2> QED
    BY <2>2 DEF BuilderChecks
<1>2. CASE builder.next < Len(HashOrder)
  <2>1. builder.next \in 1 .. Len(HashOrder) /\ builder \in Builders /\ builder.place = "check"
    BY DEF DashboardInv, BuilderInv, BuilderChecks
  <2>2. PICK b : b = [builder EXCEPT !.next = @ + 1, !.stale = stale]
    OBVIOUS
  <2>3. b \in Builders /\ b.place = "check" /\ b.next = builder.next + 1
    <3>1. PICK b0 : b0 = [builder EXCEPT !.next = @ + 1]
      OBVIOUS
    <3>2. b0 \in Builders /\ b0.place = "check" /\ b0.next = builder.next + 1
      BY <2>1, <3>1 DEF Builders
    <3>3. b = [b0 EXCEPT !.stale = stale]
      BY <2>2, <3>1
    <3>4. b \in Builders
      BY <3>2, <3>3 DEF Builders
    <3>5. b.place = b0.place /\ b.next = b0.next
      BY <3>2, <3>3 DEF Builders
    <3> QED
      BY <3>2, <3>4, <3>5
  <2>4. BuilderInv(b, contents, changes)
    BY <1>2, <2>1, <2>3, Lengths DEF BuilderInv
  <2>5. BuilderInv(builder', contents, changes)
    BY <1>1, <1>2, <2>2, <2>4
  <2> QED
    BY <2>5, BuilderOnly DEF BuilderChecks
<1>3. CASE ~(builder.next < Len(HashOrder))
  <2>1. BuilderInv(builder', contents, changes)
    BY <1>1, <1>3, GathersInv, NoBuildInv
  <2> QED
    BY <2>1, BuilderOnly DEF BuilderChecks
<1> QED
  BY <1>2, <1>3

LEMMA TruncatesInv ==
  ASSUME DashboardInv, BuilderTruncates
  PROVE  DashboardInv'
<1>1. builder.place = "truncate" /\ builder' = [builder EXCEPT !.place = "write"] /\ file' = Torn
  BY DEF BuilderTruncates
<1>2. /\ builder' \in Builders /\ builder'.place = "write"
      /\ builder'.snapshot = builder.snapshot
  BY <1>1 DEF DashboardInv, BuilderInv, Builders, Places
<1>3. Complete(builder.snapshot, contents, changes)
  BY <1>1 DEF DashboardInv, BuilderInv
<1>4. BuilderInv(builder', contents, changes)
  BY <1>2, <1>3 DEF BuilderInv
<1>5. FileInv(file', contents, changes)
  BY <1>1 DEF FileInv
<1> QED
  BY <1>4, <1>5 DEF DashboardInv, BuilderTruncates

LEMMA WritesInv ==
  ASSUME DashboardInv, BuilderWrites
  PROVE  DashboardInv'
<1>1. builder.snapshot \in Snapshots /\ Complete(builder.snapshot, contents, changes)
  BY DEF DashboardInv, BuilderInv, Builders, BuilderWrites
<1>2. FileInv(file', contents, changes)
  BY <1>1 DEF FileInv, BuilderWrites
<1>3. BuilderInv(builder', contents, changes)
  BY NoBuildInv DEF BuilderWrites
<1> QED
  BY <1>2, <1>3 DEF DashboardInv, BuilderWrites

LEMMA EndsInv ==
  ASSUME DashboardInv, BuilderEnds
  PROVE  DashboardInv'
BY NoBuildInv, BuilderOnly DEF BuilderEnds

LEMMA DownInv ==
  ASSUME NEW content, NEW count
  PROVE  ServerInv(Down, content, count)
BY Empty DEF Down, ServerInv, Servers

LEMMA ServerOnly ==
  ASSUME DashboardInv, UNCHANGED <<contents, changes, builder, file>>,
         ServerInv(server', contents, changes)
  PROVE  DashboardInv'
BY DEF DashboardInv

LEMMA ServerStartsInv ==
  ASSUME DashboardInv, ServerStarts
  PROVE  DashboardInv'
<1>1. file \in Snapshots /\ Complete(file, contents, changes)
  BY DEF DashboardInv, FileInv, ServerStarts
<1>2. PICK v : v = [place |-> "validate", next |-> 1, snapshot |-> file]
  OBVIOUS
<1>3. v \in Servers /\ v.place = "validate" /\ v.next = 1 /\ v.snapshot = file
  BY <1>1, <1>2 DEF Servers
<1>4. ServerInv(v, contents, changes)
  BY <1>1, <1>3, Lengths DEF ServerInv
<1> QED
  BY <1>2, <1>4, ServerOnly DEF ServerStarts

LEMMA MatchedOneMoment ==
  ASSUME DashboardInv, server.place = "validate", NEW s \in Read,
         Matches(server.snapshot, s)
  PROVE  OneMoment(server.snapshot, s, changes)
<1>1. /\ s \in Sources /\ server.snapshot.since[s] \in Nat /\ changes[s] \in Nat
      /\ contents[s] = server.snapshot.sums[s]
  BY DashboardAssumption DEF DashboardInv, ServerInv, Servers, Snapshots, Matches
<1>2. Apart(server.snapshot.since[s], server.snapshot.sums[s], server.snapshot.moment[s],
            server.snapshot.data[s], contents[s], changes[s])
  BY DEF DashboardInv, ServerInv, Complete, Seen
<1> QED
  BY <1>1, <1>2 DEF Apart, Differ, OneMoment

LEMMA ServerValidatesInv ==
  ASSUME DashboardInv, ServerValidates
  PROVE  DashboardInv'
<1>1. /\ server \in Servers /\ server.place = "validate"
      /\ server.next \in 1 .. Len(HashOrder)
      /\ Complete(server.snapshot, contents, changes)
      /\ \A i \in 1 .. (server.next - 1) :
           HashOrder[i] \in Read => OneMoment(server.snapshot, HashOrder[i], changes)
  BY DEF DashboardInv, ServerInv, ServerValidates
<1>2. CASE ~Matches(server.snapshot, HashOrder[server.next])
  BY <1>2, DownInv, ServerOnly DEF ServerValidates
<1>3. CASE Matches(server.snapshot, HashOrder[server.next]) /\ server.next < Len(HashOrder)
  <2>1. PICK v : v = [server EXCEPT !.next = @ + 1]
    OBVIOUS
  <2>2. /\ v \in Servers /\ v.place = "validate" /\ v.next = server.next + 1
        /\ v.snapshot = server.snapshot
    BY <1>1, <2>1 DEF Servers
  <2>3. HashOrder[server.next] \in Read
          => OneMoment(server.snapshot, HashOrder[server.next], changes)
    BY <1>1, <1>3, MatchedOneMoment
  <2>4. \A i \in 1 .. (v.next - 1) :
          HashOrder[i] \in Read => OneMoment(server.snapshot, HashOrder[i], changes)
    <3>1. ASSUME NEW i \in 1 .. (v.next - 1)
          PROVE  i \in 1 .. (server.next - 1) \/ i = server.next
      BY <1>1, <2>2
    <3> QED
      BY <1>1, <2>3, <3>1
  <2>5. v.next \in 1 .. Len(HashOrder)
    BY <1>1, <1>3, <2>2, Lengths
  <2>6. ServerInv(v, contents, changes)
    BY <1>1, <2>2, <2>4, <2>5 DEF ServerInv
  <2> QED
    BY <1>3, <2>1, <2>6, ServerOnly DEF ServerValidates
<1>4. CASE Matches(server.snapshot, HashOrder[server.next]) /\ ~(server.next < Len(HashOrder))
  <2>1. PICK v : v = [server EXCEPT !.place = "serving"]
    OBVIOUS
  <2>2. v \in Servers /\ v.place = "serving" /\ v.snapshot = server.snapshot
    BY <1>1, <2>1 DEF Servers
  <2>3. ServerInv(v, contents, changes)
    BY <1>1, <2>2 DEF ServerInv
  <2> QED
    BY <1>4, <2>1, <2>3, ServerOnly DEF ServerValidates
<1> QED
  BY <1>2, <1>3, <1>4

LEMMA ServerStopsInv ==
  ASSUME DashboardInv, ServerStops
  PROVE  DashboardInv'
BY DownInv, ServerOnly DEF ServerStops

LEMMA HashesInv ==
  ASSUME DashboardInv, BuilderHashes
  PROVE  DashboardInv'
<1>1. /\ builder \in Builders /\ builder.snapshot \in Snapshots
      /\ Hashing(builder, contents, changes)
      /\ contents \in [Sources -> Nat] /\ changes \in [Sources -> Nat]
  BY DEF DashboardInv, BuilderInv, Builders, BuilderHashes
<1>2. builder.next \in 1 .. Len(HashOrder) /\ builder.next \in Nat
  BY <1>1 DEF Hashing, Builders
<1>3. PICK s \in Sources : s = HashOrder[builder.next]
  BY <1>2 DEF Sources
<1>4. PICK since, moment, place, next :
        /\ builder' = [builder EXCEPT !.snapshot.sums[s] = contents[s],
                         !.snapshot.since = since, !.snapshot.moment = moment,
                         !.place = place, !.next = next]
        /\ since = IF builder.next = 1 THEN changes ELSE builder.snapshot.since
        /\ moment = IF builder.next = Len(HashOrder) THEN contents ELSE builder.snapshot.moment
        /\ place = IF builder.next = Len(HashOrder) THEN "read" ELSE "hash"
        /\ next = IF builder.next = Len(HashOrder) THEN 1 ELSE builder.next + 1
  BY <1>3, AfterFacts DEF BuilderHashes
<1>5. since \in [Sources -> Nat] /\ moment \in [Sources -> Nat]
  BY <1>1, <1>4 DEF Snapshots
<1>6. place \in Places /\ next \in Nat
  BY <1>2, <1>4, Lengths DEF Places
<1>7. PICK sums : sums = [builder.snapshot.sums EXCEPT ![s] = contents[s]]
  OBVIOUS
<1>8. sums \in [Sources -> Nat]
  BY <1>1, <1>7 DEF Snapshots
<1>9. /\ builder' \in Builders /\ builder'.snapshot \in Snapshots
      /\ builder'.place = place /\ builder'.next = next
      /\ builder'.snapshot.sums = sums /\ builder'.snapshot.since = since
      /\ builder'.snapshot.moment = moment
  <2>1. PICK s1 : s1 = [builder.snapshot EXCEPT !.sums = sums]
    OBVIOUS
  <2>2. s1 \in Snapshots /\ s1.sums = sums
    BY <1>1, <1>8, <2>1 DEF Snapshots
  <2>3. PICK s2 : s2 = [s1 EXCEPT !.since = since]
    OBVIOUS
  <2>4. s2 \in Snapshots /\ s2.sums = sums /\ s2.since = since
    BY <1>5, <2>2, <2>3 DEF Snapshots
  <2>5. PICK s3 : s3 = [s2 EXCEPT !.moment = moment]
    OBVIOUS
  <2>6. s3 \in Snapshots /\ s3.sums = sums /\ s3.since = since /\ s3.moment = moment
    BY <1>5, <2>4, <2>5 DEF Snapshots
  <2>7. builder' = [builder EXCEPT !.snapshot = s3, !.place = place, !.next = next]
    BY <1>1, <1>4, <1>7, <2>1, <2>3, <2>5 DEF Builders, Snapshots
  <2>8. builder' \in Builders /\ builder'.place = place /\ builder'.next = next
    BY <1>1, <1>6, <2>6, <2>7 DEF Builders
  <2>9. builder'.snapshot = s3
    BY <1>1, <2>7 DEF Builders
  <2> QED
    BY <2>6, <2>8, <2>9
<1>10. ASSUME NEW t \in Sources
       PROVE  since[t] <= changes[t] /\ since[t] \in Nat /\ changes[t] \in Nat
  <2>1. changes[t] \in Nat /\ since[t] \in Nat
    BY <1>1, <1>5
  <2>2. builder.next > 1 => builder.snapshot.since[t] <= changes[t]
    BY <1>1 DEF Hashing
  <2> QED
    BY <1>2, <1>4, <2>1, <2>2
<1>11. ASSUME NEW i \in 1 .. builder.next
       PROVE  /\ HashOrder[i] \in Sources
              /\ since[HashOrder[i]] + Differ(sums[HashOrder[i]], contents[HashOrder[i]])
                   <= changes[HashOrder[i]]
  <2>1. i \in 1 .. Len(HashOrder)
    BY <1>2, Lengths
  <2>2. PICK t \in Sources : t = HashOrder[i]
    BY <2>1 DEF Sources
  <2>3. CASE t = s
    <3>1. sums[t] = contents[t]
      BY <1>1, <1>7, <2>3 DEF Snapshots
    <3> QED
      BY <1>10, <2>2, <3>1, DifferFacts
  <2>4. CASE t # s
    <3>1. i \in 1 .. (builder.next - 1) /\ builder.next > 1
      BY <1>2, <1>3, <2>2, <2>4
    <3>2. since = builder.snapshot.since
      BY <1>4, <3>1
    <3>3. sums[t] = builder.snapshot.sums[t]
      BY <1>1, <1>7, <2>4 DEF Snapshots
    <3>4. builder.snapshot.since[t] + Differ(builder.snapshot.sums[t], contents[t])
            <= changes[t]
      BY <1>1, <2>2, <3>1 DEF Hashing
    <3> QED
      BY <2>2, <3>2, <3>3, <3>4
  <2> QED
    BY <2>3, <2>4
<1>12. CASE builder.next = Len(HashOrder)
  <2>1. builder'.place = "read" /\ builder'.next = 1 /\ moment = contents
    BY <1>4, <1>9, <1>12
  <2>2. ASSUME NEW t \in Sources
        PROVE  Seen(builder'.snapshot, t, contents[t], contents[t], changes[t])
    <3>1. PICK i \in 1 .. builder.next : HashOrder[i] = t
      BY <1>12 DEF Sources
    <3>2. since[t] + Differ(sums[t], contents[t]) <= changes[t]
      BY <1>11, <3>1
    <3>3. Apart(since[t], sums[t], contents[t], contents[t], contents[t], changes[t])
      BY <1>10, <3>2, DifferFacts DEF Apart
    <3> QED
      BY <1>9, <2>1, <3>3 DEF Seen
  <2>3. Reading(builder', contents, changes)
    BY <2>1, <2>2, Lengths DEF Reading
  <2>4. BuilderInv(builder', contents, changes)
    BY <1>9, <2>1, <2>3 DEF BuilderInv
  <2> QED
    BY <2>4, BuilderOnly DEF BuilderHashes
<1>13. CASE builder.next # Len(HashOrder)
  <2>1. builder'.place = "hash" /\ builder'.next = builder.next + 1
    BY <1>4, <1>9, <1>13
  <2>2. builder'.next \in 1 .. Len(HashOrder) /\ builder'.next - 1 = builder.next
    BY <1>2, <1>13, <2>1, Lengths
  <2>3. \A t \in Sources : builder'.snapshot.since[t] <= changes[t]
    BY <1>9, <1>10
  <2>4. \A i \in 1 .. (builder'.next - 1) :
          builder'.snapshot.since[HashOrder[i]]
            + Differ(builder'.snapshot.sums[HashOrder[i]], contents[HashOrder[i]])
              <= changes[HashOrder[i]]
    BY <1>9, <1>11, <2>2
  <2>5. Hashing(builder', contents, changes)
    BY <2>2, <2>3, <2>4 DEF Hashing
  <2>6. BuilderInv(builder', contents, changes)
    BY <1>9, <2>1, <2>5 DEF BuilderInv
  <2> QED
    BY <2>6, BuilderOnly DEF BuilderHashes
<1> QED
  BY <1>12, <1>13

LEMMA ReadsInv ==
  ASSUME DashboardInv, BuilderReads
  PROVE  DashboardInv'
<1>1. /\ builder \in Builders /\ builder.snapshot \in Snapshots
      /\ Reading(builder, contents, changes)
      /\ contents \in [Sources -> Nat] /\ changes \in [Sources -> Nat]
  BY DEF DashboardInv, BuilderInv, Builders, BuilderReads
<1>2. builder.next \in 1 .. Len(ReadOrder) /\ builder.next \in Nat
  BY <1>1 DEF Reading, Builders
<1>3. PICK s \in Read : s = ReadOrder[builder.next]
  BY <1>2 DEF Read
<1>4. PICK place, next :
        /\ builder' = [builder EXCEPT !.snapshot.data[s] = contents[s],
                         !.place = place, !.next = next]
        /\ place = IF builder.next = Len(ReadOrder) THEN "truncate" ELSE "read"
        /\ next = IF builder.next = Len(ReadOrder) THEN 1 ELSE builder.next + 1
  BY <1>3, AfterFacts DEF BuilderReads
<1>5. place \in Places /\ next \in Nat
  BY <1>2, <1>4, Lengths DEF Places
<1>6. PICK data : data = [builder.snapshot.data EXCEPT ![s] = contents[s]]
  OBVIOUS
<1>7. data \in [Read -> Nat]
  BY <1>1, <1>3, <1>6, DashboardAssumption DEF Snapshots
<1>8. /\ builder' \in Builders /\ builder'.place = place /\ builder'.next = next
      /\ builder'.snapshot.data = data
      /\ builder'.snapshot.sums = builder.snapshot.sums
      /\ builder'.snapshot.since = builder.snapshot.since
      /\ builder'.snapshot.moment = builder.snapshot.moment
  <2>1. PICK gathered : gathered = [builder.snapshot EXCEPT !.data = data]
    OBVIOUS
  <2>2. /\ gathered \in Snapshots /\ gathered.data = data
        /\ gathered.sums = builder.snapshot.sums /\ gathered.since = builder.snapshot.since
        /\ gathered.moment = builder.snapshot.moment
    BY <1>1, <1>7, <2>1 DEF Snapshots
  <2>3. builder' = [builder EXCEPT !.snapshot = gathered, !.place = place, !.next = next]
    BY <1>1, <1>4, <1>6, <2>1 DEF Builders, Snapshots
  <2>4. builder' \in Builders /\ builder'.place = place /\ builder'.next = next
    BY <1>1, <1>5, <2>2, <2>3 DEF Builders
  <2>5. builder'.snapshot = gathered
    BY <1>1, <2>3 DEF Builders
  <2> QED
    BY <2>2, <2>4, <2>5
<1>9. ASSUME NEW t, NEW value
      PROVE  Seen(builder'.snapshot, t, value, contents[t], changes[t])
               <=> Seen(builder.snapshot, t, value, contents[t], changes[t])
  BY <1>8 DEF Seen
<1>10. \A t \in Sources : Seen(builder'.snapshot, t, contents[t], contents[t], changes[t])
  BY <1>1, <1>9 DEF Reading
<1>11. ASSUME NEW i \in 1 .. builder.next
       PROVE  Seen(builder'.snapshot, ReadOrder[i], builder'.snapshot.data[ReadOrder[i]],
                   contents[ReadOrder[i]], changes[ReadOrder[i]])
  <2>1. i \in 1 .. Len(ReadOrder)
    BY <1>2, Lengths
  <2>2. PICK t \in Read : t = ReadOrder[i]
    BY <2>1 DEF Read
  <2>3. CASE t = s
    <3>1. data[t] = contents[t] /\ t \in Sources
      BY <1>1, <1>6, <2>3, DashboardAssumption DEF Snapshots
    <3> QED
      BY <1>8, <1>10, <2>2, <3>1
  <2>4. CASE t # s
    <3>1. i \in 1 .. (builder.next - 1)
      BY <1>2, <1>3, <2>2, <2>4
    <3>2. data[t] = builder.snapshot.data[t]
      BY <1>1, <1>6, <2>4 DEF Snapshots
    <3>3. Seen(builder.snapshot, t, builder.snapshot.data[t], contents[t], changes[t])
      BY <1>1, <2>2, <3>1 DEF Reading
    <3> QED
      BY <1>8, <1>9, <2>2, <3>2, <3>3
  <2> QED
    BY <2>3, <2>4
<1>12. CASE builder.next = Len(ReadOrder)
  <2>1. builder'.place = "truncate"
    BY <1>4, <1>8, <1>12
  <2>2. ASSUME NEW t \in Read
        PROVE  Seen(builder'.snapshot, t, builder'.snapshot.data[t], contents[t], changes[t])
    <3>1. PICK i \in 1 .. builder.next : ReadOrder[i] = t
      BY <1>12 DEF Read
    <3> QED
      BY <1>11, <3>1
  <2>3. Complete(builder'.snapshot, contents, changes)
    BY <2>2 DEF Complete
  <2>4. BuilderInv(builder', contents, changes)
    BY <1>8, <2>1, <2>3 DEF BuilderInv
  <2> QED
    BY <2>4, BuilderOnly DEF BuilderReads
<1>13. CASE builder.next # Len(ReadOrder)
  <2>1. builder'.place = "read" /\ builder'.next = builder.next + 1
    BY <1>4, <1>8, <1>13
  <2>2. builder'.next \in 1 .. Len(ReadOrder) /\ builder'.next - 1 = builder.next
    BY <1>2, <1>13, <2>1, Lengths
  <2>3. Reading(builder', contents, changes)
    BY <1>10, <1>11, <2>2 DEF Reading
  <2>4. BuilderInv(builder', contents, changes)
    BY <1>8, <2>1, <2>3 DEF BuilderInv
  <2> QED
    BY <2>4, BuilderOnly DEF BuilderReads
<1> QED
  BY <1>12, <1>13

\* The invariant is the type of the state and what each of the three actors knows of
\* every artifact: it has changed at least as often as it was seen to differ.
THEOREM DashboardInvariant == DashboardSpec => []DashboardInv
<1>1. DashboardInit => DashboardInv
  BY NoBuildInv, DownInv DEF DashboardInit, DashboardInv, FileInv
<1>2. DashboardInv /\ [DashboardNext]_dashboardVars => DashboardInv'
  <2> SUFFICES ASSUME DashboardInv, [DashboardNext]_dashboardVars
               PROVE  DashboardInv'
    OBVIOUS
  <2>1. CASE UNCHANGED dashboardVars
    BY <2>1 DEF dashboardVars, DashboardInv
  <2>2. ASSUME NEW s \in Sources, Rewrite(s) PROVE DashboardInv'
    BY <2>2, RewriteInv
  <2>3. ASSUME NEW force \in BOOLEAN, BuilderStarts(force) PROVE DashboardInv'
    BY <2>3, StartsInv
  <2> QED
    BY <2>1, <2>2, <2>3, ChecksInv, HashesInv, ReadsInv, TruncatesInv, WritesInv, EndsInv,
       ServerStartsInv, ServerValidatesInv, ServerStopsInv DEF DashboardNext
<1> QED
  BY <1>1, <1>2, PTL DEF DashboardSpec

\* A server that goes into service presents what the artifacts contained at one moment,
\* but for an artifact that was changed at least twice since: ServedIsOfOneMoment, for
\* any artifacts, in any order, and any number of rewritings.
THEOREM ServedOfOneMoment == DashboardSpec => ServedIsOfOneMoment
<1>1. ASSUME DashboardInv, [DashboardNext]_dashboardVars,
             server.place = "validate", server'.place = "serving", NEW s \in Read
      PROVE  OneMoment(server.snapshot, s, changes)
  <2>1. ServerValidates
    <3>1. server' # server
      BY <1>1
    <3>2. server'.place # "down" /\ server.place # "down"
      BY <1>1
    <3>3. ~ServerStops
      BY <3>2 DEF ServerStops, Down
    <3>4. \/ \E t \in Sources : Rewrite(t)
          \/ \E force \in BOOLEAN : BuilderStarts(force)
          \/ BuilderChecks \/ BuilderHashes \/ BuilderReads \/ BuilderTruncates
          \/ BuilderWrites \/ BuilderEnds \/ UNCHANGED dashboardVars
          => server' = server
      BY DEF dashboardVars, Rewrite, BuilderStarts, BuilderChecks, BuilderHashes,
         BuilderReads, BuilderTruncates, BuilderWrites, BuilderEnds
    <3>5. ~ServerStarts
      BY <3>2 DEF ServerStarts
    <3> QED
      BY <1>1, <3>1, <3>3, <3>4, <3>5 DEF DashboardNext
  <2>2. /\ server \in Servers /\ server.next \in 1 .. Len(HashOrder)
        /\ \A i \in 1 .. (server.next - 1) :
             HashOrder[i] \in Read => OneMoment(server.snapshot, HashOrder[i], changes)
    BY <1>1 DEF DashboardInv, ServerInv
  <2>3. Matches(server.snapshot, HashOrder[server.next]) /\ server.next = Len(HashOrder)
    BY <1>1, <2>1, <2>2, Lengths DEF ServerValidates, Servers, Down
  <2>4. PICK i \in 1 .. Len(HashOrder) : HashOrder[i] = s
    BY DashboardAssumption DEF Sources
  <2>5. CASE i = server.next
    BY <1>1, <2>3, <2>4, <2>5, MatchedOneMoment
  <2>6. CASE i # server.next
    <3>1. i \in 1 .. (server.next - 1)
      BY <2>2, <2>3, <2>6, Lengths
    <3> QED
      BY <2>2, <2>4, <3>1
  <2> QED
    BY <2>5, <2>6
<1>2. DashboardInv /\ [DashboardNext]_dashboardVars
        => [server.place = "validate" /\ server'.place = "serving" =>
              \A s \in Read :
                \/ server.snapshot.data[s] = server.snapshot.moment[s]
                \/ changes[s] >= server.snapshot.since[s] + 2]_dashboardVars
  BY <1>1 DEF OneMoment
<1> QED
  BY <1>2, DashboardInvariant, PTL DEF DashboardSpec, ServedIsOfOneMoment

=============================================================================
