---------------------------- MODULE EvidenceStore ----------------------------
(***************************************************************************)
(* The offline programs of Modules 11 to 14A and the databases they share: *)
(* planning, training, evaluation of candidates and ledger, approvals,     *)
(* the replay of an approval, and the two programs that record live runs.  *)
(*                                                                         *)
(* One program runs at a time and may be stopped between any two of its    *)
(* steps.  What it changes in one SQLite transaction is one step.  Tables  *)
(* that only repeat what a modelled table holds (points, entries, debt     *)
(* records, fairness, transitions) are left out with their parents' rows.  *)
(***************************************************************************)
EXTENDS MicroTwin, FiniteSets, Sequences

CONSTANTS
  Approvals,         \* approval ids; each contains the time of its creation
  NoApproval,
  Movements(_, _, _),   \* bank movements of an evaluation: of weights, residuals
                        \* and a plan
  MaxPrograms        \* bound: programs started

ASSUME StoreAssumption ==
  /\ NoApproval \notin Approvals
  /\ \A t, u \in Trainings, p \in Plans : Movements(t, u, p) \in Nat
  /\ MaxPrograms \in Nat

VARIABLES
  planned,        \* candidate_plans of planning.db
  version,        \* PRAGMA user_version
  models,         \* microtwin_models
  rollouts,       \* microtwin_rollouts
  evaluations,    \* ledger_plan_evaluations
  transactions,   \* thermal_bank_transactions
  rankings,       \* ledger_rankings: the plans ranked
  approvals,      \* execution_approvals
  sessions,       \* execution_sessions
  bindings,       \* execution_context_bindings, by their approvals
  files,          \* approval artifacts of create_execution_approval
  package,        \* context_selection_report.json has been written
  exactFile,      \* the approval of exact_approval.json
  program,        \* the program that runs, and where it is
  started         \* programs started

twin == <<artifacts, settings>>

base == <<twin, planned>>

advisory == <<models, rollouts, evaluations, transactions, rankings>>

execution == <<approvals, sessions, bindings>>

disk == <<files, package, exactFile>>

storeVars == <<base, version, advisory, execution, disk, program, started>>

Idle == [name |-> "none", stage |-> "work", batch |-> {}, approval |-> NoApproval,
         training |-> NoTraining, written |-> 0]

Key(row) == <<row.model, row.plan>>

Keys(table) == {Key(row) : row \in table}

\* INSERT OR REPLACE, of rows that a key names.
OrReplace(table, rows) == {r \in table : Key(r) \notin Keys(rows)} \union rows

\* INSERT OR IGNORE.
OrIgnore(table, rows) == table \union {r \in rows : Key(r) \notin Keys(table)}

Runs(name, stage) == program.name = name /\ program.stage = stage

Starts == program = Idle /\ started < MaxPrograms

Begin(started_program) == program' = started_program /\ started' = started + 1

GoesOn(stage) == program' = [program EXCEPT !.stage = stage] /\ UNCHANGED started

Ends == program' = Idle /\ UNCHANGED started

-----------------------------------------------------------------------------
(* Schema migrations.                                                      *)

\* Mutant: every store stamps its own version.
Restamped(schema) == schema

\* The schema of executions stamps 10 whatever it finds, which nothing exceeds.
Stamped(schema) ==
  IF schema = 10 THEN schema ELSE IF version > schema THEN version ELSE schema

\* Every store migrates when it is opened, in a transaction of its own.
Migrate ==
  /\ program.stage = "migrate"
  /\ version' = Stamped(CASE program.name = "candidates" -> 7
                          [] program.name = "ledger" -> 8
                          [] OTHER -> 10)
  /\ GoesOn("persist")
  /\ UNCHANGED <<base, advisory, execution, disk>>

-----------------------------------------------------------------------------
(* Planning.                                                               *)

\* What validation says of the plans under the present settings.
Generated == {[plan |-> p, eligible |-> p \in Eligible(settings)] : p \in Plans}

\* INSERT OR IGNORE: a plan on record keeps its first verdict.
PersistPlans(generated) ==
  planned' = planned \union
    {g \in generated : \A k \in planned : k.plan # g.plan}

\* planning_common.build, with which most of the programs begin.
Build == PersistPlans(Generated)

\* A program that does no more, or that raises afterwards.
PlansOnly ==
  /\ program = Idle
  /\ Build
  /\ UNCHANGED <<twin, version, advisory, execution, disk, program, started>>

-----------------------------------------------------------------------------
(* Training.                                                               *)

StartTraining(training) ==
  /\ Starts
  /\ Build
  /\ Eligible(settings) # {}
  /\ Begin([Idle EXCEPT !.name = "train", !.training = training])
  /\ UNCHANGED <<twin, version, advisory, execution, disk>>

Train ==
  /\ Runs("train", "work")
  /\ WriteArtifact(program.training, program.written + 1)
  /\ IF program.written + 1 < Len(ArtifactOrder)
       THEN program' = [program EXCEPT !.written = @ + 1] /\ UNCHANGED started
       ELSE Ends
  /\ UNCHANGED <<settings, planned, version, advisory, execution, disk>>

-----------------------------------------------------------------------------
(* Candidates and ledger.                                                  *)

\* Without a rollout fit for ranking there is no ranked[0].
EvaluateCandidates ==
  /\ Starts
  /\ Build
  /\ Rollable
  /\ \E r \in Rollouts : ~NotQualifiedForRanking(r)
  /\ Begin([Idle EXCEPT !.name = "candidates", !.stage = "migrate", !.batch = Rollouts])
  /\ UNCHANGED <<twin, version, advisory, execution, disk>>

PersistCandidates ==
  /\ Runs("candidates", "persist")
  /\ models' = models \union {r.model : r \in program.batch}
  /\ rollouts' = OrReplace(rollouts, program.batch)
  /\ Ends
  /\ UNCHANGED <<base, version, evaluations, transactions, rankings, execution, disk>>

\* The evaluation id is made of the rollout id and the openings, which are zero.
Evaluation(r) ==
  [model |-> r.model, plan |-> r.plan, weights |-> r.weights, residuals |-> r.residuals,
   eligible |-> ~NotQualifiedForRanking(r)]

\* evaluate_candidates.
Evaluations == {Evaluation(r) : r \in Rollouts}

\* rank_evaluations: the plans of the eligible evaluations.
Ranking(evaluated) == {e.plan : e \in {f \in evaluated : f.eligible}}

\* resolve_execution_binding evaluates all over again, and accepts an eligible
\* plan whose evaluation is eligible.
Bound(p) == Rollable /\ p \in Ranking(Evaluations)

\* Evaluates rollouts of its own; without an eligible plan the ranking raises.
EvaluateLedger ==
  /\ Starts
  /\ Build
  /\ Rollable
  /\ Ranking(Evaluations) # {}
  /\ Begin([Idle EXCEPT !.name = "ledger", !.stage = "migrate", !.batch = Evaluations])
  /\ UNCHANGED <<twin, version, advisory, execution, disk>>

\* Foreign keys: an entry of an evaluation needs the row of its rollout.
HasRollout(e) == Key(e) \in Keys(rollouts)

\* Mutant: what has been inserted before an exception is not rolled back.
KeptBeforeException(batch) ==
  {e \in batch : \A f \in batch : f.plan <= e.plan => HasRollout(f)}

\* The transaction is rolled back when a row is refused.
Kept(batch) == IF \A e \in batch : HasRollout(e) THEN batch ELSE {}

Moves(batch) ==
  {m \in batch \X (1 .. 5) : m[2] <= Movements(m[1].weights, m[1].residuals, m[1].plan)}

Position(m, moves) ==
  Cardinality({n \in moves : \/ n[1].plan < m[1].plan
                             \/ n[1].plan = m[1].plan /\ n[2] <= m[2]})

\* The bank transactions of a batch, counted from 1 whatever the account holds.
Numbered(batch) ==
  {[model |-> m[1].model, plan |-> m[1].plan, movement |-> m[2],
    sequence |-> Position(m, Moves(batch))] : m \in Moves(batch)}

\* A known id or a sequence that is taken is ignored.
NewTransactions(rows) ==
  {t \in rows : \A u \in transactions :
     u.sequence # t.sequence /\ <<Key(u), u.movement>> # <<Key(t), t.movement>>}

PersistLedger ==
  /\ Runs("ledger", "persist")
  /\ LET kept == Kept(program.batch)
     IN  /\ evaluations' = OrIgnore(evaluations, kept)
         /\ transactions' = transactions \union NewTransactions(Numbered(kept))
         /\ rankings' = IF kept = program.batch
                          THEN rankings \union {Ranking(kept)}
                          ELSE rankings
  /\ Ends
  /\ UNCHANGED <<base, version, models, rollouts, execution, disk>>

-----------------------------------------------------------------------------
(* Approvals and executions.                                               *)

FileOf(approval) == {f \in files : f.approval = approval}

\* Nothing names the approval: its id is made of the time.
Fresh(approval) ==
  /\ FileOf(approval) = {}
  /\ approval # exactFile
  /\ \A a \in approvals : a.approval # approval

\* The artifact is written before its row.
CreateApproval(approval, p) ==
  /\ Starts
  /\ Build
  /\ Fresh(approval)
  /\ Bound(p)
  /\ files' = files \union {[approval |-> approval, rollout |-> Rollout(p)]}
  /\ Begin([Idle EXCEPT !.name = "approve", !.stage = "migrate", !.approval = approval])
  /\ UNCHANGED <<twin, version, advisory, execution, package, exactFile>>

\* The package of Module 14A has a context and plans of its own, which it does not
\* persist; it needs an eligible evaluation of them.
BuildPackage ==
  /\ program = Idle
  /\ Rollable
  /\ Ranking(Evaluations) # {}
  /\ package' = TRUE
  /\ UNCHANGED <<base, version, advisory, execution, files, exactFile, program, started>>

\* The artifact replaces the one before it.
CreateExactApproval(approval) ==
  /\ Starts
  /\ package
  /\ Fresh(approval)
  /\ exactFile' = approval
  /\ Begin([Idle EXCEPT !.name = "approve", !.stage = "migrate", !.approval = approval])
  /\ UNCHANGED <<base, version, advisory, execution, files, package>>

PersistApproval ==
  /\ Runs("approve", "persist")
  /\ approvals' = approvals \union {[approval |-> program.approval, consumer |-> "none"]}
  /\ Ends
  /\ UNCHANGED <<base, version, advisory, sessions, bindings, disk>>

\* An approval that has not expired and whose rollout is what is predicted now;
\* the report is written to a file, then to the database.
ReplayDryRun(approval) ==
  /\ Starts
  /\ Build
  /\ \E f \in FileOf(approval) : Bound(f.rollout.plan) /\ f.rollout = Rollout(f.rollout.plan)
  /\ Begin([Idle EXCEPT !.name = "replay", !.stage = "migrate", !.approval = approval])
  /\ UNCHANGED <<twin, version, advisory, execution, disk>>

\* Mutant: foreign keys are off, as they are in SQLite by default.
Unchecked(approval) == TRUE

\* Foreign keys: a session or a binding needs the row of its approval.
Recorded(approval) == \E a \in approvals : a.approval = approval

\* status is CONSUMED, and consumed_session_id names the consumer.
Consumed(approval, consumer) ==
  {IF a.approval = approval THEN [a EXCEPT !.consumer = consumer] ELSE a : a \in approvals}

PersistReport ==
  /\ Runs("replay", "persist")
  /\ IF Recorded(program.approval)
       THEN /\ sessions' = sessions \union
                 {[session |-> "replay", approval |-> program.approval]}
            /\ approvals' = Consumed(program.approval, "replay")
       ELSE UNCHANGED <<sessions, approvals>>
  /\ Ends
  /\ UNCHANGED <<base, version, advisory, bindings, disk>>

\* assess_module14a_results: the results of three runs are assessed under the
\* approval that is in the file now, whichever they were run with.
StartAssessment ==
  /\ Starts
  /\ exactFile # NoApproval
  /\ Begin([Idle EXCEPT !.name = "assess", !.stage = "migrate", !.approval = exactFile])
  /\ UNCHANGED <<base, version, advisory, execution, disk>>

\* compare_execution_runs, of a shadow and a live run, each with its approval.
StartComparison(shadow, live) ==
  /\ Starts
  /\ Build
  /\ FileOf(shadow) # {} /\ FileOf(live) # {} /\ shadow # live
  /\ Begin([Idle EXCEPT !.name = "compare", !.stage = "migrate",
               !.batch = {[session |-> "shadow", approval |-> shadow],
                          [session |-> "live", approval |-> live]}])
  /\ UNCHANGED <<twin, version, advisory, execution, disk>>

\* The session ids of compared runs are fixed, and their rows replaced.
PersistComparison ==
  /\ Runs("compare", "persist")
  /\ IF \A s \in program.batch : Recorded(s.approval)
       THEN /\ sessions' = {s \in sessions : s.session = "replay"} \union program.batch
            /\ approvals' = {[approval |-> a.approval,
                              consumer |-> IF \E s \in program.batch : s.approval = a.approval
                                             THEN "compared" ELSE a.consumer] : a \in approvals}
       ELSE UNCHANGED <<sessions, approvals>>
  /\ Ends
  /\ UNCHANGED <<base, version, advisory, bindings, disk>>

PersistAssessment ==
  /\ Runs("assess", "persist")
  /\ IF Recorded(program.approval)
       THEN /\ bindings' = bindings \union {program.approval}
            /\ approvals' = Consumed(program.approval, "assessed")
       ELSE UNCHANGED <<bindings, approvals>>
  /\ Ends
  /\ UNCHANGED <<base, version, advisory, sessions, disk>>

-----------------------------------------------------------------------------

\* A program is stopped, or an exception ends it, before its next step.
Interrupt ==
  /\ program # Idle
  /\ Ends
  /\ UNCHANGED <<base, version, advisory, execution, disk>>

Reconfigured ==
  /\ program = Idle
  /\ Reconfigure
  /\ UNCHANGED <<planned, version, advisory, execution, disk, program, started>>

StoreInit ==
  /\ MicroTwinInit
  /\ planned = {}
  /\ version = 0
  /\ models = {} /\ rollouts = {} /\ evaluations = {} /\ transactions = {} /\ rankings = {}
  /\ approvals = {} /\ sessions = {} /\ bindings = {} /\ files = {}
  /\ package = FALSE /\ exactFile = NoApproval
  /\ program = Idle
  /\ started = 0

StoreNext ==
  \/ PlansOnly
  \/ \E t \in Trainings : StartTraining(t)
  \/ Train
  \/ EvaluateCandidates
  \/ PersistCandidates
  \/ EvaluateLedger
  \/ PersistLedger
  \/ \E a \in Approvals, p \in Plans : CreateApproval(a, p)
  \/ BuildPackage
  \/ \E a \in Approvals : CreateExactApproval(a)
  \/ PersistApproval
  \/ \E a \in Approvals : ReplayDryRun(a)
  \/ PersistReport
  \/ StartAssessment
  \/ \E shadow, live \in Approvals : StartComparison(shadow, live)
  \/ PersistComparison
  \/ PersistAssessment
  \/ Migrate
  \/ Interrupt
  \/ Reconfigured

StoreSpec == StoreInit /\ [][StoreNext]_storeVars

-----------------------------------------------------------------------------

\* Evidence never names evidence that is not there: an evaluation has its
\* rollout, a rollout its model and its plan, the artifact of an approval its plan, a bank
\* transaction its evaluation, and an eligible evaluation a ranking that lists its
\* plan, whichever program was stopped or refused half-way (planning_store.py,
\* microtwin_store.py, ledger_store.py).
EvidenceIsLinked ==
  /\ \A e \in evaluations : HasRollout(e)
  /\ {r.model : r \in rollouts} \subseteq models
  /\ {r.plan : r \in rollouts \union {f.rollout : f \in files}} \subseteq
       {k.plan : k \in planned}
  /\ Keys(transactions) \subseteq Keys(evaluations)
  /\ \A e \in evaluations : e.eligible => \E r \in rankings : e.plan \in r

\* Stores are additive: no program removes what another has recorded, changes an
\* evaluation, lowers the version of the schema that a later module has stamped,
\* or makes a consumed approval active again (docs/STATE_BUS_AND_STORAGE.md).
EvidenceIsAdditive ==
  [][/\ version <= version' /\ planned \subseteq planned'
     /\ models \subseteq models' /\ Keys(rollouts) \subseteq Keys(rollouts')
     /\ evaluations \subseteq evaluations' /\ transactions \subseteq transactions'
     /\ rankings \subseteq rankings' /\ bindings \subseteq bindings'
     /\ {s.session : s \in sessions} \subseteq {s.session : s \in sessions'}
     /\ \A a \in approvals : \E b \in approvals' :
          b.approval = a.approval /\ (a.consumer # "none" => b.consumer # "none")]_storeVars

\* What has been executed or assessed was approved: every session and binding is
\* of an approval with a row, and that approval is consumed, also when the
\* program that created it was stopped between its artifact and its row.
SessionsAreApproved ==
  \A approval \in {s.approval : s \in sessions} \union bindings :
    \E a \in approvals : a.approval = approval /\ a.consumer # "none"

=============================================================================
