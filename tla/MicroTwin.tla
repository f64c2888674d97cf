------------------------------ MODULE MicroTwin ------------------------------
(***************************************************************************)
(* The thermal model of Module 12 as the files its training leaves, and    *)
(* the rollouts of candidate plans that are predicted from them.           *)
(*                                                                         *)
(* What a training learns is a member of Trainings: it is named by the     *)
(* semantic fingerprint of its result, which is the model's id.  A file is *)
(* the training that wrote it.                                             *)
(***************************************************************************)
EXTENDS Naturals

CONSTANTS
  Trainings,       \* results of a training
  NoTraining,      \* a file that has not been written
  Qualified,       \* trainings whose model is better than persistence
  Plans,           \* candidate plans, as their places in the advisory ranking
  Horizon,         \* timesteps of a context
  Settings,        \* versions of what the planning engine reads
  Eligible(_),     \* the eligible plans of a version
  OodSteps(_, _, _)   \* timesteps with a feature out of range: of weights, of a
                      \* feature schema and of a plan

ASSUME MicroTwinAssumption ==
  /\ NoTraining \notin Trainings
  /\ Qualified \subseteq Trainings
  /\ Plans \subseteq Nat
  /\ Horizon \in Nat \ {0}
  /\ \A s \in Settings : Eligible(s) \subseteq Plans
  /\ \A t, s \in Trainings, p \in Plans : OodSteps(t, s, p) \in 0 .. Horizon

VARIABLES
  artifacts,       \* the files of the model directory
  settings         \* what the planning engine reads

\* The files a rollout reads, in the order in which train_artifacts writes them.
ArtifactOrder ==
  <<"thermal_model", "thermal_feature_schema", "thermal_validation_report", "model_manifest">>

Artifacts == {ArtifactOrder[i] : i \in 1 .. 4}

MicroTwinInit ==
  /\ artifacts = [a \in Artifacts |-> NoTraining]
  /\ settings \in Settings

WriteArtifact(training, i) ==
  artifacts' = [artifacts EXCEPT ![ArtifactOrder[i]] = training]

\* An edit of config/planning.yaml, or another recording under the same run id:
\* the context id is a checksum of neither.
Reconfigure ==
  /\ settings' \in Settings \ {settings}
  /\ UNCHANGED artifacts

\* Rollouts can be predicted from what is in the directory.
Rollable ==
  /\ \A a \in Artifacts : artifacts[a] # NoTraining
  /\ artifacts["model_manifest"] \in Qualified

\* The rollout id is made of the model id, the plan and the context; what has
\* been predicted comes from the weights, what is out of range from the weights
\* and the schema, and the bounds from the residuals of the validation report.
Rollout(p) ==
  [model     |-> artifacts["model_manifest"],
   plan      |-> p,
   weights   |-> artifacts["thermal_model"],
   schema    |-> artifacts["thermal_feature_schema"],
   residuals |-> artifacts["thermal_validation_report"]]

Rollouts == {Rollout(p) : p \in Eligible(settings)}

\* Every other qualification_status is fit for ranking.
NotQualifiedForRanking(r) ==
  LET steps == OodSteps(r.weights, r.schema, r.plan)
  IN  steps > 0 /\ steps >= Horizon \div 2

=============================================================================
