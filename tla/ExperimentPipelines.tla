------------------------- MODULE ExperimentPipelines ------------------------
(***************************************************************************)
(* The scripts that generate corpora, train, calibrate and develop.  Each  *)
(* works in an output directory of its own and reads nothing of the        *)
(* others, so a behaviour is of one of them, named by part: the other      *)
(* components' variables are then unused.  Variables of several components *)
(* that have the same name are one here.                                   *)
(*                                                                         *)
(* One corpus pilot, one W10 launch of a shard and one calibration of a    *)
(* cell run at a time; pointer shards, one-shot corpora and the wrappers   *)
(* of Protocol R may overlap.                                              *)
(***************************************************************************)
EXTENDS Naturals, Sequences

CONSTANTS Parts,            \* the components explored
          MaxVersion, MaxEdits, MaxOverlap,  \* bounds shared by components
          Launches,         \* the processes started, at most once each
          Chains, CellNames, Operators,      \* ProtocolRPipeline
          CellOrder, MaxRuns, MaxMerges,     \* CalibrationRecovery
          Budgets, MaxLaunches, MaxSelections, LabelOperators,
          RepairOutcomes,                    \* BaselineDevelopment
          Shards, Families, familyOf, Corpora, Examples, Infinite,
          Histories, MaxEpochs, Patience, MaxRegenerations,  \* TrainingMatrix
          Units, ChallengeInstances, Variants, MaxAttempts,  \* ChallengeGeneration
          Records, SolverOutcomes, Overlapping,              \* CorpusGeneration
          PaperInstances, PaperSources, Designed, Manifests  \* PaperBenchmark

VARIABLES
    part,  \* which of the components this behaviour is of
    version, chain, shards, gates, writers,  \* ProtocolR
    sources, runs, traces, meta, recovering, record, merging, merge,
    calibration, gate, results,  \* Calibration
    selection, launched, chosen, trace,  \* Baseline
    outcome, data, regenerations, shardOf, run, directory, checkpoint, result,  \* Training
    attempt, eligible, phase, base, length,  \* Challenge
    loadedSource, root, instanceFile, planFile, manifest, accepted,  \* Corpus
    edits, path, shard, report,  \* Paper
    frozen, worker, loaded, corpus, developed, labels, pc, file, rows, summary,
    source, made

ProtocolR == INSTANCE ProtocolRPipeline WITH Cells <- CellNames
Calibration == INSTANCE CalibrationRecovery WITH MaxLive <- 1
Baseline == INSTANCE BaselineDevelopment WITH
  Cells <- CellNames, Operators <- LabelOperators, Outcomes <- RepairOutcomes
Training == INSTANCE TrainingMatrix WITH NonOverwriting <- FALSE, MaxLive <- 1
PointerTraining == INSTANCE TrainingMatrix WITH
  NonOverwriting <- TRUE, MaxLive <- MaxOverlap
Challenge == INSTANCE ChallengeGeneration WITH Instances <- ChallengeInstances
PilotCorpus == INSTANCE CorpusGeneration WITH
  Pilot <- TRUE, Outcomes <- SolverOutcomes, MaxLive <- 1
OneShotCorpus == INSTANCE CorpusGeneration WITH
  Pilot <- FALSE, Outcomes <- SolverOutcomes, MaxLive <- MaxOverlap
Paper == INSTANCE PaperBenchmark WITH
  Instances <- PaperInstances, Sources <- PaperSources

\* What the constants of each component are.
ASSUME CalibrationConstants == Calibration!OrderAssumption
ASSUME BaselineConstants == Baseline!BoundAssumption
ASSUME TrainingConstants == Training!MatrixAssumption
ASSUME ChallengeConstants == Challenge!ChallengeAssumption
ASSUME CorpusConstants == PilotCorpus!CorpusAssumption /\ OneShotCorpus!CorpusAssumption
ASSUME PaperConstants == Paper!BenchmarkAssumption

-----------------------------------------------------------------------------
(* The variables only one component has, and what the others make of them.     *)
protocolROwn == <<version, chain, shards, gates, writers>>
calibrationOwn == <<sources, runs, traces, meta, recovering, record, merging,
                    merge, calibration, gate, results>>
baselineOwn == <<selection, launched, chosen, trace>>
trainingOwn == <<outcome, data, regenerations, shardOf, run, directory,
                 checkpoint, result>>
challengeOwn == <<attempt, eligible, phase, base, length>>
corpusOwn == <<loadedSource, root, instanceFile, planFile, manifest, accepted>>
paperOwn == <<edits, path, shard, report>>

Unused == "unused"
ProtocolRAtRest ==
  /\ version = Unused /\ chain = Unused /\ shards = Unused /\ gates = Unused
  /\ writers = Unused
CalibrationAtRest ==
  /\ sources = Unused /\ runs = Unused /\ traces = Unused /\ meta = Unused
  /\ recovering = Unused /\ record = Unused /\ merging = Unused
  /\ merge = Unused /\ calibration = Unused /\ gate = Unused
  /\ results = Unused
BaselineAtRest ==
  /\ selection = Unused /\ launched = Unused /\ chosen = Unused
  /\ trace = Unused
TrainingAtRest ==
  /\ outcome = Unused /\ data = Unused /\ regenerations = Unused
  /\ shardOf = Unused /\ run = Unused /\ directory = Unused
  /\ checkpoint = Unused /\ result = Unused
ChallengeAtRest ==
  /\ attempt = Unused /\ eligible = Unused /\ phase = Unused /\ base = Unused
  /\ length = Unused
CorpusAtRest ==
  /\ loadedSource = Unused /\ root = Unused /\ instanceFile = Unused
  /\ planFile = Unused /\ manifest = Unused /\ accepted = Unused
PaperAtRest ==
  /\ edits = Unused /\ path = Unused /\ shard = Unused /\ report = Unused

PipelineInit ==
  /\ part \in Parts
  /\ \/ /\ part = "protocol_r" /\ ProtocolR!Init
        /\ CalibrationAtRest /\ BaselineAtRest /\ TrainingAtRest
        /\ ChallengeAtRest /\ CorpusAtRest /\ PaperAtRest /\ labels = Unused
        /\ pc = Unused /\ file = Unused /\ rows = Unused /\ summary = Unused
        /\ source = Unused /\ made = Unused
     \/ /\ part = "calibration" /\ Calibration!Init
        /\ ProtocolRAtRest /\ BaselineAtRest /\ TrainingAtRest
        /\ ChallengeAtRest /\ CorpusAtRest /\ PaperAtRest /\ frozen = Unused
        /\ loaded = Unused /\ corpus = Unused /\ pc = Unused /\ file = Unused
        /\ rows = Unused /\ summary = Unused /\ source = Unused
        /\ made = Unused
     \/ /\ part = "baseline" /\ Baseline!Init
        /\ ProtocolRAtRest /\ CalibrationAtRest /\ TrainingAtRest
        /\ ChallengeAtRest /\ CorpusAtRest /\ PaperAtRest /\ frozen = Unused
        /\ worker = Unused /\ loaded = Unused /\ developed = Unused
        /\ source = Unused /\ made = Unused
     \/ /\ \/ part = "training" /\ Training!Init
           \/ part = "pointer_training" /\ PointerTraining!Init
        /\ ProtocolRAtRest /\ CalibrationAtRest /\ BaselineAtRest
        /\ ChallengeAtRest /\ CorpusAtRest /\ PaperAtRest /\ frozen = Unused
        /\ worker = Unused /\ loaded = Unused /\ corpus = Unused
        /\ developed = Unused /\ labels = Unused /\ file = Unused
        /\ rows = Unused /\ source = Unused /\ made = Unused
     \/ /\ part = "challenge" /\ Challenge!Init
        /\ ProtocolRAtRest /\ CalibrationAtRest /\ BaselineAtRest
        /\ TrainingAtRest /\ CorpusAtRest /\ PaperAtRest /\ frozen = Unused
        /\ worker = Unused /\ loaded = Unused /\ corpus = Unused
        /\ developed = Unused /\ labels = Unused /\ pc = Unused
        /\ file = Unused /\ rows = Unused /\ summary = Unused
        /\ source = Unused /\ made = Unused
     \/ /\ \/ part = "pilot_corpus" /\ PilotCorpus!Init
           \/ part = "one_shot_corpus" /\ OneShotCorpus!Init
        /\ ProtocolRAtRest /\ CalibrationAtRest /\ BaselineAtRest
        /\ TrainingAtRest /\ ChallengeAtRest /\ PaperAtRest /\ frozen = Unused
        /\ worker = Unused /\ loaded = Unused /\ corpus = Unused
        /\ developed = Unused /\ labels = Unused /\ file = Unused
        /\ rows = Unused /\ summary = Unused
     \/ /\ part = "paper" /\ Paper!Init
        /\ ProtocolRAtRest /\ CalibrationAtRest /\ BaselineAtRest
        /\ TrainingAtRest /\ ChallengeAtRest /\ CorpusAtRest /\ worker = Unused
        /\ corpus = Unused /\ developed = Unused /\ labels = Unused
        /\ summary = Unused

PipelineNext ==
  \/ /\ part = "protocol_r" /\ ProtocolR!Next
     /\ UNCHANGED <<part, calibrationOwn, baselineOwn, trainingOwn,
                    challengeOwn, corpusOwn, paperOwn, labels, pc, file, rows,
                    summary, source, made>>
  \/ /\ part = "calibration" /\ Calibration!Next
     /\ UNCHANGED <<part, protocolROwn, baselineOwn, trainingOwn, challengeOwn,
                    corpusOwn, paperOwn, frozen, loaded, corpus, pc, file, rows,
                    summary, source, made>>
  \/ /\ part = "baseline" /\ Baseline!Next
     /\ UNCHANGED <<part, protocolROwn, calibrationOwn, trainingOwn,
                    challengeOwn, corpusOwn, paperOwn, frozen, worker, loaded,
                    developed, source, made>>
  \/ /\ \/ part = "training" /\ Training!Next
        \/ part = "pointer_training" /\ PointerTraining!Next
     /\ UNCHANGED <<part, protocolROwn, calibrationOwn, baselineOwn,
                    challengeOwn, corpusOwn, paperOwn, frozen, worker, loaded,
                    corpus, developed, labels, file, rows, source, made>>
  \/ /\ part = "challenge" /\ Challenge!Next
     /\ UNCHANGED <<part, protocolROwn, calibrationOwn, baselineOwn,
                    trainingOwn, corpusOwn, paperOwn, frozen, worker, loaded,
                    corpus, developed, labels, pc, file, rows, summary, source,
                    made>>
  \/ /\ \/ part = "pilot_corpus" /\ PilotCorpus!Next
        \/ part = "one_shot_corpus" /\ OneShotCorpus!Next
     /\ UNCHANGED <<part, protocolROwn, calibrationOwn, baselineOwn,
                    trainingOwn, challengeOwn, paperOwn, frozen, worker, loaded,
                    corpus, developed, labels, file, rows, summary>>
  \/ /\ part = "paper" /\ Paper!Next
     /\ UNCHANGED <<part, protocolROwn, calibrationOwn, baselineOwn,
                    trainingOwn, challengeOwn, corpusOwn, worker, corpus,
                    developed, labels, summary>>

everything == <<part, protocolROwn, calibrationOwn, baselineOwn, trainingOwn,
                challengeOwn, corpusOwn, paperOwn, frozen, worker, loaded,
                corpus, developed, labels, pc, file, rows, summary, source,
                made>>

PipelineSpec ==
  PipelineInit /\ [][PipelineNext]_everything

-----------------------------------------------------------------------------
(* The components' properties, of their own behaviours; the comment of each  *)
(* is in its module.                                                          *)

\* Of two submitted chains only one gets past the corpus.
OneChainPastCorpus == part = "protocol_r" => ProtocolR!OneChainPastCorpus

\* Development and its result rest on the gates and shards on disk.
FinalRestsOnGates == part = "protocol_r" => ProtocolR!FinalRestsOnGates

\* A merge takes the rows and the traces of a cell from one run.
MergeReadsOneRun == part = "calibration" => Calibration!MergeReadsOneRun

\* The development summary counts whole shards.
SummaryReadsWholeShards == part = "baseline" => Baseline!SummaryReadsWholeShards

\* The shards a summary reports on keep the checkpoints that were evaluated.
SummaryRestsOnCheckpoints ==
  /\ part = "training" => Training!SummaryRestsOnCheckpoints
  /\ part = "pointer_training" => PointerTraining!SummaryRestsOnCheckpoints

\* The shards of a W10 summary were trained on the same data.
SummaryOnOneCorpus == part = "training" => Training!SummaryOnOneCorpus

\* Every prefix of the tightening separates the two plans.
PrefixSeparatesPlans == part = "challenge" => Challenge!PrefixSeparatesPlans

\* What a loader gives to its caller is what the manifest lists.
LoadedAsManifest ==
  /\ part = "pilot_corpus" => PilotCorpus!LoadedAsManifest
  /\ part = "one_shot_corpus" => OneShotCorpus!LoadedAsManifest

\* A report is computed on the corpus of the frozen manifest it names.
ReportsFrozenCorpus == part = "paper" => Paper!ReportsFrozenCorpus
=============================================================================
