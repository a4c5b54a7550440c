-------------------------- MODULE FinalEvaluations --------------------------
(***************************************************************************)
(* The evaluations that may run once: the sealed final of A3.5, the frozen *)
(* evaluation of A3 and the A4a warm-start pilot.  They use different      *)
(* directories, so a behaviour is of one of them, named by part, in which  *)
(* the others' variables do not move.                                      *)
(***************************************************************************)
EXTENDS SealedFinal, Integers, Sequences

CONSTANTS Parts,   \* the components explored
          Order, Frozen, Stress, Negative, Cell, Learned, Context, Strong,
          Floor,   \* FrozenEvaluation
          PilotCells, Launches, CellOf, Versions, MaxEdits, MaxTargets,
          MaxSeals \* WarmStartPilot

VARIABLES
    part,  \* which of the components this behaviour is of
    locks, stage, next, rows, written, report, decision, witnesses,  \* Evaluation
    source, edits, corpus, exported, targets, sealer, pilotSeal, access,
    started, complete, shard, job, summary  \* Pilot

Evaluation == INSTANCE FrozenEvaluation WITH pc <- stage, files <- written
Pilot == INSTANCE WarmStartPilot WITH
    Cells <- PilotCells, seal <- pilotSeal

ASSUME ItemsLoaded == Evaluation!ItemsLoaded

-----------------------------------------------------------------------------
evaluationOwn == <<locks, stage, next, rows, written, report, decision, witnesses>>
pilotOwn == <<source, edits, corpus, exported, targets, sealer, pilotSeal, access,
              started, complete, shard, job, summary>>

Unused == "unused"
EvaluationAtRest ==
    /\ locks = Unused /\ stage = Unused /\ next = Unused /\ rows = Unused
    /\ written = Unused /\ report = Unused /\ decision = Unused
    /\ witnesses = Unused
PilotAtRest ==
    /\ source = Unused /\ edits = Unused /\ corpus = Unused /\ exported = Unused
    /\ targets = Unused /\ sealer = Unused /\ pilotSeal = Unused /\ access = Unused
    /\ started = Unused /\ complete = Unused /\ shard = Unused /\ job = Unused
    /\ summary = Unused

FinalInit ==
    /\ part \in Parts
    /\ Init
    /\ \/ part = "sealed_final" /\ EvaluationAtRest /\ PilotAtRest
       \/ part = "frozen_evaluation" /\ Evaluation!Init /\ PilotAtRest
       \/ part = "warm_start_pilot" /\ Pilot!Init /\ EvaluationAtRest

FinalNext ==
    \/ /\ part = "sealed_final" /\ Next
       /\ UNCHANGED <<part, evaluationOwn, pilotOwn>>
    \/ /\ part = "frozen_evaluation" /\ Evaluation!Next
       /\ UNCHANGED <<part, pilotOwn, vars>>
    \/ /\ part = "warm_start_pilot" /\ Pilot!Next
       /\ UNCHANGED <<part, evaluationOwn, vars>>

everything == <<part, evaluationOwn, pilotOwn, vars>>

\* A launched evaluation keeps running until it ends or is killed.
FinalSpec ==
    FinalInit /\ [][FinalNext]_everything
    /\ \A j \in Evaluators : WF_vars(part = "sealed_final" /\ Evaluate(j))

-----------------------------------------------------------------------------
(* The components' properties, of their own behaviours; the comment of each *)
(* is in its module.  Those of SealedFinal are its own: nothing moves in it *)
(* in the other behaviours.                                                 *)

\* A report is of a decision, predictions and an audit that are on disk.
ReportRestsOnDisk == part = "frozen_evaluation" => Evaluation!ReportRestsOnDisk

\* The summary reads shards made under the seal on disk.
SummaryRestsOnSeal == part = "warm_start_pilot" => Pilot!SummaryRestsOnSeal

\* Every cell of the validation set is evaluated by one launch.
SingleAccess == part = "warm_start_pilot" => Pilot!SingleAccess
=============================================================================
