----------------------------- MODULE WarmStartPilot -----------------------------
(***************************************************************************)
(* The A4a warm-start pilot, run_a4_warm_start_pilot.py: the commands      *)
(* export-preprocessor, generate, develop, seal, evaluate and aggregate    *)
(* over one output directory.  Evaluations are tasks of an array job, one  *)
(* per cell; a cell may be launched twice, any process may be killed, and  *)
(* the sealed sources may be edited (and the edit undone) at any time.     *)
(* Rows, scores and gates are abstracted to what they were computed with.  *)
(* (The preflight command writes a file that nothing reads.)               *)
(***************************************************************************)
EXTENDS Integers, FiniteSets

CONSTANTS
  Cells,     \* registered cells
  Launches,  \* evaluate processes
  CellOf,    \* launch -> cell
  Versions,  \* versions of SOURCE_FILES
  MaxEdits,  \* bound: edits of the sources
  MaxTargets,\* bound: runs of develop
  MaxSeals   \* bound: runs of seal

VARIABLES
  source,   \* version of the sources on disk
  edits,    \* how often they were edited
  corpus,   \* "none", "started" (a directory without manifest) or "done"
  exported, \* immutable_preprocessing.json exists
  targets,  \* which develop wrote train_frozen_targets.json; 0: none did
  sealer,   \* the seal command: "idle" or "checked"
  seal,     \* [n, source, targets] of seal.json; n = 0: none
  access,   \* the directory validation_access exists
  started,  \* cells with a .started marker
  complete, \* cells with a .complete marker
  shard,    \* cell -> [rows, by]: how much of the file is there, written by whom
  job,      \* launch -> [pc, source, targets]
  summary   \* [class, seal, read]

vars == <<source, edits, corpus, exported, targets, sealer, seal, access, started,
          complete, shard, job, summary>>
disk == <<source, edits, corpus, exported, targets, sealer, seal>>

NoSeal == [n |-> 0, source |-> 0, targets |-> 0]
NoShard == [c \in Cells |-> [rows |-> "none", by |-> {}]]

Init ==
  /\ source \in Versions /\ edits = 0
  /\ corpus = "none" /\ exported = FALSE /\ targets = 0
  /\ sealer = "idle" /\ seal = NoSeal
  /\ access = FALSE /\ started = {} /\ complete = {}
  /\ shard = NoShard
  /\ job = [j \in Launches |-> [pc |-> "new", source |-> 0, targets |-> 0]]
  /\ summary = [class |-> "none", seal |-> NoSeal, read |-> NoShard]

Edit ==
  /\ edits < MaxEdits
  /\ source' \in Versions \ {source} /\ edits' = edits + 1
  /\ UNCHANGED <<corpus, exported, targets, sealer, seal, access, started, complete,
                 shard, job, summary>>

evaluation == <<access, started, complete, shard, job, summary>>

-----------------------------------------------------------------------------
(* Before validation.                                                      *)

\* A second export recovers the same vocabulary and normalizer or raises.
export_locked_preprocessor ==
  /\ exported' = TRUE
  /\ UNCHANGED <<source, edits, corpus, targets, sealer, seal, evaluation>>

\* output.exists() and mkdir, then the records; the manifest comes last.
generate_a4_data ==
  /\ \/ corpus = "none" /\ corpus' = "started"
     \/ corpus = "started" /\ corpus' = "done"
  /\ UNCHANGED <<source, edits, exported, targets, sealer, seal, evaluation>>

\* Targets of every cell from train data; the preprocessor is needed for it.
develop ==
  /\ corpus = "done" /\ exported /\ targets < MaxTargets
  /\ targets' = targets + 1
  /\ UNCHANGED <<source, edits, corpus, exported, sealer, seal, evaluation>>

SealCheck ==
  /\ sealer = "idle" /\ seal.n < MaxSeals
  /\ corpus = "done" /\ exported /\ targets > 0 /\ ~ access
  /\ sealer' = "checked"
  /\ UNCHANGED <<source, edits, corpus, exported, targets, seal, evaluation>>

SealWrite ==
  /\ sealer = "checked"
  /\ seal' = [n |-> seal.n + 1, source |-> source, targets |-> targets]
  /\ sealer' = "idle"
  /\ UNCHANGED <<source, edits, corpus, exported, targets, evaluation>>

-----------------------------------------------------------------------------
(* evaluate --cell: launch j.                                              *)

\* Mutant of validate_seal: the targets are hashed, the sources are not.
TargetsOnly == seal.n > 0 /\ seal.targets = targets

validate_seal == seal.n > 0 /\ seal.source = source /\ seal.targets = targets

Go(j, from, to) == job[j].pc = from /\ job' = [job EXCEPT ![j].pc = to]

EvaluateValidate(j) ==
  /\ job[j].pc = "new" /\ validate_seal
  /\ job' = [job EXCEPT ![j].pc = "validated", ![j].source = source]
  /\ UNCHANGED <<disk, access, started, complete, shard, summary>>

\* validation_access is created, then the marker is looked for.
MarkerCheck(j) ==
  /\ access' = TRUE
  /\ \/ CellOf[j] \notin started /\ Go(j, "validated", "unmarked")
     \/ CellOf[j] \in started /\ Go(j, "validated", "refused")
  /\ UNCHANGED <<disk, started, complete, shard, summary>>

MarkerWrite(j) ==
  /\ Go(j, "unmarked", "marked")
  /\ started' = started \cup {CellOf[j]}
  /\ UNCHANGED <<disk, access, complete, shard, summary>>

\* run_evaluation: loads the items and targets, then computes every row.
RunEvaluation(j) ==
  /\ job[j].pc = "marked"
  /\ job' = [job EXCEPT ![j].pc = "computed", ![j].targets = targets]
  /\ UNCHANGED <<disk, access, started, complete, shard, summary>>

OpenShard(j) ==
  /\ Go(j, "computed", "writing")
  /\ shard' = [shard EXCEPT ![CellOf[j]] = [rows |-> "some", by |-> {j}]]
  /\ UNCHANGED <<disk, access, started, complete, summary>>

WriteShard(j) ==
  /\ Go(j, "writing", "written")
  /\ shard' = [shard EXCEPT ![CellOf[j]] = [rows |-> "all", by |-> @.by \cup {j}]]
  /\ UNCHANGED <<disk, access, started, complete, summary>>

MarkComplete(j) ==
  /\ Go(j, "written", "done")
  /\ complete' = complete \cup {CellOf[j]}
  /\ UNCHANGED <<disk, access, started, shard, summary>>

Killed(j) ==
  /\ job[j].pc \notin {"done", "refused", "killed"}
  /\ job' = [job EXCEPT ![j].pc = "killed"]
  /\ UNCHANGED <<disk, access, started, complete, shard, summary>>

-----------------------------------------------------------------------------

\* complete_matrix and its companions, over the rows read.
integrity == \A c \in Cells : shard[c].rows = "all"

\* One pass over the shards; the gates decide when the integrity holds.
aggregate ==
  /\ validate_seal
  /\ \A c \in Cells : shard[c].rows # "none" /\ c \in complete
  /\ \E class \in {"CONTINUE", "STOP"} :
       /\ class = "CONTINUE" => integrity
       /\ summary' = [class |-> class, seal |-> seal, read |-> shard]
  /\ UNCHANGED <<disk, access, started, complete, shard, job>>

Next ==
  \/ Edit \/ export_locked_preprocessor \/ generate_a4_data \/ develop
  \/ SealCheck \/ SealWrite \/ aggregate
  \/ \E j \in Launches :
       \/ EvaluateValidate(j) \/ MarkerCheck(j) \/ MarkerWrite(j) \/ RunEvaluation(j)
       \/ OpenShard(j) \/ WriteShard(j) \/ MarkComplete(j) \/ Killed(j)

Spec == Init /\ [][Next]_vars

-----------------------------------------------------------------------------

\* A summary rests on rows of one seal: whoever wrote a shard that aggregate
\* read, it ran the sealed sources with the sealed targets, though the sources
\* were edited and restored and develop was run again in between; and to
\* continue takes every row of every cell, though a second launch may be
\* rewriting a shard that a first one completed.
SummaryRestsOnSeal ==
  summary.class # "none" =>
    \A c \in Cells :
      /\ summary.class = "CONTINUE" => summary.read[c].rows = "all"
      /\ \A j \in summary.read[c].by :
           job[j].source = summary.seal.source /\ job[j].targets = summary.seal.targets

\* "single validation access": one launch per cell gets past the marker.
SingleAccess ==
  \A j, k \in Launches :
    /\ CellOf[j] = CellOf[k] /\ j # k
    /\ job[j].pc \in {"computed", "writing", "written", "done"}
    => job[k].pc \notin {"computed", "writing", "written", "done"}

-----------------------------------------------------------------------------
\* Why, when there is one seal: a launch validated against it runs with targets
\* no older than the sealed ones, and aggregate finds the newest to be these.
Wrote == {"writing", "written", "done", "killed"}
Validated == {"validated", "unmarked", "marked", "computed", "writing", "written", "done"}
Computed == {"computed", "writing", "written", "done"}

Types ==
  /\ targets \in Nat /\ source \in Versions
  /\ seal = NoSeal \/ seal \in [n : {1}, source : Versions, targets : Nat]
  /\ DOMAIN job = Launches
  /\ \A j \in Launches :
       /\ DOMAIN job[j] = {"pc", "source", "targets"}
       /\ job[j].pc \in Validated \cup {"new", "refused", "killed"}
  /\ DOMAIN shard = Cells /\ \A c \in Cells : DOMAIN shard[c] = {"rows", "by"}

OneSeal ==
  /\ sealer = "checked" => seal = NoSeal
  /\ seal # NoSeal => seal.targets <= targets

\* A launch past validate_seal ran the sealed sources; what it computed, it
\* computed with targets written since.
OfTheSeal(j) == seal # NoSeal /\ job[j].source = seal.source
SinceTheSeal(j) ==
  job[j].targets \in Nat /\ seal.targets <= job[j].targets /\ job[j].targets <= targets

JobsOfTheSeal ==
  \A j \in Launches :
    /\ job[j].pc \in Validated => OfTheSeal(j)
    /\ job[j].pc \in Computed => SinceTheSeal(j)

ShardsOfTheSeal ==
  \A c \in Cells : \A j \in shard[c].by :
    j \in Launches /\ job[j].pc \in Wrote /\ OfTheSeal(j) /\ SinceTheSeal(j)

SummaryReadWriters ==
  summary.class # "none" => \A c \in Cells : \A j \in summary.read[c].by :
    j \in Launches /\ job[j].pc \in Wrote

IInv == /\ Types /\ OneSeal /\ JobsOfTheSeal /\ ShardsOfTheSeal /\ SummaryReadWriters
        /\ SummaryRestsOnSeal

=============================================================================
