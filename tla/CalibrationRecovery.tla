------------------------ MODULE CalibrationRecovery ------------------------
(***************************************************************************)
(* The ordinary-LNS development runner (v2) after its packed calibration   *)
(* job wrote every trace file and no metadata: recovery of the metadata,   *)
(* native calibration of a cell, the merge, the train and label gates and  *)
(* development, as commands that share one output directory, run at the    *)
(* same time, and can die between two writes.  Every file is replaced      *)
(* atomically; a trace file is abstracted to the run that produced it.     *)
(***************************************************************************)
EXTENDS Naturals, Sequences, FiniteSets

CONSTANTS CellOrder,   \* the cells, in the preregistered order
          MaxLive,     \* calibrations of one cell that may be live at a time
          MaxRuns,     \* bound on calibration runs, the failed job being run 1
          MaxVersion,  \* bound on edits of the hashed sources
          MaxMerges    \* bound on merges

Cells == {CellOrder[i] : i \in 1..Len(CellOrder)}

(* What the constants are: there are cells, in an order.                    *)
OrderAssumption == CellOrder \in Seq(Cells) /\ CellOrder # <<>>

Frozen == 1   \* the run whose trace hashes the recovery amendment froze
None == [kind |-> "none"]

VARIABLES
    sources,      \* version of the hashed source files
    runs,         \* calibration runs so far
    traces,       \* per cell, the run behind <cell>.jsonl
    meta,         \* per cell, <cell>.json
    worker,       \* per cell, the runs of calibrate-cell before their metadata
    recovering,   \* cells whose metadata a running recovery has still to write
    record,       \* calibration_metadata_recovery_record.json
    merging,      \* the running merge: cells done, shard and traces in hand
    merge,        \* train_calibration_merge_record.json and the merged rows
    calibration,  \* train_calibration.json: the merge it was built from
    gate,         \* train_gate.json
    labels,       \* label_gate.json
    developed,    \* per cell, the calibration its development run used
    results       \* replay_audit.json, and the calibrations behind summary.json

shared == <<sources, runs, traces, meta, worker, recovering, record>>
merged == <<merging, merge, calibration>>
later == <<gate, labels, developed, results>>
vars == <<shared, merged, later>>

NotMerging == [step |-> "idle", done |-> <<>>]

Init ==
    /\ sources = 1
    /\ runs = Frozen
    /\ traces = [c \in Cells |-> Frozen]
    /\ meta = [c \in Cells |-> None]
    /\ worker = [c \in Cells |-> {}]
    /\ recovering = <<>>
    /\ record = [written |-> FALSE, sources |-> 0]
    /\ merging = NotMerging
    /\ merge = [id |-> 0, shards |-> <<>>]
    /\ calibration = 0
    /\ gate = [written |-> FALSE, passed |-> FALSE]
    /\ labels = [written |-> FALSE, passed |-> FALSE]
    /\ developed = [c \in Cells |-> 0]
    /\ results = [replayed |-> FALSE, summary |-> {}]

-----------------------------------------------------------------------------
(* calibrate-cell: the traces, then the metadata, with the hashes of the    *)
(* sources and of the trace file as they are then; the run may die in       *)
(* between, or end with a failed matrix.                                    *)
CalibrateTraces(c) ==
    /\ Cardinality(worker[c]) < MaxLive /\ runs < MaxRuns
    /\ runs' = runs + 1
    /\ traces' = [traces EXCEPT ![c] = runs + 1]
    /\ worker' = [worker EXCEPT ![c] = @ \union {runs + 1}]
    /\ UNCHANGED <<sources, meta, recovering, record, merged, later>>

CalibrateMetadata(c) ==
    \E run \in worker[c], passed \in BOOLEAN :
        /\ meta' = [meta EXCEPT ![c] = [kind |-> "native", rows |-> run, trace |-> traces[c],
                                        sources |-> sources, passed |-> passed]]
        /\ worker' = [worker EXCEPT ![c] = @ \ {run}]
        /\ UNCHANGED <<sources, runs, traces, recovering, record, merged, later>>

CalibrateDies(c) ==
    \E run \in worker[c] :
        /\ worker' = [worker EXCEPT ![c] = @ \ {run}]
        /\ UNCHANGED <<sources, runs, traces, meta, recovering, record, merged, later>>

(* recover-calibration-metadata: only over the frozen traces of every cell  *)
(* and no metadata at all; the cells' files, then the recovery record.      *)
RecoverCheck ==
    /\ recovering = <<>>
    /\ \A c \in Cells : meta[c] = None /\ traces[c] = Frozen
    /\ recovering' = CellOrder
    /\ UNCHANGED <<sources, runs, traces, meta, worker, record, merged, later>>

RecoverCell ==
    /\ recovering # <<>>
    /\ meta' = [meta EXCEPT ![Head(recovering)] =
                  [kind |-> "recovered", rows |-> Frozen, trace |-> Frozen,
                   sources |-> sources, passed |-> TRUE]]
    /\ recovering' = Tail(recovering)
    /\ record' = IF Len(recovering) = 1 THEN [written |-> TRUE, sources |-> sources] ELSE record
    /\ UNCHANGED <<sources, runs, traces, worker, merged, later>>

RecoverDies ==
    /\ recovering # <<>>
    /\ recovering' = <<>>
    /\ UNCHANGED <<sources, runs, traces, meta, worker, record, merged, later>>

-----------------------------------------------------------------------------
(* merge-calibration: the recovery record, then cell after cell the         *)
(* metadata, the traces, and the validation of both ...                     *)
MergeStart ==
    /\ merging = NotMerging /\ merge.id < MaxMerges
    /\ \A c \in Cells : meta[c] # None
    /\ record.written /\ record.sources = sources
    /\ merging' = [step |-> "metadata", done |-> <<>>]
    /\ UNCHANGED <<shared, merge, calibration, later>>

Cell == CellOrder[Len(merging.done) + 1]

\* Mutant of MergeReadMetadata: the traces are read before the metadata.
MergeReadTracesFirst ==
    /\ merging.step = "metadata"
    /\ \/ /\ "rows" \notin DOMAIN merging
          /\ merging' = [step |-> "metadata", done |-> merging.done, rows |-> traces[Cell]]
       \/ /\ "rows" \in DOMAIN merging
          /\ merging' = [step |-> "validate", done |-> merging.done, shard |-> meta[Cell],
                         traces |-> merging.rows]
    /\ UNCHANGED <<shared, merge, calibration, later>>

MergeReadMetadata ==
    /\ merging.step = "metadata"
    /\ merging' = [step |-> "traces", done |-> merging.done, shard |-> meta[Cell]]
    /\ UNCHANGED <<shared, merge, calibration, later>>

MergeReadTraces ==
    /\ merging.step = "traces"
    /\ merging' = [step |-> "validate", done |-> merging.done, shard |-> merging.shard,
                   traces |-> traces[Cell]]
    /\ UNCHANGED <<shared, merge, calibration, later>>

(* _validate_calibration_shard hashes the trace file once more.             *)
validate_calibration_shard(shard, c) ==
    /\ shard.passed
    /\ shard.trace = traces[c]
    /\ shard.sources = sources
    /\ shard.kind = "recovered" => shard.trace = Frozen

MergeValidate ==
    /\ merging.step = "validate"
    /\ merging' = IF ~validate_calibration_shard(merging.shard, Cell) THEN NotMerging
                  ELSE LET done == Append(merging.done, [cell |-> Cell, kind |-> merging.shard.kind,
                                            rows |-> merging.shard.rows, traces |-> merging.traces])
                       IN  [step |-> IF Len(done) = Len(CellOrder) THEN "write" ELSE "metadata",
                            done |-> done]
    /\ UNCHANGED <<shared, merge, calibration, later>>

(* ... then the merge record, and the calibration built from its rows,      *)
(* unless the merged matrix or the workers' affinities fail.                *)
MergeRecord ==
    /\ merging.step = "write"
    /\ merge' = [id |-> merge.id + 1, shards |-> merging.done]
    /\ merging' = [merging EXCEPT !.step = "calibration"]
    /\ UNCHANGED <<shared, calibration, later>>

MergeCalibration ==
    /\ merging.step = "calibration"
    /\ calibration' = merge.id
    /\ merging' = NotMerging
    /\ UNCHANGED <<shared, merge, later>>

MergeDies ==
    /\ merging # NotMerging
    /\ merging' = NotMerging
    /\ UNCHANGED <<shared, merge, calibration, later>>

-----------------------------------------------------------------------------
(* train-gate: only for the calibration of the merge record on disk; the    *)
(* gate is written, failed or not.                                          *)
train_gate ==
    /\ calibration # 0 /\ calibration = merge.id
    /\ \E coverage, recovery \in BOOLEAN :
         gate' = [written |-> TRUE, passed |-> coverage /\ recovery]
    /\ UNCHANGED <<shared, merged, labels, developed, results>>

(* labels: reads the calibration, not the train gate.                       *)
generate_labels ==
    /\ calibration # 0
    /\ \E passed \in BOOLEAN : labels' = [written |-> TRUE, passed |-> passed]
    /\ UNCHANGED <<shared, merged, gate, developed, results>>

run_cell(c) ==
    /\ gate.passed /\ labels.passed
    /\ calibration # 0
    /\ developed' = [developed EXCEPT ![c] = calibration]
    /\ UNCHANGED <<shared, merged, gate, labels, results>>

(* replay: every recorded step of every development trace, or it raises.    *)
replay_audit ==
    /\ \A c \in Cells : developed[c] # 0
    /\ results' = [results EXCEPT !.replayed = TRUE]
    /\ UNCHANGED <<shared, merged, gate, labels, developed>>

aggregate ==
    /\ gate.passed /\ labels.passed /\ results.replayed
    /\ results' = [results EXCEPT !.summary = {developed[c] : c \in Cells}]
    /\ UNCHANGED <<shared, merged, gate, labels, developed>>

Edit ==
    /\ sources < MaxVersion
    /\ sources' = sources + 1
    /\ UNCHANGED <<runs, traces, meta, worker, recovering, record, merged, later>>

Next ==
    \/ \E c \in Cells : CalibrateTraces(c) \/ CalibrateMetadata(c) \/ CalibrateDies(c)
                        \/ run_cell(c)
    \/ RecoverCheck \/ RecoverCell \/ RecoverDies
    \/ MergeStart \/ MergeReadMetadata \/ MergeReadTraces \/ MergeValidate
    \/ MergeRecord \/ MergeCalibration \/ MergeDies
    \/ train_gate \/ generate_labels \/ replay_audit \/ aggregate \/ Edit

Spec == Init /\ [][Next]_vars

-----------------------------------------------------------------------------
(* The merge takes a cell's rows from its metadata and its traces from the  *)
(* trace file, read at different moments while calibrations may replace     *)
(* either: in every merge written, both come from the same run.             *)
MergeReadsOneRun ==
    \A i \in 1..Len(merge.shards) : merge.shards[i].rows = merge.shards[i].traces

-----------------------------------------------------------------------------
(* Why, when one calibration of a cell is live at a time: runs only grow,   *)
(* so that a trace file that is still the one the metadata hashed cannot    *)
(* have been another one in between.                                        *)
Kinds == {"native", "recovered"}
OneRun == {d \in [cell : Cells, kind : Kinds, rows : Nat, traces : Nat] : d.rows = d.traces}

Types ==
    /\ runs \in Nat
    /\ traces \in [Cells -> Nat] /\ \A c \in Cells : Frozen <= traces[c] /\ traces[c] <= runs
    /\ DOMAIN meta = Cells
    /\ worker \in [Cells -> SUBSET Nat]

(* A live calibration has written the traces, and nobody after it.          *)
LiveWroteTraces == \A c \in Cells : \A run \in worker[c] : run = traces[c]

(* Metadata is of one run, no later than the traces on disk.                *)
OfOneRun(m, latest) ==
    m.kind \in Kinds /\ m.rows \in Nat /\ m.trace = m.rows /\ m.trace <= latest

MetaOfOneRun == \A c \in Cells : meta[c] # None => OfOneRun(meta[c], traces[c])

Reading == {"metadata", "traces", "validate"}

MergeInHand ==
    /\ merging.step \in Reading \union {"idle", "write", "calibration"}
    /\ {"step", "done"} \subseteq DOMAIN merging /\ merging.done \in Seq(OneRun)
    /\ merging.step \in Reading =>
         Len(merging.done) < Len(CellOrder) /\ \A c \in Cells : meta[c] # None
    /\ merging.step = "traces" => OfOneRun(merging.shard, traces[Cell])
    /\ merging.step = "validate" =>
         /\ merging.traces \in Nat /\ merging.traces <= traces[Cell]
         /\ OfOneRun(merging.shard, merging.traces)

IInv ==
    /\ Types /\ LiveWroteTraces /\ MetaOfOneRun /\ MergeInHand
    /\ merge.shards \in Seq(OneRun)

=============================================================================
