---------------------- MODULE ExperimentPipelinesProofs ----------------------
(***************************************************************************)
(* Proofs of the invariants of ExperimentPipelines, a part at a time.      *)
(***************************************************************************)
EXTENDS ExperimentPipelines, FiniteSetTheorems, TLAPS

-----------------------------------------------------------------------------
(* PaperBenchmark.                                                          *)

LEMMA PaperInit == Paper!Init => Paper!IInv
<1> SUFFICES ASSUME Paper!Init PROVE Paper!IInv
  OBVIOUS
<1>1. Paper!Types
  BY DEF Paper!Init, Paper!Types
<1>2. Paper!LaunchesMatch
  BY DEF Paper!Init, Paper!LaunchesMatch
<1>3. Paper!ShardsOfTheirManifest
  BY DEF Paper!Init, Paper!ShardsOfTheirManifest
<1>4. Paper!RowsOfTheirLaunch
  BY PaperConstants DEF Paper!BenchmarkAssumption, Paper!Init, Paper!RowsOfTheirLaunch
<1>5. QED  BY <1>1, <1>2, <1>3, <1>4 DEF Paper!IInv, Paper!Init, Paper!ReportsFrozenCorpus

\* A file that is there is not an absent one.
LEMMA WholeFiles == \A x : Paper!Whole(x) # Paper!Absent /\ Paper!Whole(x).value = x
  BY DEF Paper!Whole, Paper!Absent

\* Every step of a launch, and every edit, keeps the invariant.
LEMMA PaperStep == ASSUME Paper!IInv, Paper!Next PROVE Paper!IInv'
<1> USE DEF Paper!IInv, Paper!Types, Paper!LaunchesMatch, Paper!ShardsOfTheirManifest,
            Paper!RowsOfTheirLaunch, Paper!ReportsFrozenCorpus, Paper!Matches,
            Paper!manifest
<1> USE WholeFiles
<1>1. ASSUME NEW l \in Launches, Paper!Launch(l) PROVE Paper!IInv'
  BY <1>1 DEF Paper!Launch, Paper!Goes
<1>2. ASSUME NEW l \in Launches, Paper!Materialize(l) PROVE Paper!IInv'
  BY <1>2 DEF Paper!Materialize, Paper!Goes
<1>3. ASSUME NEW l \in Launches, Paper!Audit(l) PROVE Paper!IInv'
  BY <1>3 DEF Paper!Audit, Paper!Goes
<1>4. ASSUME NEW l \in Launches, Paper!Freeze(l) PROVE Paper!IInv'
  <2>1. CASE frozen[path[l]] = Paper!Absent
    <3>1. frozen' = [frozen EXCEPT ![path[l]] = Paper!Whole(Paper!manifest(loaded[l]))]
      BY <1>4, <2>1 DEF Paper!Freeze
    <3>2. path[l] \in Manifests
      BY <1>4 DEF Paper!Freeze
    <3>3. \A p \in Manifests : frozen[p] # Paper!Absent => frozen'[p] = frozen[p]
      BY <2>1, <3>1, <3>2
    <3>4. Paper!LaunchesMatch'
      <4>1. UNCHANGED <<path, loaded>> /\ pc' = [pc EXCEPT ![l] = "verify"]
        BY <1>4, <2>1 DEF Paper!Freeze, Paper!Goes
      <4>2. frozen'[path[l]] = Paper!Whole(Paper!manifest(loaded[l]))
        BY <3>1, <3>2
      <4>3. QED  BY <1>4, <3>2, <3>3, <4>1, <4>2 DEF Paper!Freeze
    <3>5. report' = report /\ \A r \in report : frozen'[r.path] = frozen[r.path]
      <4>1. report' = report
        BY <1>4 DEF Paper!Freeze
      <4>2. \A r \in report : r.path \in Manifests /\ frozen[r.path] # Paper!Absent
        OBVIOUS
      <4>3. QED  BY <3>3, <4>1, <4>2
    <3>6. Paper!ReportsFrozenCorpus'
      BY <3>5
    <3>7. Paper!Types'
      BY <1>4, <3>1, <3>2 DEF Paper!Freeze, Paper!Goes
    <3>8. Paper!ShardsOfTheirManifest' /\ Paper!RowsOfTheirLaunch'
      BY <1>4 DEF Paper!Freeze, Paper!Goes
    <3>9. QED  BY <3>4, <3>6, <3>7, <3>8
  <2>2. CASE frozen[path[l]] # Paper!Absent
    BY <1>4, <2>2 DEF Paper!Freeze, Paper!Goes
  <2>3. QED  BY <2>1, <2>2
<1>5. ASSUME NEW l \in Launches, Paper!Verify(l) PROVE Paper!IInv'
  BY <1>5 DEF Paper!Verify, Paper!Goes
<1>6. ASSUME NEW l \in Launches, Paper!RunInstance(l) PROVE Paper!IInv'
  <2> DEFINE i == Paper!NextRow(l)
  <2>1. /\ Len(rows[l]) + 1 \in 1..Len(PaperInstances)
        /\ i = PaperInstances[Len(rows[l]) + 1] /\ i \in Paper!Ids
    BY <1>6, PaperConstants
       DEF Paper!RunInstance, Paper!NextRow, Paper!BenchmarkAssumption, Paper!Ids, Paper!Range
  <2>2. PICK row \in Paper!Rows :
          /\ row.content = loaded[l].content[i]
          /\ rows' = [rows EXCEPT ![l] = Append(@, row)]
          /\ \/ UNCHANGED shard
             \/ /\ row.content = row.manifest[i]
                /\ shard' = [shard EXCEPT ![i] = Paper!Whole(row)]
    <3>1. CASE Paper!Reusable(l, i) /\ rows' = [rows EXCEPT ![l] = Append(@, shard[i].value)]
               /\ UNCHANGED shard
      <4>1. PICK row \in Paper!Rows : shard[i] = Paper!Whole(row)
        BY <2>1, <3>1 DEF Paper!Reusable
      <4>2. row.content = row.manifest[i] /\ row.manifest = loaded[l].content
        BY <2>1, <3>1, <4>1 DEF Paper!Reusable
      <4>3. QED  BY <3>1, <4>1, <4>2
    <3> DEFINE computed == [manifest |-> Paper!manifest(loaded[l]),
                              content |-> loaded[l].content[i]]
    <3>3. CASE rows' = [rows EXCEPT ![l] = Append(@, computed)]
               /\ shard' = [shard EXCEPT ![i] = Paper!Whole(computed)]
      <4>1. computed \in Paper!Rows
        BY <2>1 DEF Paper!Rows
      <4>2. QED  BY <3>3, <4>1
    <3>4. QED  BY <1>6, <3>1, <3>3 DEF Paper!RunInstance
  <2>3. UNCHANGED <<source, pc, path, loaded, frozen, report>> /\ pc[l] = "run"
    BY <1>6 DEF Paper!RunInstance
  <2>4. Paper!Types'
    <3>1. rows' \in [Launches -> Seq(Paper!Rows)]
      BY <2>2
    <3>2. shard' \in [Paper!Ids -> {Paper!Absent} \cup {Paper!Whole(r) : r \in Paper!Rows}]
      BY <2>1, <2>2
    <3>3. QED  BY <2>3, <3>1, <3>2
  <2>5. Paper!ShardsOfTheirManifest'
    <3>1. CASE UNCHANGED shard
      BY <3>1
    <3>2. CASE row.content = row.manifest[i] /\ shard' = [shard EXCEPT ![i] = Paper!Whole(row)]
      BY <2>1, <3>2
    <3>3. QED  BY <2>2, <3>1, <3>2
  <2>6. Paper!RowsOfTheirLaunch'
    BY <2>1, <2>2, <2>3
  <2>7. Paper!LaunchesMatch' /\ Paper!ReportsFrozenCorpus'
    BY <2>3
  <2>8. QED  BY <2>4, <2>5, <2>6, <2>7
<1>7. ASSUME NEW l \in Launches, Paper!Report(l) PROVE Paper!IInv'
  <2> DEFINE r == [path |-> path[l], manifest |-> Paper!manifest(loaded[l]), rows |-> rows[l]]
  <2>1. report' = report \cup {r} /\ UNCHANGED <<source, path, loaded, rows, frozen, shard>>
    BY <1>7 DEF Paper!Report
  <2>2. pc' = [pc EXCEPT ![l] = "done"] /\ pc[l] = "run" /\ path[l] \in Manifests
    BY <1>7 DEF Paper!Report, Paper!Goes
  <2>3. Paper!ReportsFrozenCorpus'
    <3>1. frozen[r.path] = Paper!Whole(r.manifest)
      BY <2>2
    <3>2. \A k \in DOMAIN r.rows : r.rows[k].content = r.manifest[PaperInstances[k]]
      OBVIOUS
    <3>3. QED  BY <2>1, <3>1, <3>2
  <2>4. Paper!Types'
    BY <2>1, <2>2
  <2>5. Paper!LaunchesMatch' /\ Paper!ShardsOfTheirManifest' /\ Paper!RowsOfTheirLaunch'
    BY <2>1, <2>2
  <2>6. QED  BY <2>3, <2>4, <2>5
<1>8. ASSUME NEW l \in Launches, Paper!Kill(l) PROVE Paper!IInv'
  <2>1. pc[l] # "none"
    BY <1>8 DEF Paper!Kill, Paper!Live, Paper!Ended
  <2>2. QED  BY <1>8, <2>1 DEF Paper!Kill, Paper!Goes
<1>9. CASE Paper!Edit
  BY <1>9 DEF Paper!Edit
<1>10. QED
  BY <1>1, <1>2, <1>3, <1>4, <1>5, <1>6, <1>7, <1>8, <1>9 DEF Paper!Next

\* Whatever is launched, killed, edited and reused, what is frozen stays frozen
\* and what is at hand was computed on it.
LEMMA PaperInvariant == PipelineSpec => [](part = "paper" => Paper!IInv)
<1>1. PipelineInit => (part = "paper" => Paper!IInv)
  BY PaperInit DEF PipelineInit
<1>2. (part = "paper" => Paper!IInv) /\ [PipelineNext]_everything
        => (part = "paper" => Paper!IInv)'
  <2> SUFFICES ASSUME part = "paper", part' = "paper", Paper!IInv, [PipelineNext]_everything
               PROVE  Paper!IInv'
    BY DEF PipelineNext, everything
  <2>1. CASE Paper!Next  BY <2>1, PaperStep
  <2>2. CASE UNCHANGED everything
    BY <2>2
       DEF everything, paperOwn, Paper!IInv, Paper!Types, Paper!LaunchesMatch, Paper!Matches,
           Paper!ShardsOfTheirManifest, Paper!RowsOfTheirLaunch, Paper!ReportsFrozenCorpus
  <2>3. QED  BY <2>1, <2>2 DEF PipelineNext
<1>3. QED  BY <1>1, <1>2, PTL DEF PipelineSpec

\* Every report of the paper benchmark names the manifest frozen at its path, and
\* its rows were computed on the instances of that manifest.
THEOREM ReportsFrozenCorpusHolds == PipelineSpec => []ReportsFrozenCorpus
<1>1. (part = "paper" => Paper!IInv) => ReportsFrozenCorpus
  BY DEF Paper!IInv, ReportsFrozenCorpus
<1>2. QED  BY <1>1, PaperInvariant, PTL

-----------------------------------------------------------------------------
(* CalibrationRecovery, one calibration of a cell live at a time.           *)

LEMMA CalibrationInit == Calibration!Init => Calibration!IInv
<1> SUFFICES ASSUME Calibration!Init PROVE Calibration!IInv
  OBVIOUS
<1> USE DEF Calibration!Init
<1>1. Calibration!Types
  BY DEF Calibration!Types, Calibration!Frozen
<1>2. Calibration!LiveWroteTraces /\ Calibration!MetaOfOneRun
  BY DEF Calibration!LiveWroteTraces, Calibration!MetaOfOneRun
<1>3. Calibration!MergeInHand
  BY DEF Calibration!MergeInHand, Calibration!NotMerging, Calibration!Reading
<1>4. QED  BY <1>1, <1>2, <1>3 DEF Calibration!IInv

\* The cell a merge is reading is one of the cells.
LEMMA MergedCell ==
  ASSUME Calibration!IInv, merging.step \in Calibration!Reading
  PROVE  Calibration!Cell \in Calibration!Cells
<1>1. Len(merging.done) \in Nat /\ Len(merging.done) < Len(CellOrder)
  BY DEF Calibration!IInv, Calibration!MergeInHand
<1>2. QED
  BY <1>1, CalibrationConstants
     DEF Calibration!OrderAssumption, Calibration!Cell, Calibration!Cells

\* Newer traces and newer metadata do not disturb a merge.
LEMMA MergeUndisturbed ==
  ASSUME Calibration!IInv, UNCHANGED merging, traces' \in [Calibration!Cells -> Nat],
         \A c \in Calibration!Cells : traces[c] <= traces'[c],
         \A c \in Calibration!Cells : meta[c] # Calibration!None => meta'[c] # Calibration!None
  PROVE  Calibration!MergeInHand'
<1>1. CASE merging.step \in Calibration!Reading
  <2>1. traces[Calibration!Cell] \in Nat /\ traces'[Calibration!Cell] \in Nat
        /\ traces[Calibration!Cell] <= traces'[Calibration!Cell] /\ Calibration!Cell' = Calibration!Cell
    BY <1>1, MergedCell DEF Calibration!IInv, Calibration!Types, Calibration!Cell
  <2>2. QED
    BY <1>1, <2>1 DEF Calibration!IInv, Calibration!MergeInHand, Calibration!OfOneRun
<1>2. CASE merging.step \notin Calibration!Reading
  BY <1>2 DEF Calibration!IInv, Calibration!MergeInHand, Calibration!Reading
<1>3. QED  BY <1>1, <1>2

\* A calibration is let in when no other is live, and writes traces nobody had.
LEMMA CalibrateTracesStep ==
  ASSUME Calibration!IInv, NEW c \in Calibration!Cells, Calibration!CalibrateTraces(c)
  PROVE  Calibration!IInv'
<1> USE DEF Calibration!IInv, Calibration!Types
<1>1. worker[c] = {}
  <2>1. worker[c] \subseteq {traces[c]}
    BY DEF Calibration!LiveWroteTraces
  <2>2. IsFiniteSet(worker[c])
    BY <2>1, FS_Singleton, FS_Subset
  <2>3. Cardinality(worker[c]) \in Nat /\ Cardinality(worker[c]) < 1
    <3>1. Cardinality(worker[c]) = Calibration!Cardinality(worker[c])
      BY DEF Cardinality, Calibration!Cardinality
    <3>2. QED  BY <2>2, <3>1, FS_CardinalityType DEF Calibration!CalibrateTraces
  <2>4. QED  BY <2>2, <2>3, FS_EmptySet
<1>2. /\ runs' = runs + 1 /\ traces' = [traces EXCEPT ![c] = runs + 1]
      /\ worker' = [worker EXCEPT ![c] = {runs + 1}]
      /\ UNCHANGED <<meta, merging, merge>>
  BY <1>1 DEF Calibration!CalibrateTraces, Calibration!merged
<1>3. Calibration!Types'
  BY <1>2 DEF Calibration!Frozen
<1>4. \A d \in Calibration!Cells : traces[d] <= traces'[d]
  BY <1>2
<1>5. Calibration!LiveWroteTraces'
  BY <1>2 DEF Calibration!LiveWroteTraces
<1>6. Calibration!MetaOfOneRun'
  BY <1>2, <1>3, <1>4 DEF Calibration!MetaOfOneRun, Calibration!OfOneRun
<1>7. Calibration!MergeInHand'
  BY <1>2, <1>3, <1>4, MergeUndisturbed
<1>8. QED  BY <1>2, <1>3, <1>5, <1>6, <1>7

\* A step that leaves runs, traces and merge alone, ends launches at most and
\* writes metadata of one run.
LEMMA MetadataWritten ==
  ASSUME Calibration!IInv, UNCHANGED <<runs, traces, merging, merge>>,
         worker' \in [Calibration!Cells -> SUBSET Nat], DOMAIN meta' = Calibration!Cells,
         \A c \in Calibration!Cells :
           /\ worker'[c] \subseteq worker[c]
           /\ meta'[c] = meta[c] \/ (meta'[c] # Calibration!None
                                     /\ Calibration!OfOneRun(meta'[c], traces[c]))
  PROVE  Calibration!IInv'
<1> USE DEF Calibration!IInv
<1>1. Calibration!Types' /\ Calibration!LiveWroteTraces'
  BY DEF Calibration!Types, Calibration!LiveWroteTraces
<1>2. Calibration!MetaOfOneRun'
  BY DEF Calibration!MetaOfOneRun, Calibration!OfOneRun
<1>3. Calibration!MergeInHand'
  BY MergeUndisturbed DEF Calibration!Types
<1>4. QED  BY <1>1, <1>2, <1>3

LEMMA CalibrationMetadataStep ==
  ASSUME Calibration!IInv, NEW c \in Calibration!Cells,
         Calibration!CalibrateMetadata(c) \/ Calibration!CalibrateDies(c)
  PROVE  Calibration!IInv'
<1> USE DEF Calibration!IInv, Calibration!Types
<1>1. CASE Calibration!CalibrateMetadata(c)
  <2>1. PICK wrote \in worker[c], passed \in BOOLEAN :
          /\ meta' = [meta EXCEPT ![c] = [kind |-> "native", rows |-> wrote, trace |-> traces[c],
                                          sources |-> sources, passed |-> passed]]
          /\ worker' = [worker EXCEPT ![c] = @ \ {wrote}]
          /\ UNCHANGED <<runs, traces, merging, merge>>
    BY <1>1 DEF Calibration!CalibrateMetadata, Calibration!merged
  <2>2. wrote = traces[c] /\ traces[c] \in Nat
    BY <2>1 DEF Calibration!LiveWroteTraces
  <2>3. meta'[c] # Calibration!None /\ Calibration!OfOneRun(meta'[c], traces[c])
    BY <2>1, <2>2 DEF Calibration!None, Calibration!OfOneRun, Calibration!Kinds
  <2>4. QED  BY <2>1, <2>3, MetadataWritten
<1>2. CASE Calibration!CalibrateDies(c)
  BY <1>2, MetadataWritten DEF Calibration!CalibrateDies, Calibration!merged
<1>3. QED  BY <1>1, <1>2

\* The recovery writes metadata of the frozen run, which is never a later one.
LEMMA RecoverCellStep == ASSUME Calibration!IInv, Calibration!RecoverCell PROVE Calibration!IInv'
<1> USE DEF Calibration!IInv, Calibration!Types
<1> DEFINE recovered == [kind |-> "recovered", rows |-> Calibration!Frozen,
                         trace |-> Calibration!Frozen, sources |-> sources, passed |-> TRUE]
<1>1. meta' = [meta EXCEPT ![Head(recovering)] = recovered]
      /\ UNCHANGED <<runs, traces, worker, merging, merge>>
  BY DEF Calibration!RecoverCell, Calibration!merged
<1>2. recovered # Calibration!None /\ \A c \in Calibration!Cells : Calibration!OfOneRun(recovered, traces[c])
  BY DEF Calibration!None, Calibration!OfOneRun, Calibration!Kinds, Calibration!Frozen
<1>3. \A c \in Calibration!Cells : meta'[c] = meta[c] \/ meta'[c] = recovered
  BY <1>1
<1>4. QED  BY <1>1, <1>2, <1>3, MetadataWritten

\* What a step does that moves only the merge.
LEMMA MergeMoves ==
  ASSUME Calibration!IInv, UNCHANGED Calibration!shared, Calibration!MergeInHand',
         merge'.shards \in Seq(Calibration!OneRun)
  PROVE  Calibration!IInv'
  BY DEF Calibration!IInv, Calibration!Types, Calibration!LiveWroteTraces,
         Calibration!MetaOfOneRun, Calibration!shared

LEMMA MergeStep ==
  ASSUME Calibration!IInv,
         Calibration!MergeStart \/ Calibration!MergeReadMetadata \/ Calibration!MergeReadTraces
         \/ Calibration!MergeValidate \/ Calibration!MergeRecord \/ Calibration!MergeCalibration
         \/ Calibration!MergeDies
  PROVE  Calibration!IInv'
<1> USE DEF Calibration!IInv
<1> USE DEF Calibration!Reading
<1>1. CASE Calibration!MergeStart
  <2>1. Len(<<>>) < Len(CellOrder)
    BY CalibrationConstants DEF Calibration!OrderAssumption
  <2>2. Calibration!MergeInHand'
    BY <1>1, <2>1 DEF Calibration!MergeStart, Calibration!MergeInHand, Calibration!shared
  <2>3. QED  BY <1>1, <2>2, MergeMoves DEF Calibration!MergeStart
<1>2. CASE Calibration!MergeReadMetadata
  <2>1. meta[Calibration!Cell] # Calibration!None /\ Calibration!Cell' = Calibration!Cell
        /\ Calibration!OfOneRun(meta[Calibration!Cell], traces[Calibration!Cell])
    BY <1>2, MergedCell
       DEF Calibration!MergeReadMetadata, Calibration!MergeInHand, Calibration!MetaOfOneRun,
           Calibration!Cell
  <2>2. Calibration!MergeInHand'
    BY <1>2, <2>1 DEF Calibration!MergeReadMetadata, Calibration!MergeInHand, Calibration!shared,
                      Calibration!OfOneRun
  <2>3. QED  BY <1>2, <2>2, MergeMoves DEF Calibration!MergeReadMetadata
<1>3. CASE Calibration!MergeReadTraces
  <2>1. traces[Calibration!Cell] \in Nat /\ Calibration!Cell' = Calibration!Cell
    BY <1>3, MergedCell DEF Calibration!MergeReadTraces, Calibration!Types, Calibration!Cell
  <2>2. Calibration!MergeInHand'
    BY <1>3, <2>1 DEF Calibration!MergeReadTraces, Calibration!MergeInHand, Calibration!shared,
                      Calibration!OfOneRun
  <2>3. QED  BY <1>3, <2>2, MergeMoves DEF Calibration!MergeReadTraces
<1>4. CASE Calibration!MergeValidate
  <2> DEFINE entry == [cell |-> Calibration!Cell, kind |-> merging.shard.kind,
                       rows |-> merging.shard.rows, traces |-> merging.traces]
             done == Append(merging.done, entry)
  <2>1. CASE ~ Calibration!validate_calibration_shard(merging.shard, Calibration!Cell)
    <3>1. Calibration!MergeInHand'
      BY <1>4, <2>1 DEF Calibration!MergeValidate, Calibration!MergeInHand, Calibration!NotMerging
    <3>2. QED  BY <1>4, <3>1, MergeMoves DEF Calibration!MergeValidate
  <2>2. CASE Calibration!validate_calibration_shard(merging.shard, Calibration!Cell)
    <3>1. entry.rows = entry.traces /\ entry \in Calibration!OneRun
      BY <1>4, <2>2, MergedCell
         DEF Calibration!MergeValidate, Calibration!MergeInHand, Calibration!OfOneRun,
             Calibration!validate_calibration_shard, Calibration!OneRun, Calibration!Types
    <3>2. done \in Seq(Calibration!OneRun) /\ Len(done) = Len(merging.done) + 1
          /\ Len(merging.done) \in Nat
      BY <3>1 DEF Calibration!MergeInHand
    <3>3. merging' = [step |-> IF Len(done) = Len(CellOrder) THEN "write" ELSE "metadata",
                      done |-> done]
      BY <1>4, <2>2 DEF Calibration!MergeValidate
    <3>4. Len(CellOrder) \in Nat
      BY CalibrationConstants DEF Calibration!OrderAssumption
    <3>5. merging.step = "validate" /\ Len(merging.done) < Len(CellOrder)
          /\ \A c \in Calibration!Cells : meta'[c] # Calibration!None
      BY <1>4 DEF Calibration!MergeValidate, Calibration!MergeInHand, Calibration!shared
    <3>6. /\ merging'.step \in {"write", "metadata"} /\ merging'.done = done
          /\ {"step", "done"} \subseteq DOMAIN merging'
          /\ merging'.step = "metadata" => Len(done) < Len(CellOrder)
      BY <3>2, <3>3, <3>4, <3>5
    <3>7. Calibration!MergeInHand'
      BY <3>2, <3>5, <3>6 DEF Calibration!MergeInHand
    <3>8. QED  BY <1>4, <3>7, MergeMoves DEF Calibration!MergeValidate
  <2>3. QED  BY <2>1, <2>2
<1>5. CASE Calibration!MergeRecord
  <2>1. Calibration!MergeInHand'
    BY <1>5 DEF Calibration!MergeRecord, Calibration!MergeInHand
  <2>2. QED  BY <1>5, <2>1, MergeMoves DEF Calibration!MergeRecord, Calibration!MergeInHand
<1>6. CASE Calibration!MergeCalibration \/ Calibration!MergeDies
  <2>1. merging' = [step |-> "idle", done |-> <<>>]
    BY <1>6 DEF Calibration!MergeCalibration, Calibration!MergeDies, Calibration!NotMerging
  <2>2. Calibration!MergeInHand'
    BY <2>1 DEF Calibration!MergeInHand
  <2>3. QED  BY <1>6, <2>2, MergeMoves DEF Calibration!MergeCalibration, Calibration!MergeDies
<1>7. QED  BY <1>1, <1>2, <1>3, <1>4, <1>5, <1>6

\* What the commands after the merge do, and an edit, is not read by any of this.
LEMMA LaterStep ==
  ASSUME Calibration!IInv, NEW c \in Calibration!Cells,
         \/ Calibration!run_cell(c) \/ Calibration!RecoverCheck \/ Calibration!RecoverDies
         \/ Calibration!train_gate \/ Calibration!generate_labels \/ Calibration!replay_audit
         \/ Calibration!aggregate \/ Calibration!Edit
  PROVE  Calibration!IInv'
<1>1. UNCHANGED <<runs, traces, meta, worker, merging, merge>>
  BY DEF Calibration!run_cell, Calibration!RecoverCheck, Calibration!RecoverDies,
         Calibration!train_gate, Calibration!generate_labels, Calibration!replay_audit,
         Calibration!aggregate, Calibration!Edit, Calibration!shared, Calibration!merged
<1>2. QED  BY <1>1, MetadataWritten DEF Calibration!IInv, Calibration!Types

LEMMA CalibrationStep == ASSUME Calibration!IInv, Calibration!Next PROVE Calibration!IInv'
<1>1. PICK c : c \in Calibration!Cells
  BY CalibrationConstants DEF Calibration!OrderAssumption, Calibration!Cells
<1>2. QED
  BY <1>1, CalibrateTracesStep, CalibrationMetadataStep, RecoverCellStep, MergeStep, LaterStep
     DEF Calibration!Next

LEMMA CalibrationInvariant == PipelineSpec => [](part = "calibration" => Calibration!IInv)
<1>1. PipelineInit => (part = "calibration" => Calibration!IInv)
  BY CalibrationInit DEF PipelineInit
<1>2. (part = "calibration" => Calibration!IInv) /\ [PipelineNext]_everything
        => (part = "calibration" => Calibration!IInv)'
  <2> SUFFICES ASSUME part = "calibration", part' = "calibration", Calibration!IInv,
                      [PipelineNext]_everything
               PROVE  Calibration!IInv'
    BY DEF PipelineNext, everything
  <2>1. CASE Calibration!Next  BY <2>1, CalibrationStep
  <2>2. CASE UNCHANGED everything
    <3>1. UNCHANGED <<runs, traces, meta, worker, merging, merge>>
      BY <2>2 DEF everything, calibrationOwn
    <3>2. QED  BY <3>1, MetadataWritten DEF Calibration!IInv, Calibration!Types
  <2>3. QED  BY <2>1, <2>2 DEF PipelineNext
<1>3. QED  BY <1>1, <1>2, PTL DEF PipelineSpec

\* As long as no two calibrations of a cell are live at a time, a merge takes the
\* rows and the traces of every cell from one run, whoever calibrates, recovers,
\* edits or dies while it reads.
THEOREM MergeReadsOneRunHolds == PipelineSpec => []MergeReadsOneRun
<1>1. (part = "calibration" => Calibration!IInv) => MergeReadsOneRun
  BY DEF Calibration!IInv, Calibration!OneRun, MergeReadsOneRun, Calibration!MergeReadsOneRun
<1>2. QED  BY <1>1, CalibrationInvariant, PTL

-----------------------------------------------------------------------------
(* ProtocolRPipeline.                                                        *)

LEMMA ProtocolRInit == ProtocolR!Init => ProtocolR!IInv
<1> SUFFICES ASSUME ProtocolR!Init PROVE ProtocolR!IInv
  OBVIOUS
<1> USE DEF ProtocolR!Init
<1>1. ProtocolR!Types
  BY DEF ProtocolR!Types, ProtocolR!States, ProtocolR!Stages, ProtocolR!Packed
<1>2. ProtocolR!OneWriter
  BY DEF ProtocolR!OneWriter
<1>3. ProtocolR!GatesBehind
  BY DEF ProtocolR!GatesBehind
<1>4. ProtocolR!DevelopmentOfTheGate
  BY DEF ProtocolR!DevelopmentOfTheGate, ProtocolR!Packed, ProtocolR!Absent
<1>5. ProtocolR!Finalized
  BY DEF ProtocolR!Finalized, ProtocolR!NoGate
<1>6. QED  BY <1>1, <1>2, <1>3, <1>4, <1>5 DEF ProtocolR!IInv

\* Where a chain is when a stage of it runs, and that nobody else is past the
\* corpus then.
LEMMA RunningAt ==
  ASSUME ProtocolR!IInv, NEW h \in Chains, NEW stage, ProtocolR!Running(h, stage)
  PROVE  /\ chain[h].state = "submitted" /\ chain[h].at \in 1..9
         /\ stage = "preflight" <=> chain[h].at = 1
         /\ stage = "generate" <=> chain[h].at = 2
         /\ stage = "profile" <=> chain[h].at = 3
         /\ stage = "profile_gate" <=> chain[h].at = 4
         /\ stage = "calibration" <=> chain[h].at = 5
         /\ stage = "train_gate" <=> chain[h].at = 6
         /\ stage = "smoke" <=> chain[h].at = 7
         /\ stage = "development" <=> chain[h].at = 8
         /\ stage = "finalize" <=> chain[h].at = 9
         /\ chain[h].at > 2 => \A k \in Chains \ {h} : chain[k].at <= 2
<1> USE DEF ProtocolR!IInv, ProtocolR!Running
<1>1. chain[h].state = "submitted" /\ chain[h].at \in 1..9
  BY DEF ProtocolR!Types, ProtocolR!Stages
<1>2. chain[h].at > 2 => \A k \in Chains \ {h} : chain[k].at <= 2
  BY DEF ProtocolR!OneWriter, ProtocolR!Types, ProtocolR!Stages
<1>3. stage = ProtocolR!Stages[chain[h].at]
  OBVIOUS
<1>4. QED  BY <1>1, <1>2, <1>3 DEF ProtocolR!Stages

\* A chain that moves without a file, over none of the stages that leave one.
MovesWithoutFile(h) ==
  /\ chain' \in [Chains -> [state : ProtocolR!States, at : 0..9]]
  /\ \A k \in Chains \ {h} : chain'[k] = chain[k]
  /\ chain[h].state # "ended"
  /\ chain'[h].state \in {"none", "checked"} <=> chain'[h].at = 0
  /\ chain[h].at <= chain'[h].at
  /\ \A t \in {2, 4, 6, 7} : chain'[h].at > t => chain[h].at > t
  /\ UNCHANGED <<corpus, shards, gates, writers, developed>>

LEMMA MovesOn ==
  ASSUME ProtocolR!IInv, NEW h \in Chains, MovesWithoutFile(h)
  PROVE  ProtocolR!IInv'
<1> USE DEF ProtocolR!IInv, MovesWithoutFile
<1>1. ProtocolR!Types'
  BY DEF ProtocolR!Types, ProtocolR!Stages
<1>2. \A k \in Chains : /\ chain[k].at \in 0..9 /\ chain'[k].at \in 0..9
                        /\ chain[k].at <= chain'[k].at
                        /\ \A t \in {2, 4, 6, 7} : chain'[k].at > t <=> chain[k].at > t
                        /\ chain[k].state = "ended" => chain'[k] = chain[k]
  BY DEF ProtocolR!Types, ProtocolR!Stages
<1>3. ProtocolR!OneWriter'
  BY <1>2 DEF ProtocolR!OneWriter
<1>4. ProtocolR!GatesBehind'
  BY <1>2 DEF ProtocolR!GatesBehind, ProtocolR!CalibrationOfOneSource
<1>5. ProtocolR!DevelopmentOfTheGate'
  BY <1>2 DEF ProtocolR!DevelopmentOfTheGate, ProtocolR!Developing
<1>6. ProtocolR!Finalized'
  BY <1>2 DEF ProtocolR!Finalized
<1>7. QED  BY <1>1, <1>3, <1>4, <1>5, <1>6

\* Where a stage leaves its chain: one stage on, at the end of all, or held.
Onward(h) ==
  /\ chain' \in [Chains -> [state : ProtocolR!States, at : 0..9]]
  /\ \A k \in Chains \ {h} : chain'[k] = chain[k]
  /\ chain'[h].at = IF chain[h].at = 9 THEN 9 ELSE chain[h].at + 1
  /\ chain'[h].state = IF chain[h].at = 9 THEN "ended" ELSE "submitted"
Stays(h) ==
  /\ chain' \in [Chains -> [state : ProtocolR!States, at : 0..9]]
  /\ \A k \in Chains \ {h} : chain'[k] = chain[k]
  /\ chain'[h].at = chain[h].at /\ chain'[h].state = "held"

LEMMA StageEnds ==
  ASSUME ProtocolR!IInv, NEW h \in Chains, chain[h].state = "submitted"
  PROVE  /\ ProtocolR!Succeed(h) => Onward(h)
         /\ ProtocolR!Hold(h) => Stays(h)
<1>1. /\ chain \in [Chains -> [state : ProtocolR!States, at : 0..9]]
      /\ chain[h] \in [state : ProtocolR!States, at : 0..9]
      /\ Len(ProtocolR!Stages) = 9
  BY DEF ProtocolR!IInv, ProtocolR!Types, ProtocolR!Stages
<1>2. chain[h].at \in 1..9
  BY <1>1 DEF ProtocolR!IInv, ProtocolR!Types
<1>3. "ended" \in ProtocolR!States /\ "submitted" \in ProtocolR!States /\ "held" \in ProtocolR!States
  BY DEF ProtocolR!States
<1>4. ASSUME ProtocolR!Succeed(h) PROVE Onward(h)
  <2>1. CASE chain[h].at = 9
    BY <1>1, <1>3, <1>4, <2>1 DEF ProtocolR!Succeed, Onward
  <2>2. CASE chain[h].at # 9
    BY <1>1, <1>2, <1>4, <2>2 DEF ProtocolR!Succeed, Onward
  <2>3. QED  BY <2>1, <2>2
<1>5. ASSUME ProtocolR!Hold(h) PROVE Stays(h)
  BY <1>1, <1>3, <1>5 DEF ProtocolR!Hold, Stays
<1>6. QED  BY <1>4, <1>5

LEMMA ChainStep ==
  ASSUME ProtocolR!IInv, NEW h \in Chains,
         \/ ProtocolR!SubmitCheck(h) \/ ProtocolR!Submit(h) \/ ProtocolR!StageFails(h)
         \/ ProtocolR!Cancel(h) \/ ProtocolR!preflight(h)
         \/ \E stage \in ProtocolR!Packed : ProtocolR!PackedEnds(h, stage)
  PROVE  ProtocolR!IInv'
<1>0. /\ chain[h] \in [state : ProtocolR!States, at : 0..9]
      /\ chain[h].state \in {"none", "checked"} <=> chain[h].at = 0
      /\ chain \in [Chains -> [state : ProtocolR!States, at : 0..9]]
  BY DEF ProtocolR!IInv, ProtocolR!Types, ProtocolR!Stages
<1> USE <1>0 DEF ProtocolR!files, ProtocolR!States
<1>1. CASE ProtocolR!SubmitCheck(h)
  BY <1>1, MovesOn DEF ProtocolR!SubmitCheck, MovesWithoutFile
<1>2. CASE ProtocolR!Submit(h)
  BY <1>2, MovesOn DEF ProtocolR!Submit, MovesWithoutFile
<1>3. CASE ProtocolR!StageFails(h)
  BY <1>3, MovesOn DEF ProtocolR!StageFails, ProtocolR!Hold, MovesWithoutFile
<1>4. CASE ProtocolR!Cancel(h)
  BY <1>4, MovesOn DEF ProtocolR!Cancel, MovesWithoutFile
<1>5. CASE ProtocolR!preflight(h)
  <2>1. chain[h].at = 1 /\ chain[h].state = "submitted"
    BY <1>5, RunningAt DEF ProtocolR!preflight
  <2>2. Onward(h) /\ UNCHANGED <<corpus, shards, gates, writers, developed>>
    BY <1>5, <2>1, StageEnds DEF ProtocolR!preflight
  <2>3. MovesWithoutFile(h)
    BY <2>1, <2>2 DEF Onward, MovesWithoutFile
  <2>4. QED  BY <2>3, MovesOn
<1>6. ASSUME NEW stage \in ProtocolR!Packed, ProtocolR!PackedEnds(h, stage)
      PROVE  ProtocolR!IInv'
  <2>1. chain[h].at \in {3, 5, 8} /\ chain[h].state = "submitted"
    BY <1>6, RunningAt DEF ProtocolR!PackedEnds, ProtocolR!Packed
  <2>2. Onward(h) \/ Stays(h)
    BY <1>6, <2>1, StageEnds DEF ProtocolR!PackedEnds
  <2>3. UNCHANGED <<corpus, shards, gates, writers, developed>>
    BY <1>6 DEF ProtocolR!PackedEnds
  <2>4. MovesWithoutFile(h)
    BY <2>1, <2>2, <2>3 DEF Onward, Stays, MovesWithoutFile
  <2>5. QED  BY <2>4, MovesOn
<1>7. QED  BY <1>1, <1>2, <1>3, <1>4, <1>5, <1>6

\* mkdir lets one chain write, and only that chain goes on when the manifest is there.
LEMMA GenerateStep ==
  ASSUME ProtocolR!IInv, NEW h \in Chains,
         ProtocolR!GenerateMkdir(h) \/ ProtocolR!generate_protocol_r_data(h)
  PROVE  ProtocolR!IInv'
<1> USE DEF ProtocolR!IInv
<1>1. CASE ProtocolR!GenerateMkdir(h)
  <2>1. ProtocolR!Types' /\ ProtocolR!GatesBehind' /\ ProtocolR!Finalized'
        /\ ProtocolR!DevelopmentOfTheGate'
    BY <1>1
       DEF ProtocolR!GenerateMkdir, ProtocolR!Types, ProtocolR!GatesBehind, ProtocolR!Finalized,
           ProtocolR!CalibrationOfOneSource, ProtocolR!DevelopmentOfTheGate, ProtocolR!Developing
  <2>2. ProtocolR!OneWriter'
    BY <1>1 DEF ProtocolR!GenerateMkdir, ProtocolR!OneWriter
  <2>3. QED  BY <2>1, <2>2
<1>2. CASE ProtocolR!generate_protocol_r_data(h)
  <2>1. /\ chain[h].at = 2 /\ chain[h].state = "submitted" /\ h \in writers
        /\ corpus' = "manifest" /\ corpus # "none"
        /\ UNCHANGED <<shards, gates, writers, developed>>
    BY <1>2, RunningAt DEF ProtocolR!generate_protocol_r_data
  <2>2. Onward(h)
    BY <1>2, <2>1, StageEnds DEF ProtocolR!generate_protocol_r_data
  <2>3. ProtocolR!Types'
    BY <2>1, <2>2 DEF Onward, ProtocolR!Types, ProtocolR!Stages
  <2>4. \A k \in Chains : k # h => chain'[k] = chain[k]
    BY <2>2 DEF Onward
  <2>5. chain'[h].at = 3
    BY <2>1, <2>2 DEF Onward
  <2>6. ProtocolR!OneWriter'
    BY <2>1, <2>4, <2>5 DEF ProtocolR!OneWriter
  <2>7. ProtocolR!GatesBehind'
    BY <2>1, <2>4, <2>5 DEF ProtocolR!GatesBehind, ProtocolR!CalibrationOfOneSource
  <2>8. ProtocolR!Developing' = ProtocolR!Developing
    BY <2>1, <2>4, <2>5 DEF ProtocolR!Developing
  <2>9. ProtocolR!DevelopmentOfTheGate'
    BY <2>1, <2>8 DEF ProtocolR!DevelopmentOfTheGate
  <2>10. ProtocolR!Finalized'
    BY <2>1, <2>4 DEF ProtocolR!Finalized, ProtocolR!Stages
  <2>11. QED  BY <2>3, <2>6, <2>7, <2>9, <2>10
<1>3. QED  BY <1>1, <1>2

\* A worker writes only while its chain is at the stage: no gate of a later one
\* has been passed on the file.
LEMMA WorkerStep ==
  ASSUME ProtocolR!IInv, NEW h \in Chains, NEW stage \in ProtocolR!Packed, NEW c \in CellNames,
         \/ ProtocolR!WorkerStarts(h, stage, c) \/ ProtocolR!WorkerWrites(h, stage, c)
         \/ ProtocolR!WorkerFails(h, stage, c)
  PROVE  ProtocolR!IInv'
<1> USE DEF ProtocolR!IInv
<1>1. ProtocolR!Running(h, stage)
  BY DEF ProtocolR!WorkerStarts, ProtocolR!WorkerWrites, ProtocolR!WorkerFails
<1>2. /\ UNCHANGED <<chain, corpus, gates, writers>>
  BY DEF ProtocolR!WorkerStarts, ProtocolR!WorkerWrites, ProtocolR!WorkerFails, ProtocolR!files
<1>3. /\ chain[h].state = "submitted" /\ chain[h].at \in {3, 5, 8}
      /\ \A k \in Chains \ {h} : chain[k].at <= 2
      /\ \A k \in Chains : chain[k].at \in 0..9
  BY <1>1, RunningAt DEF ProtocolR!Packed, ProtocolR!Types, ProtocolR!Stages
<1>4. /\ stage = "profile" <=> chain[h].at = 3
      /\ stage = "calibration" <=> chain[h].at = 5
      /\ stage = "development" <=> chain[h].at = 8
  BY <1>1, RunningAt
<1>5. developed' \subseteq ProtocolR!Developing
  BY <1>3, <1>4 DEF ProtocolR!WorkerStarts, ProtocolR!WorkerWrites, ProtocolR!WorkerFails,
      ProtocolR!DevelopmentOfTheGate, ProtocolR!Developing
<1>6. /\ DOMAIN shards' = ProtocolR!Packed
      /\ \A s \in ProtocolR!Packed : DOMAIN shards'[s] = CellNames
      /\ \A s \in ProtocolR!Packed \ {stage} : shards'[s] = shards[s]
  BY DEF ProtocolR!WorkerStarts, ProtocolR!WorkerWrites, ProtocolR!WorkerFails, ProtocolR!files,
         ProtocolR!Types
<1>7. ProtocolR!Types' /\ ProtocolR!OneWriter'
  BY <1>2, <1>6 DEF ProtocolR!Types, ProtocolR!OneWriter
<1>8. ProtocolR!GatesBehind'
  BY <1>2, <1>3, <1>4, <1>6
     DEF ProtocolR!GatesBehind, ProtocolR!CalibrationOfOneSource, ProtocolR!Packed
<1>9. ProtocolR!Finalized'
  BY <1>2, <1>3 DEF ProtocolR!Finalized, ProtocolR!Stages
<1>10. ProtocolR!DevelopmentOfTheGate'
  <2> DEFINE dev == shards["development"]
  <2>1. ProtocolR!Developing' = ProtocolR!Developing
    BY <1>2 DEF ProtocolR!Developing
  <2>2. \A d \in CellNames : 
          \/ dev'[d] = dev[d]
          \/ /\ ProtocolR!Developing # {}
             /\ dev'[d].text = "complete" => dev'[d].operator = gates["train_gate"].operator
    <3>1. CASE stage # "development"
      BY <1>6, <3>1 DEF ProtocolR!Packed
    <3>2. CASE stage = "development"
      <4>1. h \in ProtocolR!Developing
        BY <1>3, <1>4, <3>2 DEF ProtocolR!Developing
      <4>2. \/ UNCHANGED shards
            \/ \E shard2 \in ProtocolR!Rows("development", loaded[h][c]) \cup {ProtocolR!Torn} :
                 shards' = [shards EXCEPT !["development"][c] = shard2]
        BY <3>2 DEF ProtocolR!WorkerStarts, ProtocolR!WorkerWrites, ProtocolR!WorkerFails,
                    ProtocolR!files
      <4>3. \A s \in ProtocolR!Rows("development", loaded[h][c]) :
              s.operator = gates["train_gate"].operator
        BY DEF ProtocolR!Rows, ProtocolR!development_cell, ProtocolR!Shard
      <4>4. ProtocolR!Torn.text # "complete"
        BY DEF ProtocolR!Torn
      <4>5. CASE UNCHANGED shards
        BY <4>5
      <4>6. ASSUME NEW s, s.text = "complete" => s.operator = gates["train_gate"].operator,
                   shards' = [shards EXCEPT !["development"][c] = s]
            PROVE  \A d \in CellNames : dev'[d] = dev[d] \/
                     (dev'[d].text = "complete" => dev'[d].operator = gates["train_gate"].operator)
        BY <4>6 DEF ProtocolR!Types, ProtocolR!Packed
      <4>7. QED  BY <4>1, <4>2, <4>3, <4>4, <4>5, <4>6
    <3>3. QED  BY <3>1, <3>2
  <2>3. QED  BY <1>2, <1>5, <2>1, <2>2 DEF ProtocolR!DevelopmentOfTheGate
<1>11. QED  BY <1>7, <1>8, <1>9, <1>10

\* Before a smoke run nobody develops and nothing is final.
LEMMA NobodyDevelops ==
  ASSUME ProtocolR!IInv, \A k \in Chains : chain[k].at <= 7
  PROVE  /\ developed = {} /\ ~gates["finalize"].passed
         /\ \A c \in CellNames : shards["development"][c].text # "complete"
<1>1. \A k \in Chains : chain[k].at \in 0..9
  BY DEF ProtocolR!IInv, ProtocolR!Types, ProtocolR!Stages
<1>2. ProtocolR!Developing = {}
  BY <1>1 DEF ProtocolR!Developing
<1>3. ~\E k \in Chains : chain[k] = [state |-> "ended", at |-> 9]
  <2>1. ASSUME NEW k \in Chains, chain[k] = [state |-> "ended", at |-> 9] PROVE FALSE
    <3>1. chain[k].at = 9
      BY <2>1
    <3>2. QED  BY <3>1
  <2>2. QED  BY <2>1
<1>4. QED
  BY <1>2, <1>3
     DEF ProtocolR!IInv, ProtocolR!DevelopmentOfTheGate, ProtocolR!Finalized, ProtocolR!Stages

\* A gate that passes lets its chain on; one that fails holds it.
LEMMA GateWritten ==
  ASSUME ProtocolR!IInv, NEW h \in Chains, chain[h].state = "submitted", NEW verdict,
         NEW g \in {"profile_gate", "train_gate", "finalize"}, ProtocolR!WriteGate(h, g, verdict)
  PROVE  /\ IF verdict.passed THEN Onward(h) ELSE Stays(h)
         /\ gates'[g] = verdict
         /\ \A f \in {"profile_gate", "train_gate", "smoke", "finalize"} \ {g} : gates'[f] = gates[f]
         /\ UNCHANGED <<corpus, shards, writers, developed>>
         /\ ProtocolR!Types'
<1>1. IF verdict.passed THEN Onward(h) ELSE Stays(h)
  BY StageEnds DEF ProtocolR!WriteGate
<1>2. gates' = [gates EXCEPT ![g] = verdict] /\ UNCHANGED <<corpus, shards, writers, developed>>
  BY DEF ProtocolR!WriteGate
<1>3. DOMAIN gates = {"profile_gate", "train_gate", "smoke", "finalize"}
  BY DEF ProtocolR!IInv, ProtocolR!Types
<1>4. ProtocolR!Types'
  <2>1. Onward(h) \/ Stays(h)
    BY <1>1
  <2>2. /\ chain[h].at \in 0..9 /\ chain[h].at # 0
        /\ \A k \in Chains : chain[k].state \in {"none", "checked"} <=> chain[k].at = 0
    BY DEF ProtocolR!IInv, ProtocolR!Types, ProtocolR!Stages
  <2>3. \A k \in Chains : chain'[k].state \in {"none", "checked"} <=> chain'[k].at = 0
    BY <2>1, <2>2 DEF Onward, Stays
  <2>4. QED
    BY <1>2, <1>3, <2>1, <2>3
       DEF ProtocolR!IInv, ProtocolR!Types, ProtocolR!Stages, Onward, Stays
<1>5. QED  BY <1>1, <1>2, <1>3, <1>4

\* The only chain past the corpus stays the only one.
LEMMA StillOneWriter ==
  ASSUME ProtocolR!IInv, NEW h \in Chains, chain[h].at > 2, chain[h].at \in 0..9,
         Onward(h) \/ Stays(h), UNCHANGED <<corpus, writers>>
  PROVE  ProtocolR!OneWriter'
  BY DEF ProtocolR!IInv, ProtocolR!OneWriter, Onward, Stays

\* A verdict of merge_profile or of merge_train_gate, nobody being further on.
LEMMA EarlyGateWritten ==
  ASSUME ProtocolR!IInv, NEW h \in Chains, chain[h].state = "submitted",
         \A k \in Chains \ {h} : chain[k].at <= 2,
         NEW verdict, NEW g \in {"profile_gate", "train_gate"},
         ProtocolR!WriteGate(h, g, verdict),
         chain[h].at = IF g = "profile_gate" THEN 4 ELSE 6,
         g = "train_gate" => ProtocolR!CalibrationOfOneSource
  PROVE  ProtocolR!IInv'
<1>1. chain[h].at \in {4, 6}
  OBVIOUS
<1>2. \A k \in Chains : chain[k].at \in 0..9 /\ chain[k].at <= 7
  BY <1>1 DEF ProtocolR!IInv, ProtocolR!Types, ProtocolR!Stages
<1>4. /\ IF verdict.passed THEN Onward(h) ELSE Stays(h)
      /\ gates'[g] = verdict
      /\ \A f \in {"profile_gate", "train_gate", "smoke", "finalize"} \ {g} : gates'[f] = gates[f]
      /\ UNCHANGED <<corpus, shards, writers, developed>>
      /\ ProtocolR!Types'
  BY GateWritten
<1>5. ProtocolR!OneWriter'
  BY <1>1, <1>4, StillOneWriter
<1>6. /\ \A k \in Chains \ {h} : chain'[k].at <= 2 /\ chain'[k].at \in 0..9
      /\ chain'[h].at \in 0..9 /\ chain'[h].at <= 7
      /\ chain'[h].at = IF verdict.passed THEN chain[h].at + 1 ELSE chain[h].at
  BY <1>1, <1>2, <1>4 DEF Onward, Stays
<1>7. ProtocolR!GatesBehind'
  <2>1. /\ chain'[h].at > 4 => gates'["profile_gate"].passed
        /\ chain'[h].at > 6 => gates'["train_gate"].passed /\ ProtocolR!CalibrationOfOneSource
    BY <1>1, <1>4, <1>6 DEF ProtocolR!IInv, ProtocolR!GatesBehind
  <2>2. ProtocolR!CalibrationOfOneSource' <=> ProtocolR!CalibrationOfOneSource
    BY <1>4 DEF ProtocolR!CalibrationOfOneSource
  <2>3. QED  BY <1>6, <2>1, <2>2 DEF ProtocolR!GatesBehind
<1>8. ProtocolR!DevelopmentOfTheGate' /\ ProtocolR!Finalized'
  BY <1>2, <1>4, NobodyDevelops DEF ProtocolR!DevelopmentOfTheGate, ProtocolR!Finalized
<1>9. QED  BY <1>4, <1>5, <1>7, <1>8 DEF ProtocolR!IInv

LEMMA EarlyGateStep ==
  ASSUME ProtocolR!IInv, NEW h \in Chains, ProtocolR!merge_profile(h) \/ ProtocolR!merge_train_gate(h)
  PROVE  ProtocolR!IInv'
<1>1. CASE ProtocolR!merge_profile(h)
  <2>1. chain[h].state = "submitted" /\ chain[h].at = 4 /\ \A k \in Chains \ {h} : chain[k].at <= 2
    BY <1>1, RunningAt DEF ProtocolR!merge_profile
  <2>2. PICK verdict : ProtocolR!WriteGate(h, "profile_gate", verdict)
    BY <1>1 DEF ProtocolR!merge_profile
  <2>3. QED  BY <2>1, <2>2, EarlyGateWritten
<1>2. CASE ProtocolR!merge_train_gate(h)
  <2>1. chain[h].state = "submitted" /\ chain[h].at = 6 /\ \A k \in Chains \ {h} : chain[k].at <= 2
    BY <1>2, RunningAt DEF ProtocolR!merge_train_gate
  <2>2. PICK verdict : ProtocolR!WriteGate(h, "train_gate", verdict)
    BY <1>2 DEF ProtocolR!merge_train_gate
  <2>3. ProtocolR!CalibrationOfOneSource
    BY <1>2 DEF ProtocolR!merge_train_gate, ProtocolR!Sound,
                ProtocolR!deterministic_merge_shards, ProtocolR!CalibrationOfOneSource
  <2>4. QED  BY <2>1, <2>2, <2>3, EarlyGateWritten
<1>3. QED  BY <1>1, <1>2

LEMMA SmokeStep == ASSUME ProtocolR!IInv, NEW h \in Chains, ProtocolR!smoke(h) PROVE ProtocolR!IInv'
<1>1. /\ chain[h].state = "submitted" /\ chain[h].at = 7
      /\ \A k \in Chains \ {h} : chain[k].at <= 2
  BY RunningAt DEF ProtocolR!smoke
<1>2. \A k \in Chains : chain[k].at \in 0..9 /\ chain[k].at <= 7
  BY <1>1 DEF ProtocolR!IInv, ProtocolR!Types, ProtocolR!Stages
<1>3. Onward(h) /\ UNCHANGED <<corpus, shards, writers>> /\ developed' = developed \union {h}
      /\ gates' = [gates EXCEPT !["smoke"] = [passed |-> TRUE]]
  BY <1>1, StageEnds DEF ProtocolR!smoke
<1>4. /\ \A f \in {"profile_gate", "train_gate", "finalize"} : gates'[f] = gates[f]
      /\ DOMAIN gates' = DOMAIN gates
  BY <1>3 DEF ProtocolR!IInv, ProtocolR!Types
<1>5. chain'[h].at = 8 /\ chain'[h].state = "submitted"
      /\ \A k \in Chains \ {h} : chain'[k] = chain[k]
  BY <1>1, <1>3 DEF Onward
<1>6. ProtocolR!Types'
  BY <1>3, <1>4, <1>5 DEF ProtocolR!IInv, ProtocolR!Types, ProtocolR!Stages, Onward
<1>7. ProtocolR!OneWriter'
  BY <1>1, <1>3, StillOneWriter
<1>8. ProtocolR!GatesBehind'
  <2>1. /\ gates'["profile_gate"].passed
        /\ gates'["train_gate"].passed /\ ProtocolR!CalibrationOfOneSource
    BY <1>1, <1>4 DEF ProtocolR!IInv, ProtocolR!GatesBehind, ProtocolR!smoke
  <2>2. QED
    BY <1>1, <1>2, <1>3, <1>5, <2>1 DEF ProtocolR!GatesBehind, ProtocolR!CalibrationOfOneSource
<1>9. ProtocolR!DevelopmentOfTheGate' /\ ProtocolR!Finalized'
  <2>1. h \in ProtocolR!Developing'
    BY <1>5 DEF ProtocolR!Developing
  <2>2. QED
    BY <1>2, <1>3, <1>4, <2>1, NobodyDevelops
       DEF ProtocolR!DevelopmentOfTheGate, ProtocolR!Finalized
<1>10. QED  BY <1>6, <1>7, <1>8, <1>9 DEF ProtocolR!IInv

\* The result is written when every development shard is whole, and so steered by
\* the gate's operator.
LEMMA FinalizeStep ==
  ASSUME ProtocolR!IInv, NEW h \in Chains, ProtocolR!finalize(h) PROVE ProtocolR!IInv'
<1>1. /\ chain[h].state = "submitted" /\ chain[h].at = 9
      /\ \A k \in Chains \ {h} : chain[k].at <= 2
  BY RunningAt DEF ProtocolR!finalize
<1> DEFINE verdict == [passed |-> ProtocolR!validate_trace_matrix("development")]
<1>2. /\ IF verdict.passed THEN Onward(h) ELSE Stays(h)
      /\ gates'["finalize"] = verdict
      /\ \A f \in {"profile_gate", "train_gate", "smoke"} : gates'[f] = gates[f]
      /\ UNCHANGED <<corpus, shards, writers, developed>>
      /\ ProtocolR!Types'
  BY <1>1, GateWritten DEF ProtocolR!finalize
<1>3. /\ \A k \in Chains \ {h} : chain'[k] = chain[k]
      /\ chain'[h].at = 9 /\ (verdict.passed => chain'[h].state = "ended")
  BY <1>1, <1>2 DEF Onward, Stays
<1>4. ProtocolR!OneWriter'
  BY <1>1, <1>2, StillOneWriter
<1>5. ProtocolR!GatesBehind'
  BY <1>1, <1>2, <1>3
     DEF ProtocolR!IInv, ProtocolR!GatesBehind, ProtocolR!CalibrationOfOneSource
<1>6. ProtocolR!DevelopmentOfTheGate'
  <2>1. \A k \in Chains : chain'[k].at = chain[k].at
    BY <1>1, <1>3
  <2>2. QED
    BY <1>2, <2>1 DEF ProtocolR!IInv, ProtocolR!DevelopmentOfTheGate, ProtocolR!Developing
<1>7. ProtocolR!Finalized'
  <2>1. CASE verdict.passed
    <3>1. chain'[h] = [state |-> "ended", at |-> 9]
      BY <1>2, <1>3, <2>1 DEF ProtocolR!Types
    <3>2. \A c, d \in CellNames :
            /\ shards["development"][c].exact
            /\ shards["development"][c].source = shards["development"][d].source
            /\ shards["development"][c].operator = gates["train_gate"].operator
      BY <2>1
         DEF ProtocolR!finalize, ProtocolR!deterministic_merge_shards, ProtocolR!Sound,
             ProtocolR!validate_trace_matrix, ProtocolR!IInv, ProtocolR!DevelopmentOfTheGate
    <3>3. QED  BY <1>2, <3>1, <3>2 DEF ProtocolR!Finalized, ProtocolR!Stages
  <2>2. CASE ~verdict.passed
    BY <1>2, <2>2 DEF ProtocolR!Finalized
  <2>3. QED  BY <2>1, <2>2
<1>8. QED  BY <1>2, <1>4, <1>5, <1>6, <1>7 DEF ProtocolR!IInv

\* A step that touches none of this.
LEMMA Untouched ==
  ASSUME ProtocolR!IInv, UNCHANGED <<chain, corpus, shards, gates, writers, developed>>
  PROVE  ProtocolR!IInv'
  BY DEF ProtocolR!IInv, ProtocolR!Types, ProtocolR!OneWriter, ProtocolR!GatesBehind,
         ProtocolR!CalibrationOfOneSource, ProtocolR!DevelopmentOfTheGate, ProtocolR!Developing,
         ProtocolR!Finalized

LEMMA ProtocolRStep == ASSUME ProtocolR!IInv, ProtocolR!Next PROVE ProtocolR!IInv'
<1>1. CASE ProtocolR!Freeze \/ ProtocolR!Edit
  BY <1>1, Untouched DEF ProtocolR!Freeze, ProtocolR!Edit, ProtocolR!files
<1>2. ASSUME NEW h \in Chains,
             \/ ProtocolR!SubmitCheck(h) \/ ProtocolR!Submit(h) \/ ProtocolR!StageFails(h)
             \/ ProtocolR!Cancel(h) \/ ProtocolR!preflight(h)
             \/ \E stage \in ProtocolR!Packed : ProtocolR!PackedEnds(h, stage)
      PROVE  ProtocolR!IInv'
  BY <1>2, ChainStep
<1>3. ASSUME NEW h \in Chains,
             \/ ProtocolR!GenerateMkdir(h) \/ ProtocolR!generate_protocol_r_data(h)
             \/ ProtocolR!merge_profile(h) \/ ProtocolR!merge_train_gate(h)
             \/ ProtocolR!smoke(h) \/ ProtocolR!finalize(h)
      PROVE  ProtocolR!IInv'
  BY <1>3, GenerateStep, EarlyGateStep, SmokeStep, FinalizeStep
<1>4. ASSUME NEW h \in Chains, NEW stage \in ProtocolR!Packed, NEW c \in CellNames,
             \/ ProtocolR!WorkerStarts(h, stage, c) \/ ProtocolR!WorkerWrites(h, stage, c)
             \/ ProtocolR!WorkerFails(h, stage, c)
      PROVE  ProtocolR!IInv'
  BY <1>4, WorkerStep
<1>5. QED  BY <1>1, <1>2, <1>3, <1>4 DEF ProtocolR!Next

LEMMA ProtocolRInvariant == PipelineSpec => [](part = "protocol_r" => ProtocolR!IInv)
<1>1. PipelineInit => (part = "protocol_r" => ProtocolR!IInv)
  BY ProtocolRInit DEF PipelineInit
<1>2. (part = "protocol_r" => ProtocolR!IInv) /\ [PipelineNext]_everything
        => (part = "protocol_r" => ProtocolR!IInv)'
  <2> SUFFICES ASSUME part = "protocol_r", part' = "protocol_r", ProtocolR!IInv,
                      [PipelineNext]_everything
               PROVE  ProtocolR!IInv'
    BY DEF PipelineNext, everything
  <2>1. CASE ProtocolR!Next  BY <2>1, ProtocolRStep
  <2>2. CASE UNCHANGED everything
    BY <2>2, Untouched DEF everything, protocolROwn
  <2>3. QED  BY <2>1, <2>2 DEF PipelineNext
<1>3. QED  BY <1>1, <1>2, PTL DEF PipelineSpec

\* Whatever chains are submitted, held, cancelled and killed, at most one gets past
\* the one-shot corpus, and only its own stages write what comes after.
THEOREM OneChainPastCorpusHolds == PipelineSpec => []OneChainPastCorpus
<1>1. ProtocolR!OneWriter => ProtocolR!OneChainPastCorpus
  <2> SUFFICES ASSUME ProtocolR!OneWriter PROVE ProtocolR!OneChainPastCorpus
    OBVIOUS
  <2>1. Cardinality(writers) <= 1
    <3>1. CASE writers = {}
      BY <3>1, FS_EmptySet
    <3>2. CASE writers # {}
      <4>1. PICK h : writers = {h}
        BY <3>2 DEF ProtocolR!OneWriter
      <4>2. Cardinality({h}) = 1
        BY FS_Singleton
      <4>3. QED  BY <4>1, <4>2
    <3>3. QED  BY <3>1, <3>2
  <2>2. Cardinality(writers) = ProtocolR!Cardinality(writers)
    BY DEF Cardinality, ProtocolR!Cardinality
  <2>3. QED  BY <2>1, <2>2 DEF ProtocolR!OneWriter, ProtocolR!OneChainPastCorpus
<1>2. (part = "protocol_r" => ProtocolR!IInv) => OneChainPastCorpus
  BY <1>1 DEF ProtocolR!IInv, OneChainPastCorpus
<1>3. QED  BY <1>2, ProtocolRInvariant, PTL

\* Development data is read only behind both gates, and a passed result stands on
\* whole development shards of one source, steered by the gate's operator.
THEOREM FinalRestsOnGatesHolds == PipelineSpec => []FinalRestsOnGates
<1>1. ProtocolR!IInv => ProtocolR!FinalRestsOnGates
  <2> SUFFICES ASSUME ProtocolR!IInv PROVE ProtocolR!FinalRestsOnGates
    OBVIOUS
  <2> USE DEF ProtocolR!IInv
  <2>1. ASSUME developed # {}
        PROVE  gates["profile_gate"].passed /\ gates["train_gate"].passed
               /\ ProtocolR!CalibrationOfOneSource
    <3>1. PICK h \in Chains : chain[h].at > 7
      BY <2>1 DEF ProtocolR!DevelopmentOfTheGate, ProtocolR!Developing
    <3>2. chain[h].at \in Nat
      BY <3>1 DEF ProtocolR!Types, ProtocolR!Stages
    <3>3. QED  BY <3>1, <3>2 DEF ProtocolR!GatesBehind
  <2>2. QED
    BY <2>1 DEF ProtocolR!FinalRestsOnGates, ProtocolR!Finalized, ProtocolR!CalibrationOfOneSource
<1>2. (part = "protocol_r" => ProtocolR!IInv) => FinalRestsOnGates
  BY <1>1 DEF FinalRestsOnGates
<1>3. QED  BY <1>2, ProtocolRInvariant, PTL

-----------------------------------------------------------------------------
(* BaselineDevelopment.                                                      *)

LEMMA BaselineInit == Baseline!Init => Baseline!IInv
<1> SUFFICES ASSUME Baseline!Init PROVE Baseline!IInv
  OBVIOUS
<1> USE DEF Baseline!Init
<1>1. Baseline!Types
  BY BaselineConstants
     DEF Baseline!BoundAssumption, Baseline!Types, Baseline!Unread, Baseline!Absent
<1>2. Baseline!LaunchedWithoutRecord /\ Baseline!WrittenByLaunch
  BY DEF Baseline!LaunchedWithoutRecord, Baseline!WrittenByLaunch
<1>3. Baseline!RecordOfOneLaunch
  BY DEF Baseline!RecordOfOneLaunch, Baseline!Unread, Baseline!Absent, Baseline!Kinds
<1>4. Baseline!SummaryReadsWholeShards
  BY DEF Baseline!SummaryReadsWholeShards
<1>5. QED  BY <1>1, <1>2, <1>3, <1>4 DEF Baseline!IInv

\* A launch that moves without a file, nobody being let in where a record is.
LEMMA BaselineMoves ==
  ASSUME Baseline!IInv, NEW c \in CellNames, UNCHANGED <<file, summary>>, DOMAIN pc' = CellNames,
         launched' \in [CellNames -> 0..MaxLaunches],
         \A d \in CellNames \ {c} : pc'[d] = pc[d] /\ launched'[d] = launched[d],
         pc'[c] \in {"idle", "launched", "selected", "searched"},
         pc'[c] # "idle" => launched'[c] > 0 /\ file[c]["record"].part = "none"
  PROVE  Baseline!IInv'
<1> USE DEF Baseline!IInv
<1>1. Baseline!Types'
  BY DEF Baseline!Types
<1>2. Baseline!LaunchedWithoutRecord' /\ Baseline!WrittenByLaunch'
  BY DEF Baseline!LaunchedWithoutRecord, Baseline!WrittenByLaunch, Baseline!Written
<1>3. Baseline!RecordOfOneLaunch' /\ Baseline!SummaryReadsWholeShards'
  BY DEF Baseline!RecordOfOneLaunch, Baseline!SummaryReadsWholeShards, Baseline!Written
<1>4. QED  BY <1>1, <1>2, <1>3

\* A launch that writes one of its three files.
LEMMA BaselineWrites ==
  ASSUME Baseline!IInv, NEW c \in CellNames, NEW kind \in Baseline!Kinds,
         NEW written \in {"some", "all"},
         UNCHANGED <<launched, summary>>, Baseline!Write(c, kind, written),
         NEW from, NEW to, Baseline!Go(c, from, to), from # "idle",
         \/ kind = "traces" /\ from \in {"searched", "traces"}
            /\ (to = "traces" \/ (to = "traced" /\ written = "all"))
         \/ kind = "metrics" /\ from \in {"traced", "metrics"}
            /\ (to = "metrics" \/ (to = "measured" /\ written = "all"))
         \/ kind = "record" /\ from = "measured" /\ to = "idle" /\ written = "all"
  PROVE  Baseline!IInv'
<1> USE DEF Baseline!IInv
<1> DEFINE new == [part |-> written, by |-> launched[c]]
<1>1. /\ pc[c] = from /\ DOMAIN pc' = CellNames /\ pc'[c] = to
      /\ \A d \in CellNames \ {c} : pc'[d] = pc[d]
  BY DEF Baseline!Go, Baseline!Types
<1>2. /\ launched[c] \in 1..MaxLaunches /\ file[c]["record"].part = "none"
  BY <1>1, BaselineConstants
     DEF Baseline!LaunchedWithoutRecord, Baseline!Types, Baseline!BoundAssumption
<1>3. /\ file' \in [CellNames -> [Baseline!Kinds -> [part : {"none", "some", "all"}, by : Nat]]]
      /\ file'[c][kind] = new
      /\ \A k \in Baseline!Kinds \ {kind} : file'[c][k] = file[c][k]
      /\ \A d \in CellNames \ {c} : file'[d] = file[d]
  <2>1. new \in [part : {"none", "some", "all"}, by : Nat]
    BY <1>2
  <2>2. file' = [file EXCEPT ![c] = [file[c] EXCEPT ![kind] = new]]
    BY DEF Baseline!Write
  <2>3. QED  BY <2>1, <2>2 DEF Baseline!Types
<1>4. Baseline!Types'
  BY <1>1, <1>3 DEF Baseline!Types
<1>5. Baseline!LaunchedWithoutRecord'
  BY <1>1, <1>2, <1>3 DEF Baseline!LaunchedWithoutRecord, Baseline!Kinds
<1>6. Baseline!WrittenByLaunch'
  <2>1. ASSUME NEW d \in CellNames \ {c}
        PROVE  /\ pc'[d] \in {"traced", "metrics"} => Baseline!Written(d, {"traces"}, launched[d])'
               /\ pc'[d] = "measured" => Baseline!Written(d, {"traces", "metrics"}, launched[d])'
    BY <1>1, <1>3 DEF Baseline!WrittenByLaunch, Baseline!Written
  <2>2. /\ pc'[c] \in {"traced", "metrics"} => Baseline!Written(c, {"traces"}, launched[c])'
        /\ pc'[c] = "measured" => Baseline!Written(c, {"traces", "metrics"}, launched[c])'
    BY <1>1, <1>3 DEF Baseline!WrittenByLaunch, Baseline!Written, Baseline!Kinds
  <2>3. QED  BY <2>1, <2>2 DEF Baseline!WrittenByLaunch
<1>7. Baseline!RecordOfOneLaunch'
  <2>1. ASSUME NEW d \in CellNames \ {c}, file'[d]["record"].part # "none"
        PROVE  \E j \in 1..MaxLaunches : Baseline!Written(d, Baseline!Kinds, j)'
    <3>1. file'[d] = file[d]
      BY <1>3
    <3>2. PICK j \in 1..MaxLaunches : Baseline!Written(d, Baseline!Kinds, j)
      BY <2>1, <3>1 DEF Baseline!RecordOfOneLaunch
    <3>3. Baseline!Written(d, Baseline!Kinds, j)'
      BY <3>1, <3>2 DEF Baseline!Written
    <3>4. QED  BY <3>3
  <2>2. CASE kind = "record"
    <3>1. Baseline!Written(c, Baseline!Kinds, launched[c])'
      BY <1>1, <1>3, <2>2 DEF Baseline!WrittenByLaunch, Baseline!Written, Baseline!Kinds
    <3>2. QED  BY <1>2, <2>1, <3>1 DEF Baseline!RecordOfOneLaunch
  <2>3. CASE kind # "record"
    <3>1. file'[c]["record"].part = "none"
      BY <1>2, <1>3, <2>3 DEF Baseline!Kinds
    <3>2. QED  BY <2>1, <3>1 DEF Baseline!RecordOfOneLaunch
  <2>4. QED  BY <2>2, <2>3
<1>8. Baseline!SummaryReadsWholeShards'
  BY DEF Baseline!SummaryReadsWholeShards
<1>9. QED  BY <1>4, <1>5, <1>6, <1>7, <1>8

LEMMA BaselineCellStep ==
  ASSUME Baseline!IInv, NEW c \in CellNames,
         \/ Baseline!Launch(c) \/ Baseline!ReadSelection(c) \/ Baseline!RunSearches(c)
         \/ Baseline!Killed(c)
  PROVE  Baseline!IInv'
<1> USE DEF Baseline!IInv
<1>1. CASE Baseline!Launch(c)
  <2>1. /\ launched' = [launched EXCEPT ![c] = @ + 1] /\ pc' = [pc EXCEPT ![c] = "launched"]
        /\ launched[c] < MaxLaunches /\ file[c]["record"].part = "none"
        /\ UNCHANGED <<file, summary>>
    BY <1>1 DEF Baseline!Launch
  <2>2. launched[c] \in 0..MaxLaunches /\ launched[c] + 1 \in 0..MaxLaunches /\ launched[c] + 1 > 0
    BY <2>1, BaselineConstants DEF Baseline!Types, Baseline!BoundAssumption
  <2>3. QED  BY <2>1, <2>2, BaselineMoves DEF Baseline!Types
<1>2. CASE Baseline!ReadSelection(c) \/ Baseline!RunSearches(c)
  <2>1. UNCHANGED <<launched, file, summary>> /\ pc[c] # "idle"
        /\ \E to \in {"selected", "searched"} : pc' = [pc EXCEPT ![c] = to]
    BY <1>2 DEF Baseline!ReadSelection, Baseline!RunSearches, Baseline!Go
  <2>2. QED  BY <2>1, BaselineMoves DEF Baseline!Types, Baseline!LaunchedWithoutRecord
<1>3. CASE Baseline!Killed(c)
  <2>1. UNCHANGED <<launched, file, summary>> /\ pc' = [pc EXCEPT ![c] = "idle"]
    BY <1>3 DEF Baseline!Killed
  <2>2. QED  BY <2>1, BaselineMoves DEF Baseline!Types
<1>4. QED  BY <1>1, <1>2, <1>3

LEMMA BaselineFileStep ==
  ASSUME Baseline!IInv, NEW c \in CellNames,
         Baseline!OpenFile(c) \/ Baseline!CloseFile(c) \/ Baseline!WriteRecord(c)
  PROVE  Baseline!IInv'
<1>1. UNCHANGED <<launched, summary>>
  BY DEF Baseline!OpenFile, Baseline!CloseFile, Baseline!WriteRecord
<1>2. {"traces", "metrics", "record"} = Baseline!Kinds
  BY DEF Baseline!Kinds
<1>3. CASE Baseline!OpenFile(c)
  <2>1. \/ Baseline!Go(c, "searched", "traces") /\ Baseline!Write(c, "traces", "some")
        \/ Baseline!Go(c, "traced", "metrics") /\ Baseline!Write(c, "metrics", "some")
    BY <1>3 DEF Baseline!OpenFile
  <2>2. QED  BY <1>1, <1>2, <2>1, BaselineWrites
<1>4. CASE Baseline!CloseFile(c)
  <2>1. \/ Baseline!Go(c, "traces", "traced") /\ Baseline!Write(c, "traces", "all")
        \/ Baseline!Go(c, "metrics", "measured") /\ Baseline!Write(c, "metrics", "all")
    BY <1>4 DEF Baseline!CloseFile
  <2>2. QED  BY <1>1, <1>2, <2>1, BaselineWrites
<1>5. CASE Baseline!WriteRecord(c)
  BY <1>1, <1>2, <1>5, BaselineWrites DEF Baseline!WriteRecord
<1>6. QED  BY <1>3, <1>4, <1>5

LEMMA RetireStep == ASSUME Baseline!IInv, NEW c \in CellNames, Baseline!Retire(c) PROVE Baseline!IInv'
<1> USE DEF Baseline!IInv
<1>1. /\ pc[c] = "idle" /\ file' = [file EXCEPT ![c] = Baseline!Unread]
      /\ UNCHANGED <<launched, pc, summary>>
  BY DEF Baseline!Retire
<1>2. /\ Baseline!Unread \in [Baseline!Kinds -> [part : {"none", "some", "all"}, by : Nat]]
      /\ Baseline!Unread["record"].part = "none"
  BY DEF Baseline!Unread, Baseline!Absent, Baseline!Kinds
<1>3. Baseline!Types'
  BY <1>1, <1>2 DEF Baseline!Types
<1>4. Baseline!LaunchedWithoutRecord' /\ Baseline!WrittenByLaunch'
  BY <1>1, <1>2 DEF Baseline!LaunchedWithoutRecord, Baseline!WrittenByLaunch, Baseline!Types,
                    Baseline!Written
<1>5. Baseline!RecordOfOneLaunch' /\ Baseline!SummaryReadsWholeShards'
  <2>1. file'[c]["record"].part = "none"
    BY <1>1, <1>2 DEF Baseline!Types
  <2>2. ASSUME NEW d \in CellNames \ {c}, file'[d]["record"].part # "none"
        PROVE  \E j \in 1..MaxLaunches : Baseline!Written(d, Baseline!Kinds, j)'
    <3>1. file'[d] = file[d]
      BY <1>1 DEF Baseline!Types
    <3>2. PICK j \in 1..MaxLaunches : Baseline!Written(d, Baseline!Kinds, j)
      BY <2>2, <3>1 DEF Baseline!RecordOfOneLaunch
    <3>3. Baseline!Written(d, Baseline!Kinds, j)'
      BY <3>1, <3>2 DEF Baseline!Written
    <3>4. QED  BY <3>3
  <2>3. QED
    BY <1>1, <2>1, <2>2 DEF Baseline!RecordOfOneLaunch, Baseline!SummaryReadsWholeShards
<1>6. QED  BY <1>3, <1>4, <1>5

LEMMA BaselineUntouched ==
  ASSUME Baseline!IInv, UNCHANGED <<launched, pc, file>>, summary' = summary \/ Baseline!aggregate
  PROVE  Baseline!IInv'
<1> USE DEF Baseline!IInv
<1>1. Baseline!Types' /\ Baseline!LaunchedWithoutRecord' /\ Baseline!WrittenByLaunch'
      /\ Baseline!RecordOfOneLaunch'
  BY DEF Baseline!Types, Baseline!LaunchedWithoutRecord, Baseline!WrittenByLaunch,
         Baseline!RecordOfOneLaunch, Baseline!Written
<1>2. CASE summary' = summary
  BY <1>1, <1>2 DEF Baseline!SummaryReadsWholeShards
<1>3. CASE Baseline!aggregate
  <2>1. summary'.cells = file
    BY <1>3 DEF Baseline!aggregate
  <2>2. \A c \in CellNames : \E j \in 1..MaxLaunches : Baseline!Written(c, Baseline!Kinds, j)
    BY <1>3 DEF Baseline!aggregate, Baseline!ShardsPresent, Baseline!RecordOfOneLaunch,
                Baseline!Kinds
  <2>3. QED  BY <1>1, <2>1, <2>2 DEF Baseline!SummaryReadsWholeShards, Baseline!Written
<1>4. QED  BY <1>2, <1>3

LEMMA BaselineInvariant == PipelineSpec => [](part = "baseline" => Baseline!IInv)
<1>1. PipelineInit => (part = "baseline" => Baseline!IInv)
  BY BaselineInit DEF PipelineInit
<1>2. (part = "baseline" => Baseline!IInv) /\ [PipelineNext]_everything
        => (part = "baseline" => Baseline!IInv)'
  <2> SUFFICES ASSUME part = "baseline", part' = "baseline", Baseline!IInv,
                      [PipelineNext]_everything
               PROVE  Baseline!IInv'
    BY DEF PipelineNext, everything
  <2>1. CASE Baseline!Next
    <3>1. CASE Baseline!generate_a4b_data \/ Baseline!select_operator
               \/ Baseline!generate_labels \/ Baseline!aggregate
      BY <3>1, BaselineUntouched
         DEF Baseline!generate_a4b_data, Baseline!select_operator, Baseline!generate_labels,
             Baseline!aggregate, Baseline!jobs
    <3>2. QED
      BY <2>1, <3>1, BaselineCellStep, BaselineFileStep, RetireStep DEF Baseline!Next
  <2>2. CASE UNCHANGED everything
    BY <2>2, BaselineUntouched DEF everything, baselineOwn
  <2>3. QED  BY <2>1, <2>2 DEF PipelineNext
<1>3. QED  BY <1>1, <1>2, PTL DEF PipelineSpec

\* The development summary counts whole shards, the three files of a cell written
\* by one launch, wherever launches were killed and repeated.
THEOREM SummaryReadsWholeShardsHolds == PipelineSpec => []SummaryReadsWholeShards
<1>1. (part = "baseline" => Baseline!IInv) => SummaryReadsWholeShards
  BY DEF Baseline!IInv, SummaryReadsWholeShards
<1>2. QED  BY <1>1, BaselineInvariant, PTL

-----------------------------------------------------------------------------
(* TrainingMatrix, the W10 shards, one launch of a shard at a time.           *)

LEMMA TrainingInit == Training!Init => Training!IInv
<1> SUFFICES ASSUME Training!Init PROVE Training!IInv
  OBVIOUS
<1> USE DEF Training!Init, Training!Ended, Training!Writing
<1>1. Training!Types
  BY DEF Training!Types, Training!Nothing
<1>2. Training!OneWriter /\ Training!DirectoryMade /\ Training!SavedItsRun
  BY DEF Training!OneWriter, Training!DirectoryMade, Training!SavedItsRun
<1>3. Training!ResultIsLast /\ Training!SummaryOfResults /\ Training!SummaryOnOneCorpus
  BY DEF Training!ResultIsLast, Training!SummaryOfResults, Training!SummaryOnOneCorpus, Training!Nothing
<1>4. QED  BY <1>1, <1>2, <1>3 DEF Training!IInv

\* The launches' own states, and what of them is ended.
LEMMA TrainingStates ==
  /\ Training!Ended \cap Training!Writing = {} /\ "trained" \notin Training!Ended
  /\ {"opening", "saving", "saved", "reporting"} \subseteq Training!Writing
  /\ {"none", "reused", "refused", "killed", "done"} = Training!Ended
  BY DEF Training!Ended, Training!Writing

\* A launch that ends, or moves on, without a file.
LEMMA TrainingMoves ==
  ASSUME Training!IInv, NEW l \in Launches, NEW to \in Training!Ended \cup Training!Writing \cup {"trained"},
         pc' = [pc EXCEPT ![l] = to], UNCHANGED <<shardOf, checkpoint, result, summary>>,
         DOMAIN directory' = Shards, \A s \in Shards : directory[s] = TRUE => directory'[s] = TRUE,
         DOMAIN run' = Launches, \A k \in Launches \ {l} : run'[k] = run[k],
         to \notin Training!Ended => run'[l] = Training!Whole(run'[l].run),
         to \notin {"saved", "reporting"},
         to \in Training!Writing =>
           /\ result[shardOf[l]].state # "whole"
           /\ \A k \in Launches \ {l} : shardOf[k] = shardOf[l] => pc[k] \notin Training!Writing
  PROVE  Training!IInv'
<1> USE DEF Training!IInv
<1>1. Training!Types'
  BY DEF Training!Types
<1>2. Training!OneWriter'
  BY DEF Training!OneWriter, Training!Types
<1>3. Training!DirectoryMade'
  BY DEF Training!DirectoryMade, Training!Types
<1>4. Training!SavedItsRun'
  BY DEF Training!SavedItsRun, Training!Types
<1>5. Training!ResultIsLast'
  BY DEF Training!ResultIsLast, Training!Types
<1>6. Training!SummaryOfResults' /\ Training!SummaryOnOneCorpus'
  BY DEF Training!SummaryOfResults, Training!SummaryOnOneCorpus
<1>7. QED  BY <1>1, <1>2, <1>3, <1>4, <1>5, <1>6

\* A whole result, or one that nobody is writing beside, is not disturbed by what
\* the only writer of another shard does.
LEMMA TrainingWrites ==
  ASSUME Training!IInv, NEW l \in Launches, pc[l] \in Training!Writing, NEW to,
         to \in {"saving", "saved", "reporting", "done"},
         pc' = [pc EXCEPT ![l] = to],
         UNCHANGED <<shardOf, run, directory, summary>>,
         DOMAIN checkpoint' = Shards, DOMAIN result' = Shards,
         \A s \in Shards \ {shardOf[l]} : checkpoint'[s] = checkpoint[s] /\ result'[s] = result[s],
         to \in {"saved", "reporting", "done"} => checkpoint'[shardOf[l]] = run[l],
         to # "done" => result'[shardOf[l]].state # "whole",
         to = "done" => result'[shardOf[l]] = run[l]
  PROVE  Training!IInv'
<1> USE DEF Training!IInv
<1> DEFINE s0 == shardOf[l]
<1>0. /\ s0 \in Shards /\ result[s0].state # "whole" /\ to \in Training!Ended \cup Training!Writing
      /\ to = "done" <=> to \in Training!Ended
      /\ pc[l] \notin Training!Ended /\ run[l] = Training!Whole(run[l].run)
  BY TrainingStates DEF Training!Types, Training!ResultIsLast
<1>1. Training!Types'
  BY <1>0 DEF Training!Types
<1>2. Training!OneWriter'
  BY <1>0 DEF Training!OneWriter, Training!Types
<1>3. Training!DirectoryMade'
  BY <1>0, TrainingStates DEF Training!DirectoryMade, Training!Types
<1>4. Training!SavedItsRun'
  <2>1. \A k \in Launches \ {l} : pc[k] \in {"saved", "reporting"} => shardOf[k] # s0
    BY TrainingStates DEF Training!OneWriter
  <2>2. QED  BY <1>0, <2>1 DEF Training!SavedItsRun, Training!Types
<1>5. Training!ResultIsLast'
  <2>1. \A k \in Launches \ {l} : pc[k] \in Training!Writing => shardOf[k] # s0
    BY DEF Training!OneWriter
  <2>2. "done" \notin Training!Writing
    BY DEF Training!Writing
  <2>3. ASSUME to = "done"
        PROVE  /\ checkpoint'[s0] = result'[s0]
               /\ \A k \in Launches : shardOf[k] = s0 => pc'[k] \notin Training!Writing
    BY <2>1, <2>2, <2>3 DEF Training!Types
  <2>4. ASSUME NEW s \in Shards \ {s0}, result'[s].state = "whole"
        PROVE  /\ checkpoint'[s] = result'[s]
               /\ \A k \in Launches : shardOf[k] = s => pc'[k] \notin Training!Writing
    BY <2>4 DEF Training!ResultIsLast, Training!Types
  <2>5. QED  BY <1>0, <2>3, <2>4 DEF Training!ResultIsLast, Training!DirectoryMade
<1>6. Training!SummaryOfResults' /\ Training!SummaryOnOneCorpus'
  <2>1. \A x \in summary : result[s0] # Training!Whole(x.reported[s0])
    BY <1>0 DEF Training!Whole
  <2>2. QED  BY <1>0, <2>1 DEF Training!SummaryOfResults, Training!SummaryOnOneCorpus
<1>7. QED  BY <1>1, <1>2, <1>3, <1>4, <1>5, <1>6

LEMMA TrainingWriteStep ==
  ASSUME Training!IInv, NEW l \in Launches,
         Training!OpenCheckpoint(l) \/ Training!SaveCheckpoint(l) \/ Training!OpenResult(l) \/ Training!WriteResult(l)
  PROVE  Training!IInv'
<1>1. /\ pc[l] \in {"opening", "saving", "saved", "reporting"} /\ pc[l] \in Training!Writing
      /\ shardOf[l] \in Shards /\ DOMAIN checkpoint = Shards /\ DOMAIN result = Shards
      /\ result[shardOf[l]].state # "whole"
      /\ pc[l] \in {"saved", "reporting"} => checkpoint[shardOf[l]] = run[l]
  BY TrainingStates
     DEF Training!OpenCheckpoint, Training!SaveCheckpoint, Training!OpenResult, Training!WriteResult, Training!IInv, Training!Types,
         Training!ResultIsLast, Training!SavedItsRun
<1>2. CASE Training!OpenCheckpoint(l) \/ Training!SaveCheckpoint(l)
  <2>1. PICK to \in {"saving", "saved"} :
          /\ pc' = [pc EXCEPT ![l] = to]
          /\ \E f : /\ checkpoint' = [checkpoint EXCEPT ![shardOf[l]] = f]
                    /\ to = "saved" => f = run[l]
    BY <1>2 DEF Training!OpenCheckpoint, Training!SaveCheckpoint
  <2>2. UNCHANGED <<shardOf, run, directory, summary, result>>
    BY <1>2 DEF Training!OpenCheckpoint, Training!SaveCheckpoint
  <2>3. QED  BY <1>1, <2>1, <2>2, TrainingWrites
<1>3. CASE Training!OpenResult(l)
  <2>1. /\ pc' = [pc EXCEPT ![l] = "reporting"] /\ pc[l] = "saved"
        /\ result' = [result EXCEPT ![shardOf[l]] = Training!Torn]
        /\ UNCHANGED <<shardOf, run, directory, summary, checkpoint>>
    BY <1>3 DEF Training!OpenResult
  <2>2. Training!Torn.state # "whole"
    BY DEF Training!Torn
  <2>3. QED  BY <1>1, <2>1, <2>2, TrainingWrites
<1>4. CASE Training!WriteResult(l)
  <2>1. /\ pc' = [pc EXCEPT ![l] = "done"] /\ pc[l] \in {"saved", "reporting"}
        /\ result' = [result EXCEPT ![shardOf[l]] = run[l]]
        /\ UNCHANGED <<shardOf, run, directory, summary, checkpoint>>
    BY <1>4 DEF Training!WriteResult
  <2>2. QED  BY <1>1, <2>1, TrainingWrites
<1>5. QED  BY <1>2, <1>3, <1>4

LEMMA TrainingUntouched ==
  ASSUME Training!IInv, UNCHANGED <<pc, shardOf, run, directory, checkpoint, result, summary>>
  PROVE  Training!IInv'
  BY DEF Training!IInv, Training!Types, Training!OneWriter, Training!DirectoryMade, Training!SavedItsRun, Training!ResultIsLast,
         Training!SummaryOfResults, Training!SummaryOnOneCorpus

\* What is in the way of a second writer: the launches of a shard do not overlap, and a finished shard is reused.
LEMMA TrainingLaunchStep ==
  ASSUME Training!IInv, NEW l \in Launches,
         Training!LaunchW10(l) \/ Training!LaunchPilot(l) \/ Training!MakeDirectory(l)
  PROVE  Training!IInv'
<1> USE DEF Training!IInv
<1>1. CASE Training!LaunchW10(l)
  <2> DEFINE s == shardOf[l]
  <2>1. UNCHANGED <<shardOf, checkpoint, result, summary, directory>> /\ s \in Shards
    BY <1>1 DEF Training!LaunchW10, Training!Types
  <2>2. /\ {"reused", "refused"} \cap (Training!Writing \cup {"saved", "reporting"}) = {}
        /\ {"reused", "refused"} \subseteq Training!Ended
        /\ "trained" \notin {"saved", "reporting"}
    BY DEF Training!Ended, Training!Writing
  <2>3. \A r : Training!Whole(r) = Training!Whole(Training!Whole(r).run)
    BY DEF Training!Whole
  <2>4. ASSUME NEW how \in {"reused", "refused"}, Training!Ends(l, how) PROVE Training!IInv'
    BY <2>1, <2>2, <2>4, TrainingMoves DEF Training!Ends, Training!Types
  <2>5. CASE ~Training!Reusable(s) /\ Training!Trains(l)
    <3>1. Training!Live(s) = {}
      <4>1. \A k, j \in Training!Live(s) : k = j
        BY TrainingStates DEF Training!Live, Training!OneWriter, Training!Types, Training!Writing
      <4>2. IsFiniteSet(Training!Live(s)) /\ Cardinality(Training!Live(s)) \in Nat
        <5>1. CASE Training!Live(s) = {}
          BY <5>1, FS_EmptySet
        <5>2. CASE Training!Live(s) # {}
          <6>1. PICK k : Training!Live(s) = {k}
            BY <4>1, <5>2
          <6>2. IsFiniteSet({k}) /\ Cardinality({k}) = 1
            BY FS_Singleton
          <6>3. QED  BY <6>1, <6>2
        <5>3. QED  BY <5>1, <5>2
      <4>3. Training!Cardinality(Training!Live(s)) < 1
        BY <1>1 DEF Training!LaunchW10, Training!MayStart
      <4>4. Training!Cardinality(Training!Live(s)) = Cardinality(Training!Live(s))
        BY DEF Training!Cardinality, Cardinality
      <4>5. Cardinality(Training!Live(s)) = 0
        BY <4>2, <4>3, <4>4
      <4>6. QED  BY <4>2, <4>5, FS_EmptySet
    <3>2. \A k \in Launches : shardOf[k] = s => pc[k] \in Training!Ended
      BY <3>1 DEF Training!Live
    <3>3. \A k \in Launches \ {l} : shardOf[k] = s => pc[k] \notin Training!Writing
      BY <3>2, TrainingStates
    <3>4. result[s].state # "whole"
      BY <2>5 DEF Training!Reusable
    <3>5. PICK r : run' = [run EXCEPT ![l] = Training!Whole(r)]
      BY <2>5 DEF Training!Trains
    <3>6. /\ DOMAIN run' = Launches /\ run'[l] = Training!Whole(run'[l].run)
          /\ \A k \in Launches \ {l} : run'[k] = run[k]
      BY <2>3, <3>5 DEF Training!Types
    <3>7. pc' = [pc EXCEPT ![l] = "trained"]
      BY <2>5 DEF Training!Trains
    <3>8. QED  BY <2>1, <2>2, <3>3, <3>4, <3>6, <3>7, TrainingMoves DEF Training!Types
  <2>6. QED  BY <1>1, <2>4, <2>5 DEF Training!LaunchW10
<1>2. CASE Training!MakeDirectory(l)
  <2> DEFINE s == shardOf[l]
  <2>1. /\ UNCHANGED <<shardOf, checkpoint, result, summary, run>>
        /\ directory' = [directory EXCEPT ![s] = TRUE]
        /\ pc' = [pc EXCEPT ![l] = "opening"]
        /\ pc[l] = "trained"
    BY <1>2 DEF Training!MakeDirectory
  <2>2. /\ {"opening", "trained"} \subseteq Training!Writing /\ "trained" \notin Training!Ended
        /\ "opening" \notin {"saved", "reporting"}
    BY DEF Training!Ended, Training!Writing
  <2>3. /\ run[l] = Training!Whole(run[l].run) /\ s \in Shards /\ result[s].state # "whole"
        /\ \A k \in Launches \ {l} : shardOf[k] = s => pc[k] \notin Training!Writing
    BY <2>1, <2>2 DEF Training!Types, Training!OneWriter, Training!ResultIsLast
  <2>4. QED  BY <2>1, <2>2, <2>3, TrainingMoves DEF Training!Types
<1>3. QED  BY <1>1, <1>2 DEF Training!LaunchPilot

LEMMA TrainingOtherStep ==
  ASSUME Training!IInv,
         \/ \E l \in Launches : Training!Kill(l)
         \/ \E c \in Corpora : Training!Regenerate(c)
         \/ \E s \in Shards : Training!Clear(s)
         \/ Training!Aggregate
  PROVE  Training!IInv'
<1> USE DEF Training!IInv
<1>1. ASSUME NEW l \in Launches, Training!Kill(l) PROVE Training!IInv'
  <2>1. UNCHANGED <<shardOf, checkpoint, result, summary, directory, run>>
        /\ pc' = [pc EXCEPT ![l] = "killed"]
    BY <1>1 DEF Training!Kill
  <2>2. "killed" \in Training!Ended /\ "killed" \notin Training!Writing /\ "killed" \notin {"saved", "reporting"}
    BY DEF Training!Ended, Training!Writing
  <2>3. QED  BY <2>1, <2>2, TrainingMoves DEF Training!Types
<1>2. ASSUME NEW c \in Corpora, Training!Regenerate(c) PROVE Training!IInv'
  BY <1>2, TrainingUntouched DEF Training!Regenerate
<1>3. ASSUME NEW s \in Shards, Training!Clear(s) PROVE Training!IInv'
  <2>1. /\ directory' = [directory EXCEPT ![s] = FALSE]
        /\ checkpoint' = [checkpoint EXCEPT ![s] = Training!Nothing]
        /\ result' = [result EXCEPT ![s] = Training!Nothing]
        /\ UNCHANGED <<pc, shardOf, run, summary>>
        /\ result[s].state # "whole" /\ Training!Live(s) = {}
    BY <1>3 DEF Training!Clear
  <2>2. \A l \in Launches : shardOf[l] = s => pc[l] \in Training!Ended
    BY <2>1 DEF Training!Live
  <2>3. \A l \in Launches : shardOf[l] = s =>
          pc[l] \notin Training!Writing /\ pc[l] \notin {"saved", "reporting"}
    BY <2>2, TrainingStates
  <2>4. Training!Nothing.state # "whole"
    BY DEF Training!Nothing
  <2>5. Training!Types' /\ Training!OneWriter'
    BY <2>1, <2>4 DEF Training!Types, Training!OneWriter
  <2>6. Training!DirectoryMade' /\ Training!SavedItsRun'
    BY <2>1, <2>3 DEF Training!Types, Training!DirectoryMade, Training!SavedItsRun
  <2>7. Training!ResultIsLast'
    BY <2>1, <2>4 DEF Training!Types, Training!ResultIsLast
  <2>8. Training!SummaryOfResults' /\ Training!SummaryOnOneCorpus'
    <3>1. \A x \in summary : result[s] # Training!Whole(x.reported[s])
      BY <2>1 DEF Training!Whole
    <3>2. QED  BY <2>1, <3>1 DEF Training!SummaryOfResults, Training!SummaryOnOneCorpus, Training!Types
  <2>9. QED  BY <2>5, <2>6, <2>7, <2>8
<1>4. CASE Training!Aggregate
  <2>1. UNCHANGED <<pc, shardOf, run, directory, checkpoint, result>>
    BY <1>4 DEF Training!Aggregate
  <2>2. \A s \in Shards : result[s] = Training!Whole(result[s].run)
    BY <1>4 DEF Training!Aggregate, Training!Types
  <2>3. \A s, t \in Shards : result[s].run.corpus = result[t].run.corpus
    BY <1>4 DEF Training!Aggregate, Training!SharedProvenance
  <2>4. \A x \in summary' : \A s \in Shards : x.reported[s] = result[s].run
    BY <1>4 DEF Training!Aggregate
  <2>5. Training!SummaryOfResults' /\ Training!SummaryOnOneCorpus'
    BY <2>1, <2>2, <2>3, <2>4 DEF Training!SummaryOfResults, Training!SummaryOnOneCorpus
  <2>6. QED
    BY <2>1, <2>5 DEF Training!Types, Training!OneWriter, Training!DirectoryMade, Training!SavedItsRun, Training!ResultIsLast
<1>5. QED  BY <1>1, <1>2, <1>3, <1>4

LEMMA TrainingInvariant == PipelineSpec => [](part = "training" => Training!IInv)
<1>1. PipelineInit => (part = "training" => Training!IInv)
  BY TrainingInit DEF PipelineInit
<1>2. (part = "training" => Training!IInv) /\ [PipelineNext]_everything
        => (part = "training" => Training!IInv)'
  <2> SUFFICES ASSUME part = "training", part' = "training", Training!IInv, [PipelineNext]_everything
               PROVE  Training!IInv'
    BY DEF PipelineNext, everything
  <2>1. CASE Training!Next
    BY <2>1, TrainingLaunchStep, TrainingWriteStep, TrainingOtherStep DEF Training!Next
  <2>2. CASE UNCHANGED everything
    BY <2>2, TrainingUntouched DEF everything, trainingOwn
  <2>3. QED  BY <2>1, <2>2 DEF PipelineNext
<1>3. QED  BY <1>1, <1>2, PTL DEF PipelineSpec

-----------------------------------------------------------------------------
(* TrainingMatrix, the shards of the pointer pilot, launches overlapping.     *)

LEMMA PointerTrainingInit == PointerTraining!Init => PointerTraining!IInv
<1> SUFFICES ASSUME PointerTraining!Init PROVE PointerTraining!IInv
  OBVIOUS
<1> USE DEF PointerTraining!Init, PointerTraining!Ended, PointerTraining!Writing
<1>1. PointerTraining!Types
  BY DEF PointerTraining!Types, PointerTraining!Nothing
<1>2. PointerTraining!OneWriter /\ PointerTraining!DirectoryMade /\ PointerTraining!SavedItsRun
  BY DEF PointerTraining!OneWriter, PointerTraining!DirectoryMade, PointerTraining!SavedItsRun
<1>3. PointerTraining!ResultIsLast /\ PointerTraining!SummaryOfResults /\ PointerTraining!SummaryOnOneCorpus
  BY DEF PointerTraining!ResultIsLast, PointerTraining!SummaryOfResults, PointerTraining!SummaryOnOneCorpus, PointerTraining!Nothing
<1>4. QED  BY <1>1, <1>2, <1>3 DEF PointerTraining!IInv

\* The launches' own states, and what of them is ended.
LEMMA PointerTrainingStates ==
  /\ PointerTraining!Ended \cap PointerTraining!Writing = {} /\ "trained" \notin PointerTraining!Ended
  /\ {"opening", "saving", "saved", "reporting"} \subseteq PointerTraining!Writing
  /\ {"none", "reused", "refused", "killed", "done"} = PointerTraining!Ended
  BY DEF PointerTraining!Ended, PointerTraining!Writing

\* A launch that ends, or moves on, without a file.
LEMMA PointerTrainingMoves ==
  ASSUME PointerTraining!IInv, NEW l \in Launches, NEW to \in PointerTraining!Ended \cup PointerTraining!Writing \cup {"trained"},
         pc' = [pc EXCEPT ![l] = to], UNCHANGED <<shardOf, checkpoint, result, summary>>,
         DOMAIN directory' = Shards, \A s \in Shards : directory[s] = TRUE => directory'[s] = TRUE,
         DOMAIN run' = Launches, \A k \in Launches \ {l} : run'[k] = run[k],
         to \notin PointerTraining!Ended => run'[l] = PointerTraining!Whole(run'[l].run),
         to \notin {"saved", "reporting"},
         to \in PointerTraining!Writing =>
           /\ result[shardOf[l]].state # "whole"
           /\ \A k \in Launches \ {l} : shardOf[k] = shardOf[l] => pc[k] \notin PointerTraining!Writing
           /\ directory'[shardOf[l]] = TRUE
  PROVE  PointerTraining!IInv'
<1> USE DEF PointerTraining!IInv
<1>1. PointerTraining!Types'
  BY DEF PointerTraining!Types
<1>2. PointerTraining!OneWriter'
  BY DEF PointerTraining!OneWriter, PointerTraining!Types
<1>3. PointerTraining!DirectoryMade'
  BY DEF PointerTraining!DirectoryMade, PointerTraining!Types
<1>4. PointerTraining!SavedItsRun'
  BY DEF PointerTraining!SavedItsRun, PointerTraining!Types
<1>5. PointerTraining!ResultIsLast'
  BY DEF PointerTraining!ResultIsLast, PointerTraining!Types
<1>6. PointerTraining!SummaryOfResults' /\ PointerTraining!SummaryOnOneCorpus'
  BY DEF PointerTraining!SummaryOfResults, PointerTraining!SummaryOnOneCorpus
<1>7. QED  BY <1>1, <1>2, <1>3, <1>4, <1>5, <1>6

\* A whole result, or one that nobody is writing beside, is not disturbed by what
\* the only writer of another shard does.
LEMMA PointerTrainingWrites ==
  ASSUME PointerTraining!IInv, NEW l \in Launches, pc[l] \in PointerTraining!Writing, NEW to,
         to \in {"saving", "saved", "reporting", "done"},
         pc' = [pc EXCEPT ![l] = to],
         UNCHANGED <<shardOf, run, directory, summary>>,
         DOMAIN checkpoint' = Shards, DOMAIN result' = Shards,
         \A s \in Shards \ {shardOf[l]} : checkpoint'[s] = checkpoint[s] /\ result'[s] = result[s],
         to \in {"saved", "reporting", "done"} => checkpoint'[shardOf[l]] = run[l],
         to # "done" => result'[shardOf[l]].state # "whole",
         to = "done" => result'[shardOf[l]] = run[l]
  PROVE  PointerTraining!IInv'
<1> USE DEF PointerTraining!IInv
<1> DEFINE s0 == shardOf[l]
<1>0. /\ s0 \in Shards /\ result[s0].state # "whole" /\ to \in PointerTraining!Ended \cup PointerTraining!Writing
      /\ to = "done" <=> to \in PointerTraining!Ended
      /\ pc[l] \notin PointerTraining!Ended /\ run[l] = PointerTraining!Whole(run[l].run)
  BY PointerTrainingStates DEF PointerTraining!Types, PointerTraining!ResultIsLast
<1>1. PointerTraining!Types'
  BY <1>0 DEF PointerTraining!Types
<1>2. PointerTraining!OneWriter'
  BY <1>0 DEF PointerTraining!OneWriter, PointerTraining!Types
<1>3. PointerTraining!DirectoryMade'
  BY <1>0, PointerTrainingStates DEF PointerTraining!DirectoryMade, PointerTraining!Types
<1>4. PointerTraining!SavedItsRun'
  <2>1. \A k \in Launches \ {l} : pc[k] \in {"saved", "reporting"} => shardOf[k] # s0
    BY PointerTrainingStates DEF PointerTraining!OneWriter
  <2>2. QED  BY <1>0, <2>1 DEF PointerTraining!SavedItsRun, PointerTraining!Types
<1>5. PointerTraining!ResultIsLast'
  <2>1. \A k \in Launches \ {l} : pc[k] \in PointerTraining!Writing => shardOf[k] # s0
    BY DEF PointerTraining!OneWriter
  <2>2. "done" \notin PointerTraining!Writing
    BY DEF PointerTraining!Writing
  <2>3. ASSUME to = "done"
        PROVE  /\ checkpoint'[s0] = result'[s0]
               /\ \A k \in Launches : shardOf[k] = s0 => pc'[k] \notin PointerTraining!Writing
    BY <2>1, <2>2, <2>3 DEF PointerTraining!Types
  <2>4. ASSUME NEW s \in Shards \ {s0}, result'[s].state = "whole"
        PROVE  /\ checkpoint'[s] = result'[s] /\ directory[s]
               /\ \A k \in Launches : shardOf[k] = s => pc'[k] \notin PointerTraining!Writing
    BY <2>4 DEF PointerTraining!ResultIsLast, PointerTraining!Types
  <2>5. QED  BY <1>0, <2>3, <2>4 DEF PointerTraining!ResultIsLast, PointerTraining!DirectoryMade
<1>6. PointerTraining!SummaryOfResults' /\ PointerTraining!SummaryOnOneCorpus'
  <2>1. \A x \in summary : result[s0] # PointerTraining!Whole(x.reported[s0])
    BY <1>0 DEF PointerTraining!Whole
  <2>2. QED  BY <1>0, <2>1 DEF PointerTraining!SummaryOfResults, PointerTraining!SummaryOnOneCorpus
<1>7. QED  BY <1>1, <1>2, <1>3, <1>4, <1>5, <1>6

LEMMA PointerTrainingWriteStep ==
  ASSUME PointerTraining!IInv, NEW l \in Launches,
         PointerTraining!OpenCheckpoint(l) \/ PointerTraining!SaveCheckpoint(l) \/ PointerTraining!OpenResult(l) \/ PointerTraining!WriteResult(l)
  PROVE  PointerTraining!IInv'
<1>1. /\ pc[l] \in {"opening", "saving", "saved", "reporting"} /\ pc[l] \in PointerTraining!Writing
      /\ shardOf[l] \in Shards /\ DOMAIN checkpoint = Shards /\ DOMAIN result = Shards
      /\ result[shardOf[l]].state # "whole"
      /\ pc[l] \in {"saved", "reporting"} => checkpoint[shardOf[l]] = run[l]
  BY PointerTrainingStates
     DEF PointerTraining!OpenCheckpoint, PointerTraining!SaveCheckpoint, PointerTraining!OpenResult, PointerTraining!WriteResult, PointerTraining!IInv, PointerTraining!Types,
         PointerTraining!ResultIsLast, PointerTraining!SavedItsRun
<1>2. CASE PointerTraining!OpenCheckpoint(l) \/ PointerTraining!SaveCheckpoint(l)
  <2>1. PICK to \in {"saving", "saved"} :
          /\ pc' = [pc EXCEPT ![l] = to]
          /\ \E f : /\ checkpoint' = [checkpoint EXCEPT ![shardOf[l]] = f]
                    /\ to = "saved" => f = run[l]
    BY <1>2 DEF PointerTraining!OpenCheckpoint, PointerTraining!SaveCheckpoint
  <2>2. UNCHANGED <<shardOf, run, directory, summary, result>>
    BY <1>2 DEF PointerTraining!OpenCheckpoint, PointerTraining!SaveCheckpoint
  <2>3. QED  BY <1>1, <2>1, <2>2, PointerTrainingWrites
<1>3. CASE PointerTraining!OpenResult(l)
  <2>1. /\ pc' = [pc EXCEPT ![l] = "reporting"] /\ pc[l] = "saved"
        /\ result' = [result EXCEPT ![shardOf[l]] = PointerTraining!Torn]
        /\ UNCHANGED <<shardOf, run, directory, summary, checkpoint>>
    BY <1>3 DEF PointerTraining!OpenResult
  <2>2. PointerTraining!Torn.state # "whole"
    BY DEF PointerTraining!Torn
  <2>3. QED  BY <1>1, <2>1, <2>2, PointerTrainingWrites
<1>4. CASE PointerTraining!WriteResult(l)
  <2>1. /\ pc' = [pc EXCEPT ![l] = "done"] /\ pc[l] \in {"saved", "reporting"}
        /\ result' = [result EXCEPT ![shardOf[l]] = run[l]]
        /\ UNCHANGED <<shardOf, run, directory, summary, checkpoint>>
    BY <1>4 DEF PointerTraining!WriteResult
  <2>2. QED  BY <1>1, <2>1, PointerTrainingWrites
<1>5. QED  BY <1>2, <1>3, <1>4

LEMMA PointerTrainingUntouched ==
  ASSUME PointerTraining!IInv, UNCHANGED <<pc, shardOf, run, directory, checkpoint, result, summary>>
  PROVE  PointerTraining!IInv'
  BY DEF PointerTraining!IInv, PointerTraining!Types, PointerTraining!OneWriter, PointerTraining!DirectoryMade, PointerTraining!SavedItsRun, PointerTraining!ResultIsLast,
         PointerTraining!SummaryOfResults, PointerTraining!SummaryOnOneCorpus

\* What is in the way of a second writer: the directory, which is made once.
LEMMA PointerTrainingLaunchStep ==
  ASSUME PointerTraining!IInv, NEW l \in Launches,
         PointerTraining!LaunchW10(l) \/ PointerTraining!LaunchPilot(l) \/ PointerTraining!MakeDirectory(l)
  PROVE  PointerTraining!IInv'
<1> USE DEF PointerTraining!IInv
<1>1. CASE PointerTraining!LaunchPilot(l)
  <2>1. UNCHANGED <<shardOf, checkpoint, result, summary, directory>>
    BY <1>1 DEF PointerTraining!LaunchPilot
  <2>2. \/ pc' = [pc EXCEPT ![l] = "refused"] /\ UNCHANGED run
        \/ /\ pc' = [pc EXCEPT ![l] = "trained"]
           /\ \E r : run' = [run EXCEPT ![l] = PointerTraining!Whole(r)]
    BY <1>1 DEF PointerTraining!LaunchPilot, PointerTraining!Ends, PointerTraining!Trains
  <2>3. /\ {"refused", "trained"} \cap (PointerTraining!Writing \cup {"saved", "reporting"}) = {}
        /\ "refused" \in PointerTraining!Ended
    BY DEF PointerTraining!Ended, PointerTraining!Writing
  <2>4. \A r : PointerTraining!Whole(r) = PointerTraining!Whole(PointerTraining!Whole(r).run)
    BY DEF PointerTraining!Whole
  <2>5. CASE pc' = [pc EXCEPT ![l] = "refused"] /\ UNCHANGED run
    BY <2>1, <2>3, <2>5, PointerTrainingMoves DEF PointerTraining!Types
  <2>6. ASSUME NEW r, pc' = [pc EXCEPT ![l] = "trained"], run' = [run EXCEPT ![l] = PointerTraining!Whole(r)]
        PROVE  PointerTraining!IInv'
    <3>1. DOMAIN run' = Launches /\ run'[l] = PointerTraining!Whole(run'[l].run)
          /\ \A k \in Launches \ {l} : run'[k] = run[k]
      BY <2>4, <2>6 DEF PointerTraining!Types
    <3>2. QED  BY <2>1, <2>3, <2>6, <3>1, PointerTrainingMoves DEF PointerTraining!Types
  <2>7. QED  BY <2>2, <2>5, <2>6
<1>2. CASE PointerTraining!MakeDirectory(l)
  <2> DEFINE s == shardOf[l]
  <2>1. /\ UNCHANGED <<shardOf, checkpoint, result, summary, run>>
        /\ directory' = [directory EXCEPT ![s] = TRUE]
        /\ pc' = [pc EXCEPT ![l] = IF directory[s] THEN "refused" ELSE "opening"]
        /\ pc[l] = "trained"
    BY <1>2 DEF PointerTraining!MakeDirectory
  <2>2. /\ "refused" \in PointerTraining!Ended /\ "opening" \in PointerTraining!Writing /\ "trained" \notin PointerTraining!Ended
        /\ "refused" \notin PointerTraining!Writing
        /\ {"refused", "opening"} \cap {"saved", "reporting"} = {}
    BY DEF PointerTraining!Ended, PointerTraining!Writing
  <2>3. run[l] = PointerTraining!Whole(run[l].run) /\ s \in Shards /\ directory'[s] = TRUE
    BY <2>1, <2>2 DEF PointerTraining!Types
  <2>4. CASE directory[s]
    BY <2>1, <2>2, <2>4, PointerTrainingMoves DEF PointerTraining!Types
  <2>5. CASE ~directory[s]
    <3>1. /\ result[s].state # "whole"
          /\ \A k \in Launches : shardOf[k] = s => pc[k] \notin PointerTraining!Writing
      BY <2>3, <2>5 DEF PointerTraining!ResultIsLast, PointerTraining!DirectoryMade
    <3>2. QED  BY <2>1, <2>2, <2>3, <2>5, <3>1, PointerTrainingMoves DEF PointerTraining!Types
  <2>6. QED  BY <2>4, <2>5
<1>3. QED  BY <1>1, <1>2 DEF PointerTraining!LaunchW10

LEMMA PointerTrainingOtherStep ==
  ASSUME PointerTraining!IInv,
         \/ \E l \in Launches : PointerTraining!Kill(l)
         \/ \E c \in Corpora : PointerTraining!Regenerate(c)
         \/ \E s \in Shards : PointerTraining!Clear(s)
         \/ PointerTraining!Aggregate
  PROVE  PointerTraining!IInv'
<1> USE DEF PointerTraining!IInv
<1>1. ASSUME NEW l \in Launches, PointerTraining!Kill(l) PROVE PointerTraining!IInv'
  <2>1. UNCHANGED <<shardOf, checkpoint, result, summary, directory, run>>
        /\ pc' = [pc EXCEPT ![l] = "killed"]
    BY <1>1 DEF PointerTraining!Kill
  <2>2. "killed" \in PointerTraining!Ended /\ "killed" \notin PointerTraining!Writing /\ "killed" \notin {"saved", "reporting"}
    BY DEF PointerTraining!Ended, PointerTraining!Writing
  <2>3. QED  BY <2>1, <2>2, PointerTrainingMoves DEF PointerTraining!Types
<1>2. ASSUME NEW c \in Corpora, PointerTraining!Regenerate(c) PROVE PointerTraining!IInv'
  BY <1>2, PointerTrainingUntouched DEF PointerTraining!Regenerate
<1>3. ASSUME NEW s \in Shards, PointerTraining!Clear(s) PROVE PointerTraining!IInv'
  <2>1. /\ directory' = [directory EXCEPT ![s] = FALSE]
        /\ checkpoint' = [checkpoint EXCEPT ![s] = PointerTraining!Nothing]
        /\ result' = [result EXCEPT ![s] = PointerTraining!Nothing]
        /\ UNCHANGED <<pc, shardOf, run, summary>>
        /\ result[s].state # "whole" /\ PointerTraining!Live(s) = {}
    BY <1>3 DEF PointerTraining!Clear
  <2>2. \A l \in Launches : shardOf[l] = s => pc[l] \in PointerTraining!Ended
    BY <2>1 DEF PointerTraining!Live
  <2>3. \A l \in Launches : shardOf[l] = s =>
          pc[l] \notin PointerTraining!Writing /\ pc[l] \notin {"saved", "reporting"}
    BY <2>2, PointerTrainingStates
  <2>4. PointerTraining!Nothing.state # "whole"
    BY DEF PointerTraining!Nothing
  <2>5. PointerTraining!Types' /\ PointerTraining!OneWriter'
    BY <2>1, <2>4 DEF PointerTraining!Types, PointerTraining!OneWriter
  <2>6. PointerTraining!DirectoryMade' /\ PointerTraining!SavedItsRun'
    BY <2>1, <2>3 DEF PointerTraining!Types, PointerTraining!DirectoryMade, PointerTraining!SavedItsRun
  <2>7. PointerTraining!ResultIsLast'
    BY <2>1, <2>4 DEF PointerTraining!Types, PointerTraining!ResultIsLast
  <2>8. PointerTraining!SummaryOfResults' /\ PointerTraining!SummaryOnOneCorpus'
    <3>1. \A x \in summary : result[s] # PointerTraining!Whole(x.reported[s])
      BY <2>1 DEF PointerTraining!Whole
    <3>2. QED  BY <2>1, <3>1 DEF PointerTraining!SummaryOfResults, PointerTraining!SummaryOnOneCorpus, PointerTraining!Types
  <2>9. QED  BY <2>5, <2>6, <2>7, <2>8
<1>4. CASE PointerTraining!Aggregate
  <2>1. UNCHANGED <<pc, shardOf, run, directory, checkpoint, result>>
    BY <1>4 DEF PointerTraining!Aggregate
  <2>2. \A s \in Shards : result[s] = PointerTraining!Whole(result[s].run)
    BY <1>4 DEF PointerTraining!Aggregate, PointerTraining!Types
  <2>3. \A s, t \in Shards : result[s].run.corpus = result[t].run.corpus
    BY <1>4 DEF PointerTraining!Aggregate, PointerTraining!SharedProvenance
  <2>4. \A x \in summary' : \A s \in Shards : x.reported[s] = result[s].run
    BY <1>4 DEF PointerTraining!Aggregate
  <2>5. PointerTraining!SummaryOfResults' /\ PointerTraining!SummaryOnOneCorpus'
    BY <2>1, <2>2, <2>3, <2>4 DEF PointerTraining!SummaryOfResults, PointerTraining!SummaryOnOneCorpus
  <2>6. QED
    BY <2>1, <2>5 DEF PointerTraining!Types, PointerTraining!OneWriter, PointerTraining!DirectoryMade, PointerTraining!SavedItsRun, PointerTraining!ResultIsLast
<1>5. QED  BY <1>1, <1>2, <1>3, <1>4

LEMMA PointerTrainingInvariant == PipelineSpec => [](part = "pointer_training" => PointerTraining!IInv)
<1>1. PipelineInit => (part = "pointer_training" => PointerTraining!IInv)
  BY PointerTrainingInit DEF PipelineInit
<1>2. (part = "pointer_training" => PointerTraining!IInv) /\ [PipelineNext]_everything
        => (part = "pointer_training" => PointerTraining!IInv)'
  <2> SUFFICES ASSUME part = "pointer_training", part' = "pointer_training", PointerTraining!IInv, [PipelineNext]_everything
               PROVE  PointerTraining!IInv'
    BY DEF PipelineNext, everything
  <2>1. CASE PointerTraining!Next
    BY <2>1, PointerTrainingLaunchStep, PointerTrainingWriteStep, PointerTrainingOtherStep DEF PointerTraining!Next
  <2>2. CASE UNCHANGED everything
    BY <2>2, PointerTrainingUntouched DEF everything, trainingOwn
  <2>3. QED  BY <2>1, <2>2 DEF PipelineNext
<1>3. QED  BY <1>1, <1>2, PTL DEF PipelineSpec

\* The shards a summary reports on keep the checkpoints that were evaluated, of
\* both matrices, whatever was killed, cleared, launched again or launched twice.
THEOREM SummaryRestsOnCheckpointsHolds == PipelineSpec => []SummaryRestsOnCheckpoints
<1>1. Training!IInv => Training!SummaryRestsOnCheckpoints
  <2> SUFFICES ASSUME Training!IInv, NEW x \in summary, NEW s \in Shards
               PROVE  checkpoint[s] = Training!Whole(x.reported[s])
    BY DEF Training!SummaryRestsOnCheckpoints
  <2>1. result[s] = Training!Whole(x.reported[s])
    BY DEF Training!IInv, Training!SummaryOfResults
  <2>2. result[s].state = "whole"
    BY <2>1 DEF Training!Whole
  <2>3. QED  BY <2>1, <2>2 DEF Training!IInv, Training!ResultIsLast
<1>2. PointerTraining!IInv => PointerTraining!SummaryRestsOnCheckpoints
  <2> SUFFICES ASSUME PointerTraining!IInv, NEW x \in summary, NEW s \in Shards
               PROVE  checkpoint[s] = PointerTraining!Whole(x.reported[s])
    BY DEF PointerTraining!SummaryRestsOnCheckpoints
  <2>1. result[s] = PointerTraining!Whole(x.reported[s])
    BY DEF PointerTraining!IInv, PointerTraining!SummaryOfResults
  <2>2. result[s].state = "whole"
    BY <2>1 DEF PointerTraining!Whole
  <2>3. QED  BY <2>1, <2>2 DEF PointerTraining!IInv, PointerTraining!ResultIsLast
<1>3. (part = "training" => Training!IInv) /\ (part = "pointer_training" => PointerTraining!IInv)
        => SummaryRestsOnCheckpoints
  BY <1>1, <1>2 DEF SummaryRestsOnCheckpoints
<1>4. QED  BY <1>3, TrainingInvariant, PointerTrainingInvariant, PTL

\* The shards of a W10 summary were trained on the same data, however often the
\* data root was generated anew between them.
THEOREM SummaryOnOneCorpusHolds == PipelineSpec => []SummaryOnOneCorpus
<1>1. (part = "training" => Training!IInv) => SummaryOnOneCorpus
  BY DEF Training!IInv, SummaryOnOneCorpus
<1>2. QED  BY <1>1, TrainingInvariant, PTL

-----------------------------------------------------------------------------
(* CorpusGeneration, the one-shot corpora: the loader itself is enough.      *)

LEMMA OneShotStep ==
  ASSUME OneShotCorpus!PlansListed, OneShotCorpus!LoadedAsManifest, OneShotCorpus!Next
  PROVE  OneShotCorpus!PlansListed' /\ OneShotCorpus!LoadedAsManifest'
<1> USE DEF OneShotCorpus!PlansListed, OneShotCorpus!LoadedAsManifest
<1>1. CASE OneShotCorpus!Load
  <2>1. manifest' = manifest /\ manifest # OneShotCorpus!Absent
        /\ \A r \in OneShotCorpus!Ids : planFile[r].plan = manifest.plans[r]
    BY <1>1 DEF OneShotCorpus!Load, OneShotCorpus!OneShotAccepted
  <2>2. [r \in OneShotCorpus!Ids |-> planFile[r].plan] = manifest.plans
    BY <2>1
  <2>3. \A c \in accepted' \ accepted : c.plans = manifest.plans /\ c.listed = manifest.plans
    BY <1>1, <2>2 DEF OneShotCorpus!Load
  <2>4. QED  BY <2>1, <2>3
<1>2. ASSUME NEW l \in Launches, OneShotCorpus!WriteManifest(l)
      PROVE  OneShotCorpus!PlansListed' /\ OneShotCorpus!LoadedAsManifest'
  <2>1. accepted' = accepted
    BY <1>2 DEF OneShotCorpus!WriteManifest
  <2>2. CASE manifest' = manifest
    BY <2>1, <2>2
  <2>3. CASE manifest' # manifest
    <3>1. PICK plans : plans = [r \in OneShotCorpus!Ids |-> plans[r]]
                       /\ manifest' = [state |-> "whole", source |-> source, plans |-> plans]
      BY <1>2, <2>3 DEF OneShotCorpus!WriteManifest
    <3>2. QED  BY <2>1, <3>1
  <2>4. QED  BY <2>2, <2>3
<1>3. CASE UNCHANGED <<manifest, accepted>>
  BY <1>3
<1>4. QED
  BY <1>1, <1>2, <1>3
     DEF OneShotCorpus!Next, OneShotCorpus!Launch, OneShotCorpus!MakeRoot,
         OneShotCorpus!WriteInstance, OneShotCorpus!WritePlan, OneShotCorpus!RecordFails,
         OneShotCorpus!Kill, OneShotCorpus!Clear, OneShotCorpus!Edit

LEMMA OneShotInvariant ==
  PipelineSpec => [](part = "one_shot_corpus" => OneShotCorpus!PlansListed
                                                 /\ OneShotCorpus!LoadedAsManifest)
<1> DEFINE I == part = "one_shot_corpus" => OneShotCorpus!PlansListed
                                            /\ OneShotCorpus!LoadedAsManifest
<1>1. PipelineInit => I
  BY DEF PipelineInit, OneShotCorpus!Init, OneShotCorpus!PlansListed,
         OneShotCorpus!LoadedAsManifest
<1>2. I /\ [PipelineNext]_everything => I'
  <2> SUFFICES ASSUME part = "one_shot_corpus", part' = "one_shot_corpus",
                      OneShotCorpus!PlansListed, OneShotCorpus!LoadedAsManifest,
                      [PipelineNext]_everything
               PROVE  OneShotCorpus!PlansListed' /\ OneShotCorpus!LoadedAsManifest'
    BY DEF PipelineNext, everything
  <2>1. CASE OneShotCorpus!Next
    BY <2>1, OneShotStep
  <2>2. CASE UNCHANGED everything
    BY <2>2 DEF everything, corpusOwn, OneShotCorpus!PlansListed, OneShotCorpus!LoadedAsManifest
  <2>3. QED  BY <2>1, <2>2 DEF PipelineNext
<1>3. QED  BY <1>1, <1>2, PTL DEF PipelineSpec

-----------------------------------------------------------------------------
(* The corpus of the pointer pilot, whose launches do not overlap.           *)

LEMMA PilotInit == PilotCorpus!Init => PilotCorpus!IInv
<1> SUFFICES ASSUME PilotCorpus!Init PROVE PilotCorpus!IInv
  OBVIOUS
<1> USE DEF PilotCorpus!Init
<1>1. PilotCorpus!Types
  BY DEF PilotCorpus!Types
<1>2. PilotCorpus!Live = {}
  BY DEF PilotCorpus!Live
<1>3. PilotCorpus!OneGenerates /\ PilotCorpus!MadeOnDisk
  BY <1>2 DEF PilotCorpus!OneGenerates, PilotCorpus!MadeOnDisk
<1>4. PilotCorpus!ManifestOfDisk /\ PilotCorpus!PlansListed /\ PilotCorpus!LoadedAsManifest
  BY DEF PilotCorpus!ManifestOfDisk, PilotCorpus!PlansListed, PilotCorpus!LoadedAsManifest
<1>5. QED  BY <1>1, <1>3, <1>4 DEF PilotCorpus!IInv

\* A launch that ends, or goes on, without a file.
LEMMA PilotMoves ==
  ASSUME PilotCorpus!IInv, NEW l \in Launches, NEW to, pc' = [pc EXCEPT ![l] = to],
         UNCHANGED <<source, made, planFile, manifest, accepted>>,
         DOMAIN loadedSource' = Launches, \A k \in Launches : loadedSource'[k] \in Nat,
         root' = root \/ root' = TRUE,
         to \in {"none", "refused", "failed", "killed", "done"}
         \/ \* nobody else is under way
            /\ to \in {"checked", "instance"} /\ manifest = PilotCorpus!Absent
            /\ \A k \in PilotCorpus!Live : k = l
            /\ to # "checked" => root' = TRUE
            /\ made[l] = <<>>,
         to \in {"none", "checked"} => made[l] = <<>>
  PROVE  PilotCorpus!IInv'
<1> USE DEF PilotCorpus!IInv
<1>1. PilotCorpus!Types'
  BY DEF PilotCorpus!Types
<1>2. \A k \in Launches \ {l} : pc'[k] = pc[k] /\ (k \in PilotCorpus!Live' <=> k \in PilotCorpus!Live)
  BY DEF PilotCorpus!Types, PilotCorpus!Live
<1>3. pc'[l] = to /\ PilotCorpus!Live \subseteq Launches /\ PilotCorpus!Live' \subseteq Launches
      /\ (l \in PilotCorpus!Live' => to \in {"checked", "instance"})
  BY DEF PilotCorpus!Types, PilotCorpus!Live
<1>4. PilotCorpus!OneGenerates'
  BY <1>2, <1>3 DEF PilotCorpus!OneGenerates
<1>5. PilotCorpus!MadeOnDisk'
  <2>1. ASSUME NEW k \in Launches \ {l}
        PROVE  /\ pc'[k] \in {"none", "checked"} => made'[k] = <<>>
               /\ pc'[k] = "plan" => Len(made'[k]) < Len(Records)
               /\ k \in PilotCorpus!Live' =>
                    /\ Len(made'[k]) <= Len(Records)
                    /\ \A i \in 1..Len(made'[k]) : PilotCorpus!PlanOnDisk(Records[i], made[k][i])'
    BY <1>2 DEF PilotCorpus!MadeOnDisk, PilotCorpus!PlanOnDisk
  <2>2. Len(Records) \in Nat
    BY CorpusConstants DEF PilotCorpus!CorpusAssumption
  <2>3. /\ pc'[l] \in {"none", "checked"} => made'[l] = <<>>
        /\ pc'[l] # "plan"
        /\ l \in PilotCorpus!Live' => made'[l] = <<>>
    BY <1>3
  <2>4. QED  BY <2>1, <2>2, <2>3 DEF PilotCorpus!MadeOnDisk
<1>6. PilotCorpus!ManifestOfDisk' /\ PilotCorpus!PlansListed' /\ PilotCorpus!LoadedAsManifest'
  BY DEF PilotCorpus!ManifestOfDisk, PilotCorpus!PlansListed, PilotCorpus!LoadedAsManifest,
         PilotCorpus!PlanOnDisk
<1>7. QED  BY <1>1, <1>4, <1>5, <1>6

\* At most one launch is under way, and none when another is let in.
LEMMA PilotAlone ==
  ASSUME PilotCorpus!IInv, PilotCorpus!Cardinality(PilotCorpus!Live) < 1
  PROVE  PilotCorpus!Live = {}
<1> DEFINE live == PilotCorpus!Live
<1>1. \A k, l \in live : k = l
  BY DEF PilotCorpus!IInv, PilotCorpus!OneGenerates
<1>2. IsFiniteSet(live) /\ Cardinality(live) \in Nat
  <2>1. CASE live = {}
    BY <2>1, FS_EmptySet
  <2>2. CASE live # {}
    <3>1. PICK k : live = {k}
      BY <1>1, <2>2
    <3>2. IsFiniteSet({k}) /\ Cardinality({k}) = 1
      BY FS_Singleton
    <3>3. QED  BY <3>1, <3>2
  <2>3. QED  BY <2>1, <2>2
<1>3. PilotCorpus!Cardinality(live) = Cardinality(live)
  BY DEF PilotCorpus!Cardinality, Cardinality
<1>4. Cardinality(live) = 0
  BY <1>2, <1>3
<1>5. QED  BY <1>2, <1>4, FS_EmptySet

LEMMA PilotMoveStep ==
  ASSUME PilotCorpus!IInv, NEW l \in Launches,
         \/ PilotCorpus!Launch(l) \/ PilotCorpus!MakeRoot(l) \/ PilotCorpus!RecordFails(l)
         \/ PilotCorpus!Kill(l)
  PROVE  PilotCorpus!IInv'
<1> USE DEF PilotCorpus!IInv
<1>1. CASE PilotCorpus!Launch(l)
  <2>1. PilotCorpus!Live = {} /\ made[l] = <<>>
    BY <1>1, PilotAlone DEF PilotCorpus!Launch, PilotCorpus!MadeOnDisk
  <2>2. /\ loadedSource' = [loadedSource EXCEPT ![l] = source]
        /\ UNCHANGED <<source, made, planFile, manifest, accepted, root>>
    BY <1>1 DEF PilotCorpus!Launch
  <2>3. DOMAIN loadedSource' = Launches /\ \A k \in Launches : loadedSource'[k] \in Nat
    BY <2>2 DEF PilotCorpus!Types
  <2>4. CASE root
    <3>1. pc' = [pc EXCEPT ![l] = "refused"]
      BY <1>1, <2>4 DEF PilotCorpus!Launch, PilotCorpus!MayGenerate
    <3>2. QED  BY <2>1, <2>2, <2>3, <3>1, PilotMoves
  <2>5. CASE ~root
    <3>1. pc' = [pc EXCEPT ![l] = "checked"]
      BY <1>1, <2>5 DEF PilotCorpus!Launch, PilotCorpus!MayGenerate
    <3>2. manifest = PilotCorpus!Absent
      BY <2>5 DEF PilotCorpus!ManifestOfDisk
    <3>3. QED  BY <2>1, <2>2, <2>3, <3>1, <3>2, PilotMoves
  <2>6. QED  BY <2>4, <2>5
<1>2. CASE PilotCorpus!MakeRoot(l)
  <2>1. /\ pc[l] = "checked" /\ pc' = [pc EXCEPT ![l] = "instance"] /\ root' = TRUE
        /\ UNCHANGED <<source, made, planFile, manifest, accepted, loadedSource>>
    BY <1>2 DEF PilotCorpus!MakeRoot, PilotCorpus!Creates
  <2>2. l \in PilotCorpus!Live
    BY <2>1 DEF PilotCorpus!Live
  <2>3. /\ manifest = PilotCorpus!Absent /\ made[l] = <<>>
        /\ \A k \in PilotCorpus!Live : k = l
    BY <2>1, <2>2 DEF PilotCorpus!OneGenerates, PilotCorpus!MadeOnDisk
  <2>4. QED  BY <2>1, <2>3, PilotMoves DEF PilotCorpus!Types
<1>3. CASE PilotCorpus!RecordFails(l) \/ PilotCorpus!Kill(l)
  <2>1. UNCHANGED <<source, made, planFile, manifest, accepted, loadedSource, root>>
        /\ \E to \in {"failed", "killed"} : pc' = [pc EXCEPT ![l] = to]
    BY <1>3 DEF PilotCorpus!RecordFails, PilotCorpus!Kill
  <2>2. QED  BY <2>1, PilotMoves DEF PilotCorpus!Types
<1>4. QED  BY <1>1, <1>2, <1>3

\* The one launch under way writes a record: its instance, and its plan.
LEMMA PilotRecordStep ==
  ASSUME PilotCorpus!IInv, NEW l \in Launches,
         PilotCorpus!WriteInstance(l) \/ PilotCorpus!WritePlan(l)
  PROVE  PilotCorpus!IInv'
<1> USE DEF PilotCorpus!IInv
<1>1. /\ pc[l] \in {"instance", "plan"} /\ pc' \in {[pc EXCEPT ![l] = to] : to \in {"instance", "plan"}}
      /\ UNCHANGED <<source, loadedSource, root, manifest, accepted>>
      /\ Len(made[l]) < Len(Records)
  BY DEF PilotCorpus!WriteInstance, PilotCorpus!WritePlan, PilotCorpus!MadeOnDisk
<1>2. /\ l \in PilotCorpus!Live /\ manifest = PilotCorpus!Absent /\ root
      /\ \A k \in PilotCorpus!Live : k = l
  BY <1>1 DEF PilotCorpus!OneGenerates, PilotCorpus!Live
<1>3. /\ \A k \in Launches \ {l} : pc'[k] = pc[k] /\ k \notin PilotCorpus!Live
      /\ pc'[l] \in {"instance", "plan"}
      /\ PilotCorpus!Live' = PilotCorpus!Live
  BY <1>1, <1>2 DEF PilotCorpus!Types, PilotCorpus!Live
<1>4. PilotCorpus!OneGenerates'
  BY <1>1, <1>2, <1>3 DEF PilotCorpus!OneGenerates
<1>5. PilotCorpus!ManifestOfDisk' /\ PilotCorpus!PlansListed' /\ PilotCorpus!LoadedAsManifest'
  BY <1>1, <1>2
     DEF PilotCorpus!ManifestOfDisk, PilotCorpus!PlansListed, PilotCorpus!LoadedAsManifest
<1>6. /\ Len(Records) \in Nat /\ Records \in Seq(PilotCorpus!Ids)
      /\ \A i, j \in 1..Len(Records) : Records[i] = Records[j] => i = j
      /\ made[l] \in Seq(PilotCorpus!AllPlans)
  BY CorpusConstants
     DEF PilotCorpus!CorpusAssumption, PilotCorpus!IsInjective, PilotCorpus!Ids, PilotCorpus!Types
<1>7. CASE PilotCorpus!WriteInstance(l)
  <2>1. UNCHANGED <<made, planFile>>
    BY <1>7 DEF PilotCorpus!WriteInstance
  <2>2. PilotCorpus!Types'
    BY <1>1, <2>1 DEF PilotCorpus!Types
  <2>3. PilotCorpus!MadeOnDisk'
    BY <1>1, <1>2, <1>3, <2>1 DEF PilotCorpus!MadeOnDisk, PilotCorpus!PlanOnDisk
  <2>4. QED  BY <1>4, <1>5, <2>2, <2>3
<1>8. CASE PilotCorpus!WritePlan(l)
  <2> DEFINE n == Len(made[l]) + 1
  <2>1. PICK plan \in PilotCorpus!AllPlans :
          /\ planFile' = [planFile EXCEPT ![Records[n]] = [state |-> "whole", plan |-> plan]]
          /\ made' = [made EXCEPT ![l] = Append(@, plan)]
    <3>1. loadedSource[l] \in Nat
      BY DEF PilotCorpus!Types
    <3>2. QED
      BY <1>8, <3>1 DEF PilotCorpus!WritePlan, PilotCorpus!Current, PilotCorpus!AllPlans
  <2>2. n \in 1..Len(Records) /\ Records[n] \in PilotCorpus!Ids
    BY <1>1, <1>6
  <2>3. /\ pc'[l] = "instance" /\ made'[l] = Append(made[l], plan)
        /\ Len(made'[l]) = n /\ made'[l][n] = plan
        /\ \A i \in 1..Len(made[l]) : made'[l][i] = made[l][i]
        /\ \A k \in Launches \ {l} : made'[k] = made[k]
        /\ planFile'[Records[n]] = [state |-> "whole", plan |-> plan]
        /\ \A i \in 1..Len(made[l]) : planFile'[Records[i]] = planFile[Records[i]]
    <3>1. pc' = [pc EXCEPT ![l] = "instance"]
      BY <1>8 DEF PilotCorpus!WritePlan
    <3>2. \A i \in 1..Len(made[l]) : Records[i] # Records[n] /\ Records[i] \in PilotCorpus!Ids
      BY <1>1, <1>6, <2>2
    <3>3. QED  BY <1>6, <2>1, <2>2, <3>1, <3>2 DEF PilotCorpus!Types
  <2>4. PilotCorpus!Types'
    BY <1>1, <2>1 DEF PilotCorpus!Types
  <2>5. PilotCorpus!MadeOnDisk'
    <3>1. \A i \in 1..n : PilotCorpus!PlanOnDisk(Records[i], made[l][i])'
      <4>1. \A i \in 1..Len(made[l]) : PilotCorpus!PlanOnDisk(Records[i], made[l][i])
        BY <1>2 DEF PilotCorpus!MadeOnDisk, PilotCorpus!Live
      <4>2. \A i \in 1..n : i = n \/ i \in 1..Len(made[l])
        BY <1>6
      <4>3. QED  BY <2>3, <4>1, <4>2 DEF PilotCorpus!PlanOnDisk
    <3>2. ASSUME NEW k \in Launches \ {l}
          PROVE  /\ pc'[k] \in {"none", "checked"} => made'[k] = <<>>
                 /\ pc'[k] = "plan" => Len(made'[k]) < Len(Records)
                 /\ k \notin PilotCorpus!Live'
      BY <1>3, <2>3 DEF PilotCorpus!MadeOnDisk
    <3>3. pc'[l] = "instance" /\ Len(made'[l]) <= Len(Records) /\ Len(made'[l]) = n
      BY <2>2, <2>3
    <3>4. QED  BY <3>1, <3>2, <3>3 DEF PilotCorpus!MadeOnDisk
  <2>6. QED  BY <1>4, <1>5, <2>4, <2>5
<1>9. QED  BY <1>7, <1>8

\* What moves neither the plans nor the manifest.
LEMMA PilotUntouched ==
  ASSUME PilotCorpus!IInv, UNCHANGED <<pc, loadedSource, made, planFile, manifest, accepted, root>>,
         source' \in Nat
  PROVE  PilotCorpus!IInv'
  BY DEF PilotCorpus!IInv, PilotCorpus!Types, PilotCorpus!OneGenerates, PilotCorpus!MadeOnDisk,
         PilotCorpus!ManifestOfDisk, PilotCorpus!PlansListed, PilotCorpus!LoadedAsManifest,
         PilotCorpus!PlanOnDisk, PilotCorpus!Live

\* The manifest lists the plans of the one launch under way, which are on disk.
LEMMA PilotManifestStep ==
  ASSUME PilotCorpus!IInv, NEW l \in Launches, PilotCorpus!WriteManifest(l)
  PROVE  PilotCorpus!IInv'
<1> USE DEF PilotCorpus!IInv
<1>1. /\ pc[l] = "instance" /\ Len(made[l]) = Len(Records)
      /\ UNCHANGED <<source, loadedSource, made, root, planFile, accepted>>
  BY DEF PilotCorpus!WriteManifest
<1>2. /\ l \in PilotCorpus!Live /\ root /\ \A k \in PilotCorpus!Live : k = l
      /\ manifest = PilotCorpus!Absent
  BY <1>1 DEF PilotCorpus!OneGenerates, PilotCorpus!Live
<1>3. CASE PilotCorpus!Audited(l)
  <2> DEFINE plans == [r \in PilotCorpus!Ids |->
                         made[l][CHOOSE k \in DOMAIN Records : Records[k] = r]]
  <2>1. /\ manifest' = [state |-> "whole", source |-> source, plans |-> plans]
        /\ pc' = [pc EXCEPT ![l] = "done"]
    BY <1>3 DEF PilotCorpus!WriteManifest
  <2>2. \A k \in Launches : pc'[k] = IF k = l THEN "done" ELSE pc[k]
    BY <2>1 DEF PilotCorpus!Types
  <2>3. PilotCorpus!Live' = {}
    BY <1>2, <2>2 DEF PilotCorpus!Live
  <2>4. PilotCorpus!Types' /\ PilotCorpus!OneGenerates'
    BY <1>1, <2>1, <2>3 DEF PilotCorpus!Types, PilotCorpus!OneGenerates
  <2>5. PilotCorpus!MadeOnDisk'
    BY <1>1, <2>2, <2>3 DEF PilotCorpus!MadeOnDisk
  <2>6. ASSUME NEW r \in PilotCorpus!Ids PROVE PilotCorpus!PlanOnDisk(r, plans[r])
    <3> DEFINE i == CHOOSE k \in DOMAIN Records : Records[k] = r
    <3>1. i \in DOMAIN Records /\ Records[i] = r
      BY DEF PilotCorpus!Ids, PilotCorpus!Range
    <3>2. i \in 1..Len(made[l])
      BY <1>1, <3>1, CorpusConstants DEF PilotCorpus!CorpusAssumption
    <3>3. PilotCorpus!PlanOnDisk(Records[i], made[l][i])
      BY <1>2, <3>2 DEF PilotCorpus!MadeOnDisk
    <3>4. QED  BY <3>1, <3>3
  <2> HIDE DEF plans
  <2>7. manifest'.plans = plans /\ plans = [r \in PilotCorpus!Ids |-> plans[r]]
    BY <2>1 DEF plans
  <2>8. PilotCorpus!ManifestOfDisk' /\ PilotCorpus!PlansListed' /\ PilotCorpus!LoadedAsManifest'
    BY <1>1, <1>2, <2>6, <2>7
       DEF PilotCorpus!ManifestOfDisk, PilotCorpus!PlansListed, PilotCorpus!LoadedAsManifest,
           PilotCorpus!PlanOnDisk
  <2>9. QED  BY <2>4, <2>5, <2>8
<1>4. CASE ~PilotCorpus!Audited(l)
  BY <1>1, <1>4, PilotMoves DEF PilotCorpus!WriteManifest, PilotCorpus!Types
<1>5. QED  BY <1>3, <1>4

LEMMA PilotOtherStep ==
  ASSUME PilotCorpus!IInv, PilotCorpus!Clear \/ PilotCorpus!Edit \/ PilotCorpus!Load
  PROVE  PilotCorpus!IInv'
<1> USE DEF PilotCorpus!IInv
<1>1. CASE PilotCorpus!Clear
  <2>1. /\ PilotCorpus!Live = {} /\ manifest = PilotCorpus!Absent /\ root' = FALSE
        /\ planFile' = [r \in PilotCorpus!Ids |-> PilotCorpus!Absent]
        /\ UNCHANGED <<source, pc, loadedSource, made, manifest, accepted>>
    BY <1>1 DEF PilotCorpus!Clear
  <2>2. PilotCorpus!Live' = {}
    BY <2>1 DEF PilotCorpus!Live
  <2>3. PilotCorpus!Types' /\ PilotCorpus!OneGenerates' /\ PilotCorpus!MadeOnDisk'
    BY <2>1, <2>2 DEF PilotCorpus!Types, PilotCorpus!OneGenerates, PilotCorpus!MadeOnDisk
  <2>4. PilotCorpus!ManifestOfDisk' /\ PilotCorpus!PlansListed' /\ PilotCorpus!LoadedAsManifest'
    BY <2>1
       DEF PilotCorpus!ManifestOfDisk, PilotCorpus!PlansListed, PilotCorpus!LoadedAsManifest
  <2>5. QED  BY <2>3, <2>4
<1>2. CASE PilotCorpus!Edit
  BY <1>2, PilotUntouched DEF PilotCorpus!Edit, PilotCorpus!Types
<1>3. CASE PilotCorpus!Load
  <2>1. /\ manifest # PilotCorpus!Absent
        /\ UNCHANGED <<source, pc, loadedSource, made, root, planFile, manifest>>
    BY <1>3 DEF PilotCorpus!Load
  <2>2. \A r \in PilotCorpus!Ids : planFile[r].plan = manifest.plans[r]
    <3> SUFFICES ASSUME NEW r \in PilotCorpus!Ids PROVE planFile[r].plan = manifest.plans[r]
      OBVIOUS
    <3>1. planFile[r] = [state |-> "whole", plan |-> manifest.plans[r]]
      BY <2>1 DEF PilotCorpus!ManifestOfDisk, PilotCorpus!PlanOnDisk
    <3>2. QED  BY <3>1
  <2>3. [r \in PilotCorpus!Ids |-> planFile[r].plan] = manifest.plans
    BY <2>1, <2>2 DEF PilotCorpus!PlansListed
  <2>4. \A c \in accepted' \ accepted : c.plans = manifest.plans /\ c.listed = manifest.plans
    BY <1>3, <2>3 DEF PilotCorpus!Load
  <2>5. PilotCorpus!LoadedAsManifest'
    BY <2>4 DEF PilotCorpus!LoadedAsManifest
  <2>6. QED
    BY <2>1, <2>5
       DEF PilotCorpus!Types, PilotCorpus!OneGenerates, PilotCorpus!MadeOnDisk, PilotCorpus!Live,
           PilotCorpus!ManifestOfDisk, PilotCorpus!PlansListed, PilotCorpus!PlanOnDisk
<1>4. QED  BY <1>1, <1>2, <1>3

LEMMA PilotInvariant == PipelineSpec => [](part = "pilot_corpus" => PilotCorpus!IInv)
<1>1. PipelineInit => (part = "pilot_corpus" => PilotCorpus!IInv)
  BY PilotInit DEF PipelineInit
<1>2. (part = "pilot_corpus" => PilotCorpus!IInv) /\ [PipelineNext]_everything
        => (part = "pilot_corpus" => PilotCorpus!IInv)'
  <2> SUFFICES ASSUME part = "pilot_corpus", part' = "pilot_corpus", PilotCorpus!IInv,
                      [PipelineNext]_everything
               PROVE  PilotCorpus!IInv'
    BY DEF PipelineNext, everything
  <2>1. CASE PilotCorpus!Next
    BY <2>1, PilotMoveStep, PilotRecordStep, PilotManifestStep, PilotOtherStep
       DEF PilotCorpus!Next
  <2>2. CASE UNCHANGED everything
    BY <2>2, PilotUntouched DEF everything, corpusOwn, PilotCorpus!IInv, PilotCorpus!Types
  <2>3. QED  BY <2>1, <2>2 DEF PipelineNext
<1>3. QED  BY <1>1, <1>2, PTL DEF PipelineSpec

\* What a loader gives to its caller is what the manifest lists: of a one-shot
\* corpus because the loader compares the plans, of the pilot because launches do
\* not overlap and none starts beside a manifest.
THEOREM LoadedAsManifestHolds == PipelineSpec => []LoadedAsManifest
<1>1. /\ part = "pilot_corpus" => PilotCorpus!IInv
      /\ part = "one_shot_corpus" => OneShotCorpus!PlansListed /\ OneShotCorpus!LoadedAsManifest
      => LoadedAsManifest
  BY DEF PilotCorpus!IInv, LoadedAsManifest
<1>2. QED  BY <1>1, PilotInvariant, OneShotInvariant, PTL

-----------------------------------------------------------------------------
(* ChallengeGeneration.                                                     *)

\* In a finite set with a strict total order R, as many members come before the
\* k-th as its place says.
LEMMA KthOfOrder ==
  ASSUME NEW S, IsFiniteSet(S), NEW R,
         \A x \in S : <<x, x>> \notin R,
         \A x, y, z \in S : <<x, y>> \in R /\ <<y, z>> \in R => <<x, z>> \in R,
         \A x, y \in S : x # y => <<x, y>> \in R \/ <<y, x>> \in R,
         NEW k \in 1 .. Cardinality(S)
  PROVE  \E x \in S : Cardinality({y \in S : <<y, x>> \in R}) = k - 1
<1> DEFINE below(x) == {y \in S : <<y, x>> \in R}
           n == Cardinality(S)
           rank == [x \in S |-> Cardinality(below(x))]
<1>1. n \in Nat /\ IsFiniteSet(0 .. n - 1) /\ Cardinality(0 .. n - 1) = n
  <2>1. n \in Nat
    BY FS_CardinalityType
  <2> HIDE DEF n
  <2>2. 0 \in Int /\ n - 1 \in Int /\ (0 > n - 1 => n = 0)
    BY <2>1
  <2>3. IsFiniteSet(0 .. n - 1)
        /\ Cardinality(0 .. n - 1) = IF 0 > n - 1 THEN 0 ELSE n - 1 - 0 + 1
    BY <2>2, FS_Interval
  <2>4. QED  BY <2>1, <2>2, <2>3
<1>2. \A x \in S : IsFiniteSet(below(x)) /\ Cardinality(below(x)) \in Nat
  BY FS_Subset, FS_CardinalityType
<1>3. \A x, y \in S : <<x, y>> \in R => rank[x] < rank[y]
  <2> SUFFICES ASSUME NEW x \in S, NEW y \in S, <<x, y>> \in R PROVE rank[x] < rank[y]
    OBVIOUS
  <2>1. x \notin below(x) /\ below(x) \cup {x} \subseteq below(y)
    OBVIOUS
  <2>2. Cardinality(below(x) \cup {x}) = Cardinality(below(x)) + 1
    BY <1>2, <2>1, FS_AddElement
  <2>3. Cardinality(below(x) \cup {x}) <= Cardinality(below(y))
    BY <1>2, <2>1, FS_Subset
  <2>4. Cardinality(below(x)) \in Nat /\ Cardinality(below(y)) \in Nat
    BY <1>2
  <2>5. rank[x] = Cardinality(below(x)) /\ rank[y] = Cardinality(below(y))
    OBVIOUS
  <2> HIDE DEF below, rank
  <2>6. QED  BY <2>2, <2>3, <2>4, <2>5
<1>4. rank \in [S -> 0 .. n - 1]
  <2> SUFFICES ASSUME NEW x \in S PROVE Cardinality(below(x)) \in 0 .. n - 1
    OBVIOUS
  <2>1. x \notin below(x) /\ below(x) \cup {x} \subseteq S
    OBVIOUS
  <2>2. Cardinality(below(x) \cup {x}) = Cardinality(below(x)) + 1
    BY <1>2, <2>1, FS_AddElement
  <2>3. Cardinality(below(x) \cup {x}) <= n
    BY <2>1, FS_Subset
  <2>4. QED  BY <1>1, <1>2, <2>2, <2>3
<1>5. rank \in Surjection(S, 0 .. n - 1)
  <2>1. \A x, y \in S : rank[x] = rank[y] => x = y
    <3> SUFFICES ASSUME NEW x \in S, NEW y \in S, rank[x] = rank[y], x # y PROVE FALSE
      OBVIOUS
    <3>1. rank[x] \in Int /\ rank[y] \in Int
      BY <1>4
    <3>2. rank[x] < rank[y] \/ rank[y] < rank[x]
      BY <1>3
    <3> HIDE DEF rank
    <3>3. QED  BY <3>1, <3>2
  <2>2. rank \in Injection(S, 0 .. n - 1)
    BY <1>4, <2>1 DEF Injection, IsInjective
  <2>3. QED  BY <1>1, <2>2, FS_Injection
<1>6. k - 1 \in 0 .. n - 1
  BY <1>1
<1>7. PICK x \in S : rank[x] = k - 1
  BY <1>5, <1>6 DEF Surjection
<1>8. QED  BY <1>7

\* Min and Max of a finite set of naturals are its least and greatest members.
LEMMA FiniteBounds ==
  ASSUME NEW S \in SUBSET Nat, IsFiniteSet(S), S # {}
  PROVE  /\ Challenge!Max(S) \in S /\ \A x \in S : x <= Challenge!Max(S)
         /\ Challenge!Min(S) \in S /\ \A x \in S : Challenge!Min(S) <= x
<1> DEFINE R == {p \in S \X S : p[1] < p[2]}
           below(x) == {y \in S : <<y, x>> \in R}
<1>1. \A x, y \in S : <<x, y>> \in R <=> x < y
  OBVIOUS
<1>2. Cardinality(S) \in Nat /\ Cardinality(S) # 0
  BY FS_CardinalityType, FS_EmptySet
<1>3. \A k \in 1 .. Cardinality(S) : \E x \in S : Cardinality(below(x)) = k - 1
  <2>1. /\ \A x \in S : <<x, x>> \notin R
        /\ \A x, y, z \in S : <<x, y>> \in R /\ <<y, z>> \in R => <<x, z>> \in R
        /\ \A x, y \in S : x # y => <<x, y>> \in R \/ <<y, x>> \in R
    BY <1>1
  <2> HIDE DEF R
  <2>2. QED  BY <2>1, KthOfOrder
<1>4. PICK low \in S : Cardinality(below(low)) = 0
  BY <1>2, <1>3
<1>5. \A x \in S : low <= x
  <2>1. below(low) = {}
    BY <1>4, FS_Subset, FS_EmptySet
  <2> SUFFICES ASSUME NEW x \in S, x < low PROVE FALSE
    OBVIOUS
  <2>2. x \in below(low)
    BY <1>1
  <2>3. QED  BY <2>1, <2>2
<1>6. PICK top \in S : Cardinality(below(top)) = Cardinality(S) - 1
  BY <1>2, <1>3
<1>7. \A x \in S : x <= top
  <2> SUFFICES ASSUME NEW x \in S, top < x PROVE FALSE
    OBVIOUS
  <2> DEFINE T == below(top) \cup {top}
  <2>1. top \notin below(top) /\ T \subseteq S /\ x \notin T
    BY <1>1
  <2>2. IsFiniteSet(below(top))
    BY FS_Subset
  <2>3. Cardinality(T) = Cardinality(S)
    <3>1. Cardinality(T) = Cardinality(below(top)) + 1
      BY <2>1, <2>2, FS_AddElement
    <3> HIDE DEF T, below
    <3>2. QED  BY <1>2, <1>6, <3>1
  <2>4. T = S
    BY <2>1, <2>3, FS_Subset
  <2>5. QED  BY <2>1, <2>4
<1>8. QED  BY <1>5, <1>7 DEF Challenge!Max, Challenge!Min

\* The finish of a unit is that of one of its segments, and of none a later one.
LEMMA FinishOfUnit ==
  ASSUME NEW plan \in Challenge!Times, NEW u \in Units
  PROVE  /\ Challenge!finish_by_unit(plan, u) \in Nat
         /\ \A s \in u : plan[s] <= Challenge!finish_by_unit(plan, u)
         /\ \E s \in u : plan[s] = Challenge!finish_by_unit(plan, u)
<1> DEFINE T == {plan[s] : s \in u}
<1>1. u # {} /\ u \subseteq Challenge!Segments /\ IsFiniteSet(u)
  BY ChallengeConstants
     DEF Challenge!ChallengeAssumption, Challenge!Segments, Challenge!IsFiniteSet, IsFiniteSet
<1>2. T \in SUBSET Nat /\ T # {}
  BY <1>1 DEF Challenge!Times
<1>3. IsFiniteSet(T)
  <2> DEFINE f == [s \in u |-> plan[s]]
  <2>1. f \in Surjection(u, T)
    BY DEF Surjection
  <2>2. QED  BY <1>1, <2>1, FS_Surjection
<1>4. QED  BY <1>2, <1>3, FiniteBounds DEF Challenge!finish_by_unit

LEMMA PairIsFinite == \A a, b : IsFiniteSet({a, b})
<1> SUFFICES ASSUME NEW a, NEW b PROVE IsFiniteSet({a, b})
  OBVIOUS
<1>1. IsFiniteSet({a})
  BY FS_Singleton
<1>2. IsFiniteSet({a} \cup {b})
  BY <1>1, FS_AddElement
<1>3. {a, b} = {a} \cup {b}
  OBVIOUS
<1>4. QED  BY <1>2, <1>3

\* The ranking is as long as there are late units.
LEMMA LateIsFinite ==
  ASSUME NEW i
  PROVE  /\ IsFiniteSet(Challenge!Late(i))
         /\ Challenge!Cardinality(Challenge!Late(i)) = Cardinality(Challenge!Late(i))
         /\ Len(Challenge!Ranked(i)) = Cardinality(Challenge!Late(i))
         /\ Len(Challenge!Ranked(i)) \in Nat
<1> DEFINE L == Challenge!Late(i)
<1>1. IsFiniteSet(L)
  <2>1. IsFiniteSet(Units) /\ L \subseteq Units
    BY ChallengeConstants
       DEF Challenge!ChallengeAssumption, Challenge!Late, Challenge!IsFiniteSet, IsFiniteSet
  <2>2. QED  BY <2>1, FS_Subset
<1>2. Challenge!Cardinality(L) = Cardinality(L)
  BY DEF Challenge!Cardinality, Cardinality
<1>3. Cardinality(L) \in Nat
  BY <1>1, FS_CardinalityType
<1> HIDE DEF L
<1>4. Len(Challenge!Ranked(i)) = Cardinality(L)
  BY <1>2, <1>3 DEF Challenge!Ranked, L
<1>5. QED  BY <1>1, <1>2, <1>3, <1>4 DEF L

\* Ranking lists late units.
LEMMA RankedAreLate ==
  ASSUME NEW i \in ChallengeInstances, NEW k \in 1 .. Len(Challenge!Ranked(i))
  PROVE  Challenge!Ranked(i)[k] \in Challenge!Late(i)
<1> DEFINE L == Challenge!Late(i)
           R == {p \in L \X L : Challenge!Before(i, p[1], p[2])}
<1>1. i.hybrid \in Challenge!Times /\ i.witness \in Challenge!Times
  BY ChallengeConstants DEF Challenge!ChallengeAssumption
<1>2. /\ IsFiniteSet(L) /\ k \in 1 .. Cardinality(L)
      /\ Challenge!Cardinality(L) = Cardinality(L)
  BY LateIsFinite
<1>3. \A u \in L : /\ Challenge!Gap(i, u) \in Int
                   /\ Challenge!Min(u) \in u /\ Challenge!Min(u) \in Nat
  <2> TAKE u \in L
  <2>1. u \in Units /\ u \in SUBSET Nat /\ u # {} /\ IsFiniteSet(u)
    BY ChallengeConstants
       DEF Challenge!ChallengeAssumption, Challenge!Late, Challenge!IsFiniteSet, IsFiniteSet
  <2>2. Challenge!Gap(i, u) \in Int
    BY <1>1, <2>1, FinishOfUnit DEF Challenge!Gap
  <2>3. QED  BY <2>1, <2>2, FiniteBounds
<1>4. \A u, v \in L : u # v => Challenge!Min(u) # Challenge!Min(v)
  BY <1>3, ChallengeConstants DEF Challenge!ChallengeAssumption, Challenge!Late
<1>5. /\ \A u \in L : <<u, u>> \notin R
      /\ \A u, v, w \in L : <<u, v>> \in R /\ <<v, w>> \in R => <<u, w>> \in R
      /\ \A u, v \in L : u # v => <<u, v>> \in R \/ <<v, u>> \in R
  BY <1>3, <1>4 DEF Challenge!Before
<1>6. PICK u \in L : Cardinality({v \in L : <<v, u>> \in R}) = k - 1
  <2> HIDE DEF R, L
  <2>1. \A j \in 1 .. Cardinality(L) :
          \E u \in L : Cardinality({v \in L : <<v, u>> \in R}) = j - 1
    BY <1>2, <1>5, KthOfOrder
  <2>2. QED  BY <1>2, <2>1
<1>7. Challenge!Cardinality({v \in L : Challenge!Before(i, v, u)}) = k - 1
  <2>1. {v \in L : <<v, u>> \in R} = {v \in L : Challenge!Before(i, v, u)}
    OBVIOUS
  <2>2. \A T : Challenge!Cardinality(T) = Cardinality(T)
    BY DEF Challenge!Cardinality, Cardinality
  <2>3. QED  BY <1>6, <2>1, <2>2
<1>8. Challenge!Ranked(i)[k]
        = CHOOSE v \in L : Challenge!Cardinality({w \in L : Challenge!Before(i, w, v)}) = k - 1
  BY <1>2 DEF Challenge!Ranked
<1>9. QED  BY <1>7, <1>8

\* The witness bounds every new window end from below, and half way to the later
\* finish is before that finish.
LEMMA NewEndBetween ==
  ASSUME NEW i \in ChallengeInstances, NEW u \in Challenge!Late(i), NEW s \in u
  PROVE  /\ Challenge!NewEnd(i, u, s) \in Nat
         /\ i.witness[s] <= Challenge!NewEnd(i, u, s)
         /\ Challenge!NewEnd(i, u, s) < Challenge!finish_by_unit(i.hybrid, u)
<1> DEFINE W == Challenge!finish_by_unit(i.witness, u)
           H == Challenge!finish_by_unit(i.hybrid, u)
           mid == (W + H) \div 2
           cap == Challenge!Min({i.end[s], mid})
<1>1. /\ u \in Units /\ s \in Challenge!Segments
      /\ i.end \in Challenge!Times /\ i.hybrid \in Challenge!Times
      /\ i.witness \in Challenge!Times
  BY ChallengeConstants DEF Challenge!ChallengeAssumption, Challenge!Late, Challenge!Segments
<1>2. W \in Nat /\ H \in Nat /\ W < H /\ i.witness[s] <= W /\ i.witness[s] \in Nat
  <2>1. W < H
    BY FinishOfUnit, <1>1 DEF Challenge!Late
  <2>2. QED  BY <1>1, <2>1, FinishOfUnit DEF Challenge!Times
<1> HIDE DEF W, H
<1>3. mid \in Nat /\ mid < H
  BY <1>2
<1>4. i.end[s] \in Nat
  BY <1>1 DEF Challenge!Times
<1> HIDE DEF mid
<1>5. cap \in Nat /\ cap < H
  <2>1. IsFiniteSet({i.end[s], mid})
    BY PairIsFinite
  <2>2. cap \in {i.end[s], mid} /\ cap <= mid
    BY <1>3, <1>4, <2>1, FiniteBounds
  <2>3. QED  BY <1>2, <1>3, <1>4, <2>2
<1> HIDE DEF cap
<1>6. Challenge!Max({W, cap}) \in {W, cap} /\ W <= Challenge!Max({W, cap})
  <2>1. IsFiniteSet({W, cap})
    BY PairIsFinite
  <2>2. QED  BY <1>2, <1>5, <2>1, FiniteBounds
<1>7. Challenge!NewEnd(i, u, s) = Challenge!Max({W, cap})
  BY DEF Challenge!NewEnd, W, cap, mid, H
<1>8. QED  BY <1>2, <1>5, <1>6, <1>7 DEF H

\* Whichever late units are tightened, and in whatever order: the witness keeps
\* its windows, and the last segment of the first unit loses its own.
LEMMA TightenedSeparates ==
  ASSUME NEW i \in ChallengeInstances, NEW n \in 1 .. Len(Challenge!Ranked(i))
  PROVE  /\ Challenge!Fits(i.witness, Challenge!Tightened(i, n))
         /\ ~ Challenge!Fits(i.hybrid, Challenge!Tightened(i, n))
<1> DEFINE selected == {Challenge!Ranked(i)[k] : k \in 1 .. n}
           unitOf(s) == CHOOSE u \in selected : s \in u
           end == Challenge!Tightened(i, n)
<1>1. Len(Challenge!Ranked(i)) \in Nat /\ 1 \in 1 .. n
  BY LateIsFinite
<1>2. selected \subseteq Challenge!Late(i) /\ Challenge!Ranked(i)[1] \in selected
  BY <1>1, RankedAreLate
<1>3. \A s \in Challenge!Segments :
        end[s] = IF \E u \in selected : s \in u
                 THEN Challenge!NewEnd(i, unitOf(s), s) ELSE i.end[s]
  BY DEF Challenge!Tightened
<1>4. /\ Challenge!Fits(i.witness, i.end) /\ i.hybrid \in Challenge!Times
      /\ \A u, v \in Units : u \cap v # {} => u = v
  BY ChallengeConstants DEF Challenge!ChallengeAssumption
<1> HIDE DEF end, selected
<1>5. Challenge!Fits(i.witness, end)
  <2> SUFFICES ASSUME NEW s \in Challenge!Segments PROVE i.witness[s] <= end[s]
    BY DEF Challenge!Fits
  <2>1. CASE \E u \in selected : s \in u
    BY <1>2, <1>3, <2>1, NewEndBetween
  <2>2. QED  BY <1>3, <1>4, <2>1 DEF Challenge!Fits
<1>6. ~ Challenge!Fits(i.hybrid, end)
  <2>1. PICK u : u = Challenge!Ranked(i)[1]
    OBVIOUS
  <2>2. u \in selected /\ u \in Challenge!Late(i) /\ u \in Units
    BY <1>2, <2>1 DEF Challenge!Late
  <2>3. PICK s \in u : i.hybrid[s] = Challenge!finish_by_unit(i.hybrid, u)
    BY <1>4, <2>2, FinishOfUnit
  <2>4. s \in Challenge!Segments
    BY <2>2 DEF Challenge!Segments
  <2>5. unitOf(s) = u
    BY <1>2, <1>4, <2>2 DEF Challenge!Late
  <2>6. end[s] < i.hybrid[s] /\ end[s] \in Nat
    BY <1>3, <2>2, <2>3, <2>4, <2>5, NewEndBetween
  <2>7. i.hybrid[s] \in Nat
    BY <1>4, <2>4 DEF Challenge!Times
  <2>8. QED  BY <2>4, <2>6, <2>7 DEF Challenge!Fits
<1>7. QED  BY <1>5, <1>6 DEF end

\* Every prefix of the tightening separates the witness from the plan of the
\* initializer: for any disjoint units, window ends and finish times, the window
\* ends of one prefix keep the first and cut the second.
THEOREM PrefixSeparatesPlansHolds == PipelineSpec => []PrefixSeparatesPlans
<1> DEFINE Inv == part = "challenge" => base \in ChallengeInstances
<1>1. PipelineInit => Inv
  BY DEF PipelineInit, Challenge!Init
<1>2. Inv /\ [PipelineNext]_everything => Inv'
  BY DEF PipelineNext, everything, challengeOwn, Challenge!Next, Challenge!Base,
         Challenge!Tighten, Challenge!NotConstructed, Challenge!Judge, Challenge!Built
<1>3. Inv => PrefixSeparatesPlans
  BY TightenedSeparates DEF PrefixSeparatesPlans, Challenge!PrefixSeparatesPlans
<1>4. QED  BY <1>1, <1>2, <1>3, PTL DEF PipelineSpec
=============================================================================
