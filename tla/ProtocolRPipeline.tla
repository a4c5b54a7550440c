------------------------- MODULE ProtocolRPipeline -------------------------
(***************************************************************************)
(* The fail-closed execution chain of Protocol R: the submission wrapper,  *)
(* nine Slurm stages linked by afterok, three of them packed with one      *)
(* worker per cell, and the files they leave in one output directory.  A   *)
(* shard keeps what the gates read of it: the source version it records,   *)
(* whether its rows passed and its exact traces completed, and the         *)
(* operator that steered it.                                               *)
(***************************************************************************)
EXTENDS Naturals, FiniteSets, Sequences

CONSTANTS Chains,      \* invocations of the submission wrapper
          Cells,       \* difficulty cells, one packed worker each
          Operators,   \* destroy operators the train gate chooses among
          MaxVersion   \* bound on edits of sources, configuration or protocol

Stages == <<"preflight", "generate", "profile", "profile_gate", "calibration",
            "train_gate", "smoke", "development", "finalize">>
Packed == {"profile", "calibration", "development"}
Absent == [text |-> "absent"]
Torn == [text |-> "torn"]
NoGate == [passed |-> FALSE]

VARIABLES
    version,   \* version of the hashed sources in the working tree
    frozen,    \* the configuration is frozen and its seal complete
    chain,     \* where each invocation of the wrapper and its chain are
    worker,    \* per chain and cell, the packed worker's progress
    loaded,    \* the version each worker imported when it started
    corpus,    \* the generated data: none, a bare directory, a whole manifest
    shards,    \* per packed stage and cell, the shard file
    gates,     \* profile_gate, train_gate, smoke and finalize
    writers,   \* chains that wrote below the corpus
    developed  \* chains that have read development instances

vars == <<version, frozen, chain, worker, loaded, corpus, shards, gates, writers, developed>>
files == <<corpus, shards, gates>>
tree == <<version, frozen>>

Idle == [c \in Cells |-> "idle"]

Init ==
    /\ version = 1
    /\ frozen = FALSE
    /\ chain = [h \in Chains |-> [state |-> "none", at |-> 0]]
    /\ worker = [h \in Chains |-> Idle]
    /\ loaded = [h \in Chains |-> [c \in Cells |-> 0]]
    /\ corpus = "none"
    /\ shards = [s \in Packed |-> [c \in Cells |-> Absent]]
    /\ gates = [g \in {"profile_gate", "train_gate", "smoke", "finalize"} |-> NoGate]
    /\ writers = {}
    /\ developed = {}

-----------------------------------------------------------------------------
(* The wrapper: refused while a job of any chain is queued or running, or   *)
(* before the freeze; then the nine stages are submitted, each afterok of   *)
(* the one before it.                                                       *)
Queued(h) == chain[h].state \in {"submitted", "held"}

SubmitCheck(h) ==
    /\ chain[h].state = "none"
    /\ frozen
    /\ \A k \in Chains : ~Queued(k)
    /\ chain' = [chain EXCEPT ![h].state = "checked"]
    /\ UNCHANGED <<tree, worker, loaded, files, writers, developed>>

Submit(h) ==
    /\ chain[h].state = "checked"
    /\ chain' = [chain EXCEPT ![h] = [state |-> "submitted", at |-> 1]]
    /\ UNCHANGED <<tree, worker, loaded, files, writers, developed>>

Running(h, stage) == chain[h].state = "submitted" /\ Stages[chain[h].at] = stage
Succeed(h) ==
    chain' = IF chain[h].at = Len(Stages) THEN [chain EXCEPT ![h].state = "ended"]
             ELSE [chain EXCEPT ![h].at = @ + 1]
(* A failed stage: its descendants stay pending, and queued, for ever. *)
Hold(h) == chain' = [chain EXCEPT ![h].state = "held"]
(* A stage that raises (also _require_runtime, a missing file, a kill).  *)
StageFails(h) ==
    /\ chain[h].state = "submitted"
    /\ Stages[chain[h].at] \notin Packed
    /\ Hold(h)
    /\ UNCHANGED <<tree, worker, loaded, files, writers, developed>>
Cancel(h) ==
    /\ chain[h].state = "held"
    /\ chain' = [chain EXCEPT ![h].state = "ended"]
    /\ UNCHANGED <<tree, worker, loaded, files, writers, developed>>

-----------------------------------------------------------------------------
preflight(h) ==
    /\ Running(h, "preflight") /\ frozen
    /\ Succeed(h)
    /\ UNCHANGED <<tree, worker, loaded, files, writers, developed>>

(* The corpus is one-shot: mkdir refuses an existing directory, and the     *)
(* manifest is written last, when every group has been built and audited.   *)
\* Mutant of GenerateMkdir: mkdir with exist_ok.
GenerateExistOk(h) ==
    /\ Running(h, "generate") /\ frozen
    /\ h \notin writers
    /\ corpus' = "directory"
    /\ writers' = writers \union {h}
    /\ UNCHANGED <<tree, chain, worker, loaded, shards, gates, developed>>

GenerateMkdir(h) ==
    /\ Running(h, "generate") /\ frozen
    /\ corpus = "none"
    /\ corpus' = "directory"
    /\ writers' = writers \union {h}
    /\ UNCHANGED <<tree, chain, worker, loaded, shards, gates, developed>>

generate_protocol_r_data(h) ==
    /\ Running(h, "generate")
    /\ corpus = "directory" /\ h \in writers
    /\ corpus' = "manifest"
    /\ Succeed(h)
    /\ UNCHANGED <<tree, worker, loaded, shards, gates, writers, developed>>

-----------------------------------------------------------------------------
(* Packed workers.  A worker imports the sources, checks the gates of the   *)
(* stages before it, loads the items of its split, and when its rows are    *)
(* done hashes the sources as they are then and writes its shard.           *)
GatesOf(stage) ==
    CASE stage = "profile"     -> {}
      [] stage = "calibration" -> {"profile_gate"}
      [] stage = "development" -> {"train_gate", "smoke"}

load_protocol_r_items == corpus = "manifest"

WorkerStarts(h, stage, c) ==
    /\ Running(h, stage) /\ worker[h][c] = "idle"
    /\ frozen /\ load_protocol_r_items
    /\ \A g \in GatesOf(stage) : gates[g].passed
    /\ worker' = [worker EXCEPT ![h][c] = "running"]
    /\ loaded' = [loaded EXCEPT ![h][c] = version]
    /\ developed' = IF stage = "development" THEN developed \union {h} ELSE developed
    /\ UNCHANGED <<tree, chain, files, writers>>

Shard(ran, passed, exact, operator) ==
    [text |-> "complete", source |-> version, ran |-> ran,
     passed |-> passed, exact |-> exact, operator |-> operator]

(* The repairs or prefixes of a profiled cell may fail parity.              *)
profile_cell(ran) == {Shard(ran, passed, TRUE, "none") : passed \in BOOLEAN}

(* An exact trace may stop before its iterations at the safety watchdog; a  *)
(* development trace follows the operator the train gate selected.          *)
calibrate_cell(ran) == {Shard(ran, TRUE, exact, "none") : exact \in BOOLEAN}
development_cell(ran) ==
    {Shard(ran, TRUE, exact, gates["train_gate"].operator) : exact \in BOOLEAN}

Rows(stage, ran) ==
    CASE stage = "profile"     -> profile_cell(ran)
      [] stage = "calibration" -> calibrate_cell(ran)
      [] stage = "development" -> development_cell(ran)

WorkerWrites(h, stage, c) ==
    /\ Running(h, stage) /\ worker[h][c] = "running"
    /\ \E shard \in Rows(stage, loaded[h][c]) : shards' = [shards EXCEPT ![stage][c] = shard]
    /\ worker' = [worker EXCEPT ![h][c] = "ok"]
    /\ UNCHANGED <<tree, chain, loaded, corpus, gates, writers, developed>>

WorkerFails(h, stage, c) ==
    /\ Running(h, stage) /\ worker[h][c] \in {"idle", "running"}
    /\ worker' = [worker EXCEPT ![h][c] = "failed"]
    /\ \/ UNCHANGED shards
       \/ worker[h][c] = "running" /\ shards' = [shards EXCEPT ![stage][c] = Torn]
    /\ UNCHANGED <<tree, chain, loaded, corpus, gates, writers, developed>>

(* The batch script waits for every worker and fails if one of them did.    *)
PackedEnds(h, stage) ==
    /\ Running(h, stage) /\ \A c \in Cells : worker[h][c] \in {"ok", "failed"}
    /\ IF \A c \in Cells : worker[h][c] = "ok" THEN Succeed(h) ELSE Hold(h)
    /\ worker' = [worker EXCEPT ![h] = Idle]
    /\ UNCHANGED <<tree, loaded, files, writers, developed>>

-----------------------------------------------------------------------------
Sound(stage) == \A c \in Cells : shards[stage][c].text = "complete" /\ shards[stage][c].passed

(* merge_profile checks the hash and the verdict of every shard; the speed  *)
(* medians may fail.  A gate is written even when it fails, then raises.    *)
WriteGate(h, g, gate) ==
    /\ gates' = [gates EXCEPT ![g] = gate]
    /\ IF gate.passed THEN Succeed(h) ELSE Hold(h)
    /\ UNCHANGED <<tree, worker, loaded, corpus, shards, writers, developed>>

merge_profile(h) ==
    /\ Running(h, "profile_gate") /\ frozen
    /\ Sound("profile")
    /\ \E speed \in BOOLEAN :
         WriteGate(h, "profile_gate",
                   [passed |-> speed,
                    sources |-> {shards["profile"][c].source : c \in Cells}])

\* Mutant of deterministic_merge_shards: the provenance is not compared.
MergeWithoutProvenance(stage) == Sound(stage)

(* deterministic_merge_shards: every cell's shard, whole, passed and from   *)
(* one recorded source; validate_trace_matrix: every exact trace complete.  *)
deterministic_merge_shards(stage) ==
    /\ Sound(stage)
    /\ \A c, d \in Cells : shards[stage][c].source = shards[stage][d].source

validate_trace_matrix(stage) == \A c \in Cells : shards[stage][c].exact

(* The checks conjoined with the matrix, each over rows no later stage      *)
(* reads: the gate passes when none of them fails.                          *)
TrainChecks == {"opportunity", "coverage_1s", "coverage_3s", "primal_integral",
    "completed_ratio", "challenge_count", "challenge_recovery", "recovery_deficit",
    "operator_count", "weight_response", "cell_dependence", "differs_from_random"}
merge_train_gate(h) ==
    /\ Running(h, "train_gate") /\ frozen
    /\ deterministic_merge_shards("calibration")
    /\ \E failed \in {{}} \union {{k} : k \in TrainChecks}, operator \in Operators :
         WriteGate(h, "train_gate",
                   [operator |-> operator,
                    passed |-> failed = {} /\ validate_trace_matrix("calibration")])

smoke(h) ==
    /\ Running(h, "smoke") /\ frozen
    /\ gates["train_gate"].passed
    /\ gates' = [gates EXCEPT !["smoke"] = [passed |-> TRUE]]
    /\ developed' = developed \union {h}
    /\ Succeed(h)
    /\ UNCHANGED <<tree, worker, loaded, corpus, shards, writers>>

finalize(h) ==
    /\ Running(h, "finalize") /\ frozen
    /\ deterministic_merge_shards("development")
    /\ WriteGate(h, "finalize",
                 [passed |-> validate_trace_matrix("development")])

-----------------------------------------------------------------------------
(* Freezing (or thawing) the configuration, and an edit of a hashed file.   *)
Freeze == frozen' = ~frozen /\ UNCHANGED <<version, chain, worker, loaded, files, writers, developed>>
Edit ==
    /\ version < MaxVersion
    /\ version' = version + 1
    /\ UNCHANGED <<frozen, chain, worker, loaded, files, writers, developed>>

Next ==
    \/ Freeze \/ Edit
    \/ \E h \in Chains :
        \/ SubmitCheck(h) \/ Submit(h) \/ StageFails(h) \/ Cancel(h)
        \/ preflight(h) \/ GenerateMkdir(h) \/ generate_protocol_r_data(h)
        \/ merge_profile(h) \/ merge_train_gate(h) \/ smoke(h) \/ finalize(h)
        \/ \E stage \in Packed :
            \/ PackedEnds(h, stage)
            \/ \E c \in Cells : WorkerStarts(h, stage, c) \/ WorkerWrites(h, stage, c)
                                \/ WorkerFails(h, stage, c)

Spec == Init /\ [][Next]_vars

-----------------------------------------------------------------------------
(* Two wrappers may both pass the queue check and submit; their chains      *)
(* share the output directory, and only one gets past the corpus: no shard  *)
(* or gate is ever written by the other.                                    *)
OneChainPastCorpus ==
    /\ Cardinality(writers) <= 1
    /\ \A h \in Chains : chain[h].at > 2 => h \in writers

(* Development data is read only after both gates passed on whole           *)
(* calibration shards of one recorded source; and a passed result stands on *)
(* whole, exact development shards of one recorded source, all steered by   *)
(* the operator of the train gate still on disk, whichever stage failed,    *)
(* was killed or was edited under in between.                               *)
FinalRestsOnGates ==
    /\ developed # {} =>
        /\ gates["profile_gate"].passed /\ gates["train_gate"].passed
        /\ \A c, d \in Cells :
             /\ shards["calibration"][c].text = "complete"
             /\ shards["calibration"][c].source = shards["calibration"][d].source
    /\ gates["finalize"].passed =>
        \A c, d \in Cells :
             /\ shards["development"][c].exact
             /\ shards["development"][c].source = shards["development"][d].source
             /\ shards["development"][c].operator = gates["train_gate"].operator

-----------------------------------------------------------------------------
(* Why: only the chain that made the corpus gets past it, so that nobody    *)
(* else writes what its later stages rest on.                               *)
States == {"none", "checked", "submitted", "held", "ended"}

Types ==
    /\ chain \in [Chains -> [state : States, at : 0..Len(Stages)]]
    /\ \A h \in Chains : chain[h].state \in {"none", "checked"} <=> chain[h].at = 0
    /\ DOMAIN gates = {"profile_gate", "train_gate", "smoke", "finalize"}
    /\ DOMAIN shards = Packed /\ \A s \in Packed : DOMAIN shards[s] = Cells

OneWriter ==
    /\ writers \subseteq Chains
    /\ corpus = "none" => writers = {}
    /\ \A h, k \in writers : h = k
    /\ \A h \in Chains : chain[h].at > 2 => h \in writers

(* What a chain has left behind when it is at the stages after a gate.      *)
CalibrationOfOneSource ==
    \A c, d \in Cells :
        /\ shards["calibration"][c].text = "complete"
        /\ shards["calibration"][c].source = shards["calibration"][d].source

GatesBehind ==
    \A h \in Chains :
        /\ chain[h].at > 4 => gates["profile_gate"].passed
        /\ chain[h].at > 6 => gates["train_gate"].passed /\ CalibrationOfOneSource

Developing == {h \in Chains : chain[h].at > 7}

DevelopmentOfTheGate ==
    /\ developed \subseteq Developing
    /\ \A c \in Cells : shards["development"][c].text = "complete" =>
         Developing # {} /\ shards["development"][c].operator = gates["train_gate"].operator

Finalized ==
    gates["finalize"].passed =>
        /\ \E h \in Chains : chain[h] = [state |-> "ended", at |-> Len(Stages)]
        /\ \A c, d \in Cells :
             /\ shards["development"][c].exact
             /\ shards["development"][c].source = shards["development"][d].source
             /\ shards["development"][c].operator = gates["train_gate"].operator

IInv == Types /\ OneWriter /\ GatesBehind /\ DevelopmentOfTheGate /\ Finalized

=============================================================================
