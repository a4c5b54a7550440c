---------------------------- MODULE PaperBenchmark ----------------------------
(* The paper benchmark of A2: materialize_paper_benchmark and its audits      *)
(* (paper_benchmark.py), and run_a2_paper_v2.py, which generates the corpus   *)
(* anew in every launch, compares it with the frozen manifest, runs the       *)
(* baselines instance by instance into shards a later launch reuses, and      *)
(* reports. A launch may be killed between any two steps; between launches    *)
(* the source may change.                                                     *)
(*                                                                            *)
(* Generation is deterministic: a source is what it generates. The content of *)
(* an instance stands for its bytes and those of its witness.                 *)
EXTENDS Naturals, FiniteSets, Functions, SequencesExt

CONSTANTS Instances,     \* the sequence of instances of the configuration
          Sources,       \* the versions of the source: [name, content: per
                         \* instance, covered: the instances with every unit
                         \* coverable, leaks: the audit would find a leak]
          Designed,      \* the instances meant to be infeasible
          Manifests,     \* the paths --manifest may name
          Launches,      \* the processes started, at most once each
          MaxEdits       \* bound: edits of the source

\* What the constants are.
BenchmarkAssumption ==
  /\ Instances \in Seq(Range(Instances)) /\ Instances # <<>> /\ IsInjective(Instances)
  /\ Designed \subseteq Range(Instances)
  /\ Sources # {} /\ MaxEdits \in Nat

VARIABLES source, edits,
          pc, path, loaded, made, rows,  \* per launch
          file,                          \* file[i]: the instance and its witness
          frozen,                        \* frozen[p]: the manifest at path p
          shard, report

vars == <<source, edits, pc, path, loaded, made, rows, file, frozen, shard, report>>

Ids == Range(Instances)
Absent == [state |-> "absent"]
Whole(value) == [state |-> "whole", value |-> value]

Init ==
  /\ source \in Sources /\ edits = 0
  /\ pc = [l \in Launches |-> "none"]
  /\ path = [l \in Launches |-> CHOOSE p \in Manifests : TRUE]
  /\ loaded = [l \in Launches |-> CHOOSE s \in Sources : TRUE]
  /\ made = [l \in Launches |-> 0]
  /\ rows = [l \in Launches |-> <<>>]
  /\ file = [i \in Ids |-> Absent]
  /\ frozen = [p \in Manifests |-> Absent]
  /\ shard = [i \in Ids |-> Absent]
  /\ report = {}

Ended == {"none", "refused", "failed", "killed", "done"}
Live == {l \in Launches : pc[l] \notin Ended}

Goes(l, to) == pc' = [pc EXCEPT ![l] = to]

(***************************** generation *************************************)
\* `generate_paper_benchmark`: a deterministic function of the source. One
\* launch at a time.
Launch(l) ==
  /\ pc[l] = "none" /\ Live = {}
  /\ loaded' = [loaded EXCEPT ![l] = source]
  /\ \E p \in Manifests : path' = [path EXCEPT ![l] = p]
  /\ Goes(l, "materialize")
  /\ UNCHANGED <<source, edits, made, rows, file, frozen, shard, report>>

\* `proxy_admissibility` against the policy of the instance: a designed-
\* infeasible instance must not be coverable, every other one must be.
PolicyHolds(s, i) == (i \in s.covered) = (i \notin Designed)

NextInstance(l) == Instances[made[l] + 1]

\* An iteration of `materialize_paper_benchmark`: a policy mismatch raises;
\* else the instance is written over whatever the directory holds.
Materialize(l) ==
  /\ pc[l] = "materialize" /\ made[l] < Len(Instances)
  /\ IF PolicyHolds(loaded[l], NextInstance(l))
     THEN /\ file' = [file EXCEPT ![NextInstance(l)] = Whole(loaded[l].content[NextInstance(l)])]
          /\ made' = [made EXCEPT ![l] = @ + 1]
          /\ UNCHANGED pc
     ELSE Goes(l, "failed") /\ UNCHANGED <<file, made>>
  /\ UNCHANGED <<source, edits, path, loaded, rows, frozen, shard, report>>

\* The manifest of a source: the hash of every instance.
manifest(s) == s.content

\* `audit_paper_leakage`, after every file is written.
Audit(l) ==
  /\ pc[l] = "materialize" /\ made[l] = Len(Instances)
  /\ Goes(l, IF loaded[l].leaks THEN "failed" ELSE "freeze")
  /\ UNCHANGED <<source, edits, path, loaded, made, rows, file, frozen, shard, report>>

(****************************** the runner ************************************)
\* `load_paper_manifest(manifest_path) != manifest`.
Matches(l) == frozen[path[l]] = Whole(manifest(loaded[l]))

\* A manifest that exists must be this one; else it is frozen now.
Freeze(l) ==
  /\ pc[l] = "freeze"
  /\ IF frozen[path[l]] = Absent
     THEN /\ frozen' = [frozen EXCEPT ![path[l]] = Whole(manifest(loaded[l]))]
          /\ Goes(l, "verify")
     ELSE /\ Goes(l, IF Matches(l) THEN "verify" ELSE "refused")
          /\ UNCHANGED frozen
  /\ UNCHANGED <<source, edits, path, loaded, made, rows, file, shard, report>>

\* `verify_paper_instances`: the files on disk, read back, have the hashes of
\* the manifest and their witnesses verify.
Verify(l) ==
  /\ pc[l] = "verify"
  /\ Goes(l, IF \A i \in Ids : file[i] = Whole(manifest(loaded[l])[i])
             THEN "run" ELSE "failed")
  /\ UNCHANGED <<source, edits, path, loaded, made, rows, file, frozen, shard, report>>

\* Mutant of Reusable: a shard of another manifest is reused.
ReusesAnyShard(l, i) == shard[i] # Absent

\* `_load_shard`: a shard of this manifest (and runner version), unless
\* --no-resume; the source that computed it is not looked at.
Reusable(l, i) ==
  shard[i] # Absent /\ shard[i].value.manifest = manifest(loaded[l])

NextRow(l) == Instances[Len(rows[l]) + 1]

\* The shard is read, or `_run_instance` computes the rows of every method on
\* the generated instance and `_atomic_json` replaces the shard.
RunInstance(l) ==
  /\ pc[l] = "run" /\ Len(rows[l]) < Len(Instances)
  /\ LET i == NextRow(l)
         computed == [manifest |-> manifest(loaded[l]), content |-> loaded[l].content[i]]
     IN \/ /\ Reusable(l, i)
           /\ rows' = [rows EXCEPT ![l] = Append(@, shard[i].value)]
           /\ UNCHANGED shard
        \/ /\ rows' = [rows EXCEPT ![l] = Append(@, computed)]
           /\ shard' = [shard EXCEPT ![i] = Whole(computed)]
  /\ UNCHANGED <<source, edits, pc, path, loaded, made, file, frozen, report>>

\* The results, statistics and labels of a run, under the manifest's hash.
Report(l) ==
  /\ pc[l] = "run" /\ Len(rows[l]) = Len(Instances)
  /\ report' = report \cup {[path |-> path[l], manifest |-> manifest(loaded[l]),
                             rows |-> rows[l]]}
  /\ Goes(l, "done")
  /\ UNCHANGED <<source, edits, path, loaded, made, rows, file, frozen, shard>>

(**************************** the environment *********************************)
Kill(l) ==
  /\ l \in Live
  /\ Goes(l, "killed")
  /\ UNCHANGED <<source, edits, path, loaded, made, rows, file, frozen, shard, report>>

Edit ==
  /\ edits < MaxEdits /\ edits' = edits + 1
  /\ \E s \in Sources \ {source} : source' = s
  /\ UNCHANGED <<pc, path, loaded, made, rows, file, frozen, shard, report>>

Next ==
  \/ \E l \in Launches : \/ Launch(l) \/ Materialize(l) \/ Audit(l) \/ Freeze(l)
                         \/ Verify(l) \/ RunInstance(l) \/ Report(l) \/ Kill(l)
  \/ Edit

Spec == Init /\ [][Next]_vars

(******************************* properties ***********************************)
\* A report names the manifest frozen at its path, and each of its rows was
\* computed, by this launch or one before it, on the instance that manifest
\* lists: no reused shard and no change of the source brings in a row of
\* another corpus.
ReportsFrozenCorpus ==
  \A r \in report :
    /\ frozen[r.path] = Whole(r.manifest)
    /\ \A k \in DOMAIN r.rows : r.rows[k].content = r.manifest[Instances[k]]

(************************* why reports are so *********************************)
\* A row, and a shard: computed on an instance, under the manifest of a source.
Rows == {[manifest |-> manifest(s), content |-> s.content[i]] : s \in Sources, i \in Ids}

Types ==
  /\ source \in Sources
  /\ DOMAIN pc = Launches /\ DOMAIN path = Launches
  /\ loaded \in [Launches -> Sources]
  /\ rows \in [Launches -> Seq(Rows)]
  /\ frozen \in [Manifests -> {Absent} \cup {Whole(manifest(s)) : s \in Sources}]
  /\ shard \in [Ids -> {Absent} \cup {Whole(row) : row \in Rows}]
  /\ \A r \in report : r.path \in Manifests

\* A launch goes past the freeze with the manifest of the source it loaded, and
\* that manifest stays frozen.
LaunchesMatch ==
  \A l \in Launches :
    /\ pc[l] # "none" => path[l] \in Manifests
    /\ pc[l] \in {"verify", "run"} => Matches(l)

\* A shard was computed on the instance its own manifest lists.
ShardsOfTheirManifest ==
  \A i \in Ids : shard[i] # Absent => shard[i].value.content = shard[i].value.manifest[i]

\* The rows a launch has in hand are of the instances of the source it loaded.
RowsOfTheirLaunch ==
  \A l \in Launches :
    /\ pc[l] = "none" => rows[l] = <<>>
    /\ Len(rows[l]) <= Len(Instances)
    /\ \A k \in 1..Len(rows[l]) : rows[l][k].content = loaded[l].content[Instances[k]]

\* The inductive invariant.
IInv ==
  /\ Types /\ LaunchesMatch /\ ShardsOfTheirManifest /\ RowsOfTheirLaunch
  /\ ReportsFrozenCorpus

=============================================================================
