--------------------------- MODULE CorpusGeneration ---------------------------
(* The generators of the development corpora: the pointer pilot of A3.5       *)
(* (generate_a3_5_pointer_data.py, materialize_pointer_pilot), whose teachers *)
(* come from solvers with a time limit, and the corpora of the ordinary LNS   *)
(* (search/data.py, search/data_v2.py), whose witnesses are constructed. Each *)
(* writes record by record, an instance and then its plan, and the manifest   *)
(* last; it may be killed between any two writes, and what was generated is   *)
(* loaded by later programs.                                                  *)
(*                                                                            *)
(* An instance is named by the source that generated it, a plan by the        *)
(* instance it is for and the method and score it was selected with.          *)
EXTENDS Naturals, FiniteSets, FiniteSetsExt, Functions, SequencesExt

CONSTANTS Records,       \* the sequence of records a configuration asks for
          Pilot,         \* TRUE: the pointer pilot; FALSE: the one-shot corpora
          Outcomes,      \* what the solvers may return for an instance:
                         \* [milp, lns, witness], 0 for no representable plan
                         \* that verifies, else the score of the plan
          Launches,      \* the processes started, at most once each
          Overlapping,   \* the versions of the source whose records would fail
                         \* the audit: leaks, duplicates, historical identifiers
          MaxLive,       \* bound: launches alive at once
          MaxEdits       \* bound: edits of the source

\* The candidates' methods, in the order of the identifiers of their plans.
Methods == <<"assignment-milp-hybrid-schedule-v2", "constructive-witness-v1",
             "order-aware-assignment-lns-v2">>

\* What the constants are.
CorpusAssumption ==
  /\ Records \in Seq(Range(Records)) /\ Records # <<>> /\ IsInjective(Records)
  /\ Outcomes \subseteq [milp : Nat, lns : Nat, witness : Nat]
  /\ MaxEdits \in Nat /\ MaxLive \in Nat \ {0}

VARIABLES source,                   \* the version of the source on disk
          pc, loadedSource, made,   \* per launch; made: the plans it wrote so far
          root,                     \* the output directory exists
          instanceFile, planFile, manifest,
          accepted                  \* the corpora the loaders gave to their callers

vars == <<source, pc, loadedSource, made, root, instanceFile, planFile,
          manifest, accepted>>

Absent == [state |-> "absent"]
Ids == Range(Records)

Init ==
  /\ source = 0
  /\ pc = [l \in Launches |-> "none"]
  /\ loadedSource = [l \in Launches |-> 0]
  /\ made = [l \in Launches |-> <<>>]
  /\ root = FALSE
  /\ instanceFile = [r \in Ids |-> Absent] /\ planFile = [r \in Ids |-> Absent]
  /\ manifest = Absent /\ accepted = {}

Live == {l \in Launches : pc[l] \notin {"none", "refused", "failed", "killed", "done"}}

(**************************** plans of a record *******************************)
Scored(outcome) == <<outcome.milp, outcome.witness, outcome.lns>>
Viable(outcome) == {k \in 1..3 : Scored(outcome)[k] > 0}

\* `select_canonical_teacher`: the verified, representable plan of the lowest
\* score, then of the first method; the constructed witness is the fallback.
select_canonical_teacher(outcome) ==
  LET score == Scored(outcome)
      chosen == CHOOSE k \in Viable(outcome) : \A j \in Viable(outcome) :
                  score[k] < score[j] \/ (score[k] = score[j] /\ k <= j)
  IN [method |-> Methods[chosen], score |-> score[chosen]]

\* The plans written beside an instance; a one-shot corpus keeps the witness.
Plans(instance) ==
  IF Pilot THEN {[instance |-> instance, teacher |-> select_canonical_teacher(o)] :
                   o \in {p \in Outcomes : Viable(p) # {}}}
  ELSE {[instance |-> instance, teacher |-> [method |-> Methods[2], score |-> 1]]}

(****************************** a generation **********************************)
\* Mutant of MayGenerate: what an earlier launch left is generated over.
GeneratesOver == TRUE

\* `output.exists()`: generation never overwrites.
MayGenerate == ~root

Launch(l) ==
  /\ pc[l] = "none" /\ Cardinality(Live) < MaxLive
  /\ loadedSource' = [loadedSource EXCEPT ![l] = source]
  /\ pc' = [pc EXCEPT ![l] = IF MayGenerate THEN "checked" ELSE "refused"]
  /\ UNCHANGED <<source, made, root, instanceFile, planFile, manifest, accepted>>

\* `output.mkdir(parents=True)` fails on a directory that exists; the pilot
\* makes the directories of a record with `exist_ok`.
Creates == Pilot \/ ~root

MakeRoot(l) ==
  /\ pc[l] = "checked"
  /\ root' = TRUE
  /\ pc' = [pc EXCEPT ![l] = IF Creates THEN "instance" ELSE "failed"]
  /\ UNCHANGED <<source, loadedSource, made, instanceFile, planFile, manifest, accepted>>

Current(l) == Records[Len(made[l]) + 1]

\* The instance of the next record, in the source this process runs.
WriteInstance(l) ==
  /\ pc[l] = "instance" /\ Len(made[l]) < Len(Records)
  /\ instanceFile' = [instanceFile EXCEPT ![Current(l)] =
                        [state |-> "whole", source |-> loadedSource[l]]]
  /\ pc' = [pc EXCEPT ![l] = "plan"]
  /\ UNCHANGED <<source, loadedSource, made, root, planFile, manifest, accepted>>

\* Its plan, and the record of the manifest with the hash of both.
WritePlan(l) ==
  /\ pc[l] = "plan"
  /\ \E plan \in Plans([state |-> "whole", source |-> loadedSource[l]]) :
       /\ planFile' = [planFile EXCEPT ![Current(l)] = [state |-> "whole", plan |-> plan]]
       /\ made' = [made EXCEPT ![l] = Append(@, plan)]
  /\ pc' = [pc EXCEPT ![l] = "instance"]
  /\ UNCHANGED <<source, loadedSource, root, instanceFile, manifest, accepted>>

\* No witness can be constructed or, for the pilot, no candidate is representable
\* and verified: the exception ends the launch before it writes the instance,
\* and leaves what it wrote for earlier records.
RecordFails(l) ==
  /\ \/ pc[l] = "checked"
     \/ pc[l] = "instance" /\ Len(made[l]) < Len(Records)
  /\ \E o \in Outcomes : IF Pilot THEN Viable(o) = {} ELSE o.witness = 0
  /\ pc' = [pc EXCEPT ![l] = "failed"]
  /\ UNCHANGED <<source, loadedSource, made, root, instanceFile, planFile, manifest, accepted>>

\* `audit_a4b_v2_records`, `_assert_internal_disjointness` and
\* `audit_manifest_overlap`, when every file is already written.
Audited(l) == loadedSource[l] \notin Overlapping

\* The manifest comes last, and only for records that pass the audit. The pilot
\* hashes the source now, not when the process loaded it.
WriteManifest(l) ==
  /\ pc[l] = "instance" /\ Len(made[l]) = Len(Records)
  /\ IF Audited(l)
     THEN /\ manifest' = [state |-> "whole", source |-> source,
                          plans |-> [r \in Ids |-> made[l][CHOOSE k \in DOMAIN Records : Records[k] = r]]]
          /\ pc' = [pc EXCEPT ![l] = "done"]
     ELSE pc' = [pc EXCEPT ![l] = "failed"] /\ UNCHANGED manifest
  /\ UNCHANGED <<source, loadedSource, made, root, instanceFile, planFile, accepted>>

Kill(l) ==
  /\ l \in Live
  /\ pc' = [pc EXCEPT ![l] = "killed"]
  /\ UNCHANGED <<source, loadedSource, made, root, instanceFile, planFile, manifest, accepted>>

\* The operator removes what a launch that did not finish left behind.
Clear ==
  /\ root /\ Live = {} /\ manifest = Absent
  /\ root' = FALSE
  /\ instanceFile' = [r \in Ids |-> Absent] /\ planFile' = [r \in Ids |-> Absent]
  /\ UNCHANGED <<source, pc, loadedSource, made, manifest, accepted>>

Edit ==
  /\ source < MaxEdits
  /\ source' = source + 1
  /\ UNCHANGED <<pc, loadedSource, made, root, instanceFile, planFile, manifest, accepted>>

(******************************* the loaders **********************************)
\* `load_a3_record`: the plan is of this instance, by its hash, and verifies.
load_a3_record(r) ==
  /\ instanceFile[r] # Absent /\ planFile[r] # Absent
  /\ planFile[r].plan.instance = instanceFile[r]

\* `discover_a3_records`, `prepare_pointer_pilot`: every record on disk; of the
\* manifest, its identifiers and the hashes of the registered source.
PilotAccepted == manifest.source = source /\ \A r \in Ids : load_a3_record(r)

\* `load_a4b_items`, `load_a4b_v2_items`: the hash of the instance and of the
\* plan are those of the manifest.
OneShotAccepted ==
  \A r \in Ids : /\ instanceFile[r] = manifest.plans[r].instance
                 /\ planFile[r] # Absent /\ planFile[r].plan = manifest.plans[r]

Load ==
  /\ manifest # Absent
  /\ IF Pilot THEN PilotAccepted ELSE OneShotAccepted
  /\ accepted' = accepted \cup
       {[plans |-> [r \in Ids |-> planFile[r].plan], listed |-> manifest.plans]}
  /\ UNCHANGED <<source, pc, loadedSource, made, root, instanceFile, planFile, manifest>>

Next ==
  \/ \E l \in Launches : \/ Launch(l) \/ MakeRoot(l) \/ WriteInstance(l)
                         \/ WritePlan(l) \/ RecordFails(l) \/ WriteManifest(l)
                         \/ Kill(l)
  \/ Clear \/ Edit \/ Load

Spec == Init /\ [][Next]_vars

(******************************* properties ***********************************)
\* What the training programs get is what the manifest lists, teacher by
\* teacher, although prepare_pointer_pilot compares only the identifiers and
\* the teachers depend on how far the solvers got: no sequence of launches,
\* kills, clearings and edits mixes the teachers of two generations.
LoadedAsManifest == \A c \in accepted : c.plans = c.listed

(********************************** why ***************************************)
\* Of the pilot, whose launches do not overlap: while one is under way there is no
\* manifest and the plans on disk are those it made; once there is one, nobody
\* generates again, and the plans on disk are those it lists.
AllPlans == UNION {Plans([state |-> "whole", source |-> n]) : n \in Nat}

Types ==
  /\ DOMAIN pc = Launches /\ DOMAIN loadedSource = Launches /\ DOMAIN planFile = Ids
  /\ source \in Nat /\ \A l \in Launches : loadedSource[l] \in Nat
  /\ made \in [Launches -> Seq(AllPlans)]

OneGenerates ==
  /\ \A k, l \in Live : k = l
  /\ Live # {} => manifest = Absent
  /\ \A l \in Live : pc[l] # "checked" => root

PlanOnDisk(r, plan) == planFile[r] = [state |-> "whole", plan |-> plan]

MadeOnDisk ==
  \A l \in Launches :
    /\ pc[l] \in {"none", "checked"} => made[l] = <<>>
    /\ pc[l] = "plan" => Len(made[l]) < Len(Records)
    /\ l \in Live =>
         /\ Len(made[l]) <= Len(Records)
         /\ \A k \in 1..Len(made[l]) : PlanOnDisk(Records[k], made[l][k])

ManifestOfDisk ==
  manifest # Absent => root /\ \A r \in Ids : PlanOnDisk(r, manifest.plans[r])

\* All a one-shot corpus needs, whose loader compares the plans themselves.
PlansListed == manifest # Absent => manifest.plans = [r \in Ids |-> manifest.plans[r]]

IInv == /\ Types /\ OneGenerates /\ MadeOnDisk /\ ManifestOfDisk /\ PlansListed
        /\ LoadedAsManifest

=============================================================================
