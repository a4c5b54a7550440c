--------------------------- MODULE TrainingMatrix ---------------------------
(* The two training matrices of the learned decoders: the W10 shards of A3    *)
(* (run_a3_w10_shard.py, which reuses a finished shard and overwrites an      *)
(* unfinished one) and the shards of the A3.5 pointer pilot                   *)
(* (run_a3_5_pointer_shard.py, which never writes into a directory that       *)
(* exists), the training with validation selection both of them call, and     *)
(* the scripts that aggregate a finished matrix.                              *)
(*                                                                            *)
(* Training is deterministic (set_a3_determinism), so the weights are named   *)
(* by the corpus they were fitted on and their epoch, and what validation     *)
(* says of them is a function `outcome` the initial state chooses.            *)
EXTENDS Naturals, FiniteSets, FiniteSetsExt, SequencesExt

CONSTANTS Shards,        \* family (or variant) and seed, the cells of the matrix
          Families, familyOf,  \* familyOf[s]: the family of shard s
          Corpora,       \* the contents the data root may have, what prepare_*
                         \* looks at: [name, forbidden, complete, leaks, manifest, frozen]
          Examples,      \* the validation examples
          Infinite,      \* the score of an evaluation without a verified candidate
          Histories,     \* what the models of a training may do on validation:
                         \* per epoch [score: per example, 0 for a candidate
                         \* that is not verified; correct: the accuracy]
          MaxEpochs, Patience,
          NonOverwriting,  \* TRUE for the pointer pilot, FALSE for W10
          Launches,      \* the processes started, at most once each
          MaxLive,       \* bound: launches of one shard alive at once
          MaxRegenerations  \* bound: times the data root is generated anew

\* What the constants are.
MatrixAssumption ==
  /\ MaxEpochs \in Nat \ {0} /\ Patience \in Nat \ {0}
  /\ familyOf \in [Shards -> Families]
  /\ Infinite \in Nat

VARIABLES outcome,      \* outcome[s][c]: the evaluations training s on c would see
          data, regenerations,
          pc, shardOf, run,        \* per launch
          directory, checkpoint, result,  \* per shard, on disk
          summary

vars == <<outcome, data, regenerations, pc, shardOf, run, directory,
          checkpoint, result, summary>>

(****************************** data ******************************************)
\* `prepare_a3_development`: no forbidden split directory, the registered number
\* of records, no workpiece, layout or curve in both splits. A W10 shard, but not
\* the aggregate, also wants the vocabulary and normaliser the foundation froze.
prepare_a3_development(c) == ~c.forbidden /\ c.complete /\ ~c.leaks

\* `prepare_pointer_pilot`: no forbidden directory, a manifest of this
\* configuration and these sources, exactly the records it lists.
prepare_pointer_pilot(c) == ~c.forbidden /\ c.manifest /\ c.complete

Prepared(c) ==
  IF NonOverwriting THEN prepare_pointer_pilot(c) ELSE prepare_a3_development(c)

(***************************** training ***************************************)
\* `evaluate_a3_model`, `evaluate_pointer`: over the examples whose candidate
\* the verifier accepts, their number and (for equal numbers, as good as their
\* mean) the sum of their scores.
Evaluated(behaviour) ==
  LET verified == {x \in Examples : behaviour.score[x] > 0}
  IN [verified |-> Cardinality(verified),
      score |-> IF verified = {} THEN Infinite
                ELSE FoldSet(LAMBDA x, sum : sum + behaviour.score[x], 0, verified),
      correct |-> behaviour.correct]

\* `_checkpoint_key(a) > _checkpoint_key(b)`: verified coverage, then the
\* negated mean score of the verified candidates (an evaluation without any
\* has an infinite score), then accuracy.
Better(a, b) ==
  \/ a.verified > b.verified
  \/ a.verified = b.verified /\ a.score < b.score
  \/ a.verified = b.verified /\ a.score = b.score /\ a.correct > b.correct

\* One epoch of the loop; a loop that has broken takes no more.
Epoch(history, loop, epoch) ==
  LET improved == \/ loop.best = 0
                  \/ Better(Evaluated(history[epoch]), Evaluated(history[loop.best]))
  IN IF loop.stale >= Patience THEN loop
     ELSE [best |-> IF improved THEN epoch ELSE loop.best,
           stale |-> IF improved THEN 0 ELSE loop.stale + 1,
           epochs |-> epoch]

\* `train_*_with_validation_selection`: the best weights are cloned, loaded
\* back at the end and evaluated once more.
Trained(corpus, history) ==
  LET loop == FoldLeft(LAMBDA l, e : Epoch(history, l, e),
                       [best |-> 0, stale |-> 0, epochs |-> 0],
                       [e \in 1..MaxEpochs |-> e])
  IN [corpus |-> corpus, weights |-> loop.best, epochs |-> loop.epochs,
      stopped_early |-> loop.epochs < MaxEpochs,
      evaluation |-> Evaluated(history[loop.best])]

(****************************** shards ****************************************)
Nothing == [state |-> "none"]
Torn == [state |-> "torn"]
Whole(r) == [state |-> "whole", run |-> r]

Init ==
  /\ outcome \in [Shards -> [Corpora -> Histories]]
  /\ data \in Corpora /\ regenerations = 0
  /\ pc = [l \in Launches |-> "none"]
  /\ shardOf \in [Launches -> Shards]
  /\ run = [l \in Launches |-> Nothing]
  /\ directory = [s \in Shards |-> FALSE]
  /\ checkpoint = [s \in Shards |-> Nothing]
  /\ result = [s \in Shards |-> Nothing]
  /\ summary = {}

Ended == {"none", "reused", "refused", "killed", "done"}
Live(s) == {l \in Launches : shardOf[l] = s /\ pc[l] \notin Ended}

\* Mutant of Reusable: every launch trains again.
NeverReused(s) == FALSE

\* A finished shard of this configuration.
Reusable(s) == result[s].state = "whole"

Ends(l, how) == pc' = [pc EXCEPT ![l] = how] /\ UNCHANGED run

\* Training happens in memory: nothing is written before it is over.
Trains(l) ==
  /\ run' = [run EXCEPT ![l] =
       Whole(Trained(data, outcome[shardOf[l]][data]))]
  /\ pc' = [pc EXCEPT ![l] = "trained"]

MayStart(l) == pc[l] = "none" /\ Cardinality(Live(shardOf[l])) < MaxLive

\* run_a3_w10_shard.py looks for a finished shard first.
LaunchW10(l) ==
  /\ ~NonOverwriting /\ MayStart(l)
  /\ \/ Reusable(shardOf[l]) /\ Ends(l, "reused")
     \/ /\ ~Reusable(shardOf[l])
        /\ \/ ~(prepare_a3_development(data) /\ data.frozen) /\ Ends(l, "refused")
           \/ prepare_a3_development(data) /\ data.frozen /\ Trains(l)
  /\ UNCHANGED <<outcome, data, regenerations, shardOf, directory, checkpoint,
                 result, summary>>

\* run_a3_5_pointer_shard.py prepares first, and refuses to go on next to any
\* result.json, a torn one too.
LaunchPilot(l) ==
  /\ NonOverwriting /\ MayStart(l)
  /\ \/ /\ ~prepare_pointer_pilot(data) \/ result[shardOf[l]].state # "none"
        /\ Ends(l, "refused")
     \/ /\ prepare_pointer_pilot(data) /\ result[shardOf[l]].state = "none"
        /\ Trains(l)
  /\ UNCHANGED <<outcome, data, regenerations, shardOf, directory, checkpoint,
                 result, summary>>

MakeDirectory(l) ==
  LET s == shardOf[l] IN
  /\ pc[l] = "trained"
  /\ directory' = [directory EXCEPT ![s] = TRUE]
  /\ pc' = [pc EXCEPT ![l] = IF NonOverwriting /\ directory[s] THEN "refused"
                             ELSE "opening"]
  /\ UNCHANGED <<outcome, data, regenerations, shardOf, run, checkpoint, result,
                 summary>>

\* `torch.save(..., checkpoint.pt)` truncates the file, then fills it.
OpenCheckpoint(l) ==
  /\ pc[l] = "opening"
  /\ checkpoint' = [checkpoint EXCEPT ![shardOf[l]] = Torn]
  /\ pc' = [pc EXCEPT ![l] = "saving"]
  /\ UNCHANGED <<outcome, data, regenerations, shardOf, run, directory, result,
                 summary>>

SaveCheckpoint(l) ==
  /\ pc[l] = "saving"
  /\ checkpoint' = [checkpoint EXCEPT ![shardOf[l]] = run[l]]
  /\ pc' = [pc EXCEPT ![l] = "saved"]
  /\ UNCHANGED <<outcome, data, regenerations, shardOf, run, directory, result,
                 summary>>

\* history.csv and failure_library.json, then result.json: the pilot writes it
\* in place, W10 to a temporary file it renames.
OpenResult(l) ==
  /\ NonOverwriting /\ pc[l] = "saved"
  /\ result' = [result EXCEPT ![shardOf[l]] = Torn]
  /\ pc' = [pc EXCEPT ![l] = "reporting"]
  /\ UNCHANGED <<outcome, data, regenerations, shardOf, run, directory,
                 checkpoint, summary>>

WriteResult(l) ==
  /\ pc[l] = IF NonOverwriting THEN "reporting" ELSE "saved"
  /\ result' = [result EXCEPT ![shardOf[l]] = run[l]]
  /\ pc' = [pc EXCEPT ![l] = "done"]
  /\ UNCHANGED <<outcome, data, regenerations, shardOf, run, directory,
                 checkpoint, summary>>

Kill(l) ==
  /\ pc[l] \notin Ended
  /\ pc' = [pc EXCEPT ![l] = "killed"]
  /\ UNCHANGED <<outcome, data, regenerations, shardOf, run, directory,
                 checkpoint, result, summary>>

(**************************** the operator ************************************)
\* The data root is generated anew (the generators live in CorpusGeneration).
Regenerate(c) ==
  /\ regenerations < MaxRegenerations /\ c # data
  /\ data' = c /\ regenerations' = regenerations + 1
  /\ UNCHANGED <<outcome, pc, shardOf, run, directory, checkpoint, result, summary>>

\* What a killed launch left is cleared by hand, or no launch of the pilot
\* gets past mkdir again.
Clear(s) ==
  /\ directory[s] /\ result[s].state # "whole" /\ Live(s) = {}
  /\ directory' = [directory EXCEPT ![s] = FALSE]
  /\ checkpoint' = [checkpoint EXCEPT ![s] = Nothing]
  /\ result' = [result EXCEPT ![s] = Nothing]
  /\ UNCHANGED <<outcome, data, regenerations, pc, shardOf, run, summary>>

(**************************** aggregation *************************************)
\* Mutant of SharedProvenance: the shards' provenance is not compared.
ProvenanceTrusted == TRUE

\* W10 compares the shards with each other; the pilot compares each of them
\* with the manifest of the data it has just prepared.
SharedProvenance ==
  IF NonOverwriting THEN \A s \in Shards : result[s].run.corpus = data
  ELSE \A s, t \in Shards : result[s].run.corpus = result[t].run.corpus

\* `_family_row`: the means over the seeds of a family, here their sums; there
\* is no mean score when one of the seeds has none.
FamilyRow(f) ==
  LET seeds == {s \in Shards : familyOf[s] = f}
      total(field) == FoldSet(LAMBDA s, sum : sum + result[s].run.evaluation[field],
                              0, seeds)
  IN [verified |-> total("verified"),
      score |-> IF \E s \in seeds : result[s].run.evaluation.score = Infinite
                THEN Infinite ELSE total("score"),
      correct |-> total("correct")]

\* The families no other is better than; the run time decides between them.
Selectable == {f \in Families : \A g \in Families : ~Better(FamilyRow(g), FamilyRow(f))}

\* Missing, torn, foreign or inconsistent shards and data that cannot be
\* prepared raise before anything is written; the summary names the data the
\* aggregate itself read.
Aggregate ==
  /\ summary = {}
  /\ \A s \in Shards : result[s].state = "whole"
  /\ SharedProvenance
  /\ Prepared(data)
  /\ \E f \in Selectable :
       summary' = {[corpus |-> data, selected |-> f,
                    reported |-> [s \in Shards |-> result[s].run]]}
  /\ UNCHANGED <<outcome, data, regenerations, pc, shardOf, run, directory,
                 checkpoint, result>>

Next ==
  \/ \E l \in Launches :
       \/ LaunchW10(l) \/ LaunchPilot(l) \/ MakeDirectory(l) \/ OpenCheckpoint(l) \/ SaveCheckpoint(l)
       \/ OpenResult(l) \/ WriteResult(l) \/ Kill(l)
  \/ \E c \in Corpora : Regenerate(c)
  \/ \E s \in Shards : Clear(s)
  \/ Aggregate

Spec == Init /\ [][Next]_vars

(**************************** properties **************************************)
\* Every shard a summary reports on has, at the time and ever after, a whole
\* checkpoint with the very weights that were evaluated: the checkpoints a
\* final evaluation freezes are those the summary selected from, whatever was
\* killed, launched again or launched twice before.
SummaryRestsOnCheckpoints ==
  \A x \in summary : \A s \in Shards :
    checkpoint[s] = Whole(x.reported[s])

\* All the shards of a summary were trained on the same data, although the data
\* root may have been generated anew between two of them.
SummaryOnOneCorpus ==
  \A x \in summary : \A s, t \in Shards :
    x.reported[s].corpus = x.reported[t].corpus

(******************************* why ******************************************)
\* One launch at a time writes the files of a shard, a whole result is the last
\* thing written of it, and nobody writes where one is: of the pilot because the
\* directory is made once, of W10 because the launches of a shard do not overlap.
Writing == {"opening", "saving", "saved", "reporting"}
           \cup IF NonOverwriting THEN {} ELSE {"trained"}

Types ==
  /\ pc \in [Launches -> Ended \cup Writing \cup {"trained"}]
  /\ shardOf \in [Launches -> Shards]
  /\ DOMAIN run = Launches /\ DOMAIN directory = Shards
  /\ DOMAIN checkpoint = Shards /\ DOMAIN result = Shards
  /\ \A l \in Launches : pc[l] \notin Ended => run[l] = Whole(run[l].run)
  /\ \A s \in Shards : result[s].state = "whole" => result[s] = Whole(result[s].run)

OneWriter ==
  \A k, l \in Launches :
    pc[k] \in Writing /\ pc[l] \in Writing /\ shardOf[k] = shardOf[l] => k = l

DirectoryMade ==
  NonOverwriting => \A l \in Launches : pc[l] \in Writing => directory[shardOf[l]]

SavedItsRun ==
  \A l \in Launches : pc[l] \in {"saved", "reporting"} => checkpoint[shardOf[l]] = run[l]

ResultIsLast ==
  \A s \in Shards : result[s].state = "whole" =>
    /\ checkpoint[s] = result[s]
    /\ NonOverwriting => directory[s]
    /\ \A l \in Launches : shardOf[l] = s => pc[l] \notin Writing

SummaryOfResults ==
  \A x \in summary : \A s \in Shards : result[s] = Whole(x.reported[s])

IInv == /\ Types /\ OneWriter /\ DirectoryMade /\ SavedItsRun /\ ResultIsLast
        /\ SummaryOfResults /\ SummaryOnOneCorpus
=============================================================================
