----------------------- MODULE MCExperimentPipelines ----------------------
(* TLC instance of ExperimentPipelines: two cells, two shards, two records,    *)
(* two instances, up to three launches, at most two of them at once.           *)
EXTENDS ExperimentPipelines, SequencesExt, Functions

CONSTANTS edge17, gnn17, x1, x2, r1, r2, i1, n1

\* TrainingMatrix: two shards, each with one history; a corpus with forbidden
\* splits, and two others a shard may train on.
MCShards == {edge17, gnn17}
MCfamilyOf == CHOOSE g \in [MCShards -> Families] : Range(g) = Families
MCHistories == {[e \in 1..2 |-> [score |-> [x \in {x1, x2} |-> 1], correct |-> 1]]}
Corpus(name, forbidden) ==
  [name |-> name, forbidden |-> forbidden, complete |-> TRUE, leaks |-> FALSE,
   manifest |-> TRUE, frozen |-> TRUE]
MCCorpora ==
  {Corpus("registered", FALSE), Corpus("regenerated", FALSE), Corpus("with_stress", TRUE)}

\* BaselineDevelopment: every repair gives the same.
MCRepairOutcomes == {[feasible |-> TRUE, objective |-> 1, cost |-> 1, edits |-> 1]}

\* ChallengeGeneration: a unit of two segments and one of one, finish times and
\* window ends on a short even grid, so that midpoints are whole and a segment of
\* a unit may have to end well before the unit does.
MCChallengeInstances ==
  {i \in [end : [1..3 -> {4, 8}], witness : [1..3 -> {2, 4, 6}], hybrid : [1..3 -> {4, 8}]] :
     \A s \in 1..3 : i.witness[s] <= i.end[s] /\ i.hybrid[s] <= i.end[s]}

\* CorpusGeneration: two records; solvers that end with a better plan, with the
\* witness only, or with nothing.
MCSolverOutcomes == {[milp |-> 1, lns |-> 2, witness |-> 2],
                   [milp |-> 0, lns |-> 2, witness |-> 2],
                   [milp |-> 0, lns |-> 0, witness |-> 0]}

\* PaperBenchmark: a negative control and an instance; sources that
\* generate the same corpus, another one, one that breaks a feasibility policy
\* half way, and one that leaks.
Contents(changed) == [i \in {n1, i1} |-> IF i \in changed THEN 1 ELSE 0]
Source(name, changed, covered, leaks) ==
  [name |-> name, content |-> Contents(changed), covered |-> covered, leaks |-> leaks]
MCPaperSources == {Source("registered", {}, {i1}, FALSE),
                 Source("generator edited", {i1}, {i1}, FALSE),
                 Source("narrower robots", {n1, i1}, {}, FALSE),
                 Source("shared layout", {n1}, {i1}, TRUE)}

MCCellOrder == <<"iid_small", "scale">>
MCRecords == <<r1, r2>>
MCPaperInstances == <<n1, i1>>
=============================================================================
