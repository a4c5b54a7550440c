# Verification of the continuous task allocation code

This directory models `safe_residual_rl.allocation`, the part of the repository that
assigns the segments of continuous processes (welds, glue lines, sealing passes) to several
robots, orders and times them, and checks the plans it produces; and the scripts that
generate its corpora, train, calibrate and evaluate, as processes that share directories,
overlap and are killed. TLC checks the models on small instances; TLAPS proves the central
theorems for every instance.

Source paths below are relative to `src/src/safe_residual_rl/allocation/` unless they start
with `src/`.

## 1. Inventory

### The allocation package

| Component | State it keeps | Operations | Hard behaviour | What makes it correct |
|---|---|---|---|---|
| schema and validation (`schema.py`) | immutable instance | parse, `validate_instance` | cycle check looks at predecessors only | accepted instances are those the schedulers can reason about |
| edge oracle (`oracle.py`) | none | `estimate_edge` | four conditions and two windows | an edge is feasible only if some start suits both windows |
| list scheduler (`scheduling.py:28-138`) | `scheduled`, `next_index`, exits, resource intervals | one head dispatched per round | order of dispatch, deadlocks, three deadlines at a boundary | feasible plans verify; deadlock verdicts are exact |
| deadline-aware scheduler (`scheduling.py:141-288`) | `scheduled`, per-robot last end, exit, order index | least-slack segment dispatched per round | running totals, early give-up on negative slack | the same, without given orders |
| start search (`scheduling.py:325-352`) | `candidate` | jump past blocked ends | unbounded loop, sampled occupancy | returns the earliest start with room for the whole span |
| branch search (`search_scheduling.py`) | stack or beam level, seen keys, node count, best plan | pop, expand, merge, prune, conclude | budgets that run out in the middle, merging of equal nodes | `infeasible` and `optimal` are facts about all plans |
| objectives (`scheduling.py:291-380`) | none | four terms of a plan | recomputed from the plan, not from the schedule | terms describe the schedule they are reported with |
| verifier (`verifier.py`) | none | `verify_plan` | independent walk of each robot's tool, sampled capacity | accepts only plans that respect every constraint at every instant |
| assignment solvers (`solvers/`, `search/anytime.py`) | incumbent assignment, nodes, budgets | greedy, load balanced, Hungarian, MILP, three LNS, assignment beam, joint reference, initializer | claims of optimality on top of budgets of another search | `optimal` and `infeasible` only after complete enumeration |
| identical repair (`repair/identical.py`) | current, best, first feasible and target times | six operators, evaluate, accept | incumbent and times kept apart from the states they describe | returns the best verified state seen, with its times |
| ALNS engines (`search/alns.py`, `alns_v2.py`, `alns_protocol_r.py`, `operators*.py`, `repair_protocol_r.py`) | current, best, incumbents, trace; in a repair: orders, remaining units | destroy, repair, accept, restart | deadline and watchdog in the middle of a repair, units no robot can take, late candidates | a repair moves only what was destroyed and ends; the returned plan is what had been found by the cutoff |
| trace and replay (`search/trace.py`) | recorded steps | snapshot at budget or iteration, replay | a restart is not a recorded step | a trace replays to the states it records |
| pointer and graph decoders (`pointer_decoder.py`, `pointer_pilot.py`, `decoding.py`, `masks.py`) | assigned units, orders | masked rollout, teacher actions and their replay, static decoding | units contract segments, so dependencies can become circular | only orders that can be scheduled; a dead end only where there is no way on |
| learning (`training.py`, `pointer_training.py`) | weights, best epoch, patience | epochs with validation selection | ties, infinite scores | the evaluation reported is of the weights kept |

### The scripts

| Component | State on disk | Operations | Hard behaviour | What makes it correct |
|---|---|---|---|---|
| A3 frozen evaluation (`src/scripts/run_a3_final_evaluation.py`, `final_evaluation.py`) | predictions, witness audit, decision, report | load, evaluate, save, audit, decide, report | a failure or kill between any two | a report rests on a saved decision, predictions and audit |
| A3.5 sealed final (`src/scripts/*a3_5_final*.py`, `pointer_final.py`) | preflight, seal, benchmark, attempt marker, verdict | preflight, seal, generate, evaluate once | check-then-write, two launches, edits of sealed sources | frozen data is opened once, after the seal; a verdict rests on the sealed chain |
| warm-start pilot (`src/scripts/run_a4_warm_start_pilot.py`) | corpus, targets, seal, access markers, shards, summary | generate, develop, seal, evaluate per cell, aggregate | array job with a cell launched twice, kills, edits | a summary reads shards made under the seal on disk |
| Protocol R pipeline (`src/scripts/run_a4b_protocol_r.py`, `src/scripts/submit_a4b_protocol_r_chain.sh`, `search/protocol_r_pipeline.py`, `search/data_protocol_r.py`) | corpus, shards, gates | nine stages linked by `afterok`, three of them packed | chains submitted twice, workers that fail, edits | one chain passes the corpus; the final result rests on passed gates |
| challenge generation (`search/data_protocol_r.py:196-364`) | attempt, variants | tighten windows, judge | units of several segments | each prefix keeps the witness and excludes the initializer's plan |
| calibration and recovery (`src/scripts/run_a4b_ordinary_lns_development.py`) | traces, metadata, recovery record, merge, gates | calibrate, recover, merge, gate, labels, development | two files per cell, written apart; recovery beside native runs | a merge reads rows and traces of one run |
| baseline development (`src/scripts/run_a4b_baseline_development.py`) | selection, three files per cell, labels, summary | select, run cell, label, aggregate | kills between files | a summary counts whole shards |
| training matrices (`src/scripts/run_a3_w10_shard.py`, `run_a3_5_pointer_shard.py`, `aggregate_*.py`) | checkpoint and result per shard, summary | train, reuse, aggregate | two launches of one shard, corpus generated anew | a summary's checkpoints are those evaluated, on one corpus |
| development corpora (`src/scripts/generate_a3_5_pointer_data.py`, `search/data.py`, `search/data_v2.py`, `graphs/dataset.py`) | records, manifest | generate, clear, load | kills between records, edits | what is loaded is what the manifest lists |
| paper benchmark (`src/scripts/run_a2_paper_v2.py`, `paper_benchmark.py`) | instance files, frozen manifest, shards, report | materialise, audit, freeze, verify, run, report | a corpus overwritten, shards of an earlier launch | a report is about the frozen corpus it names |
| residual control (`src/src/safe_residual_rl/envs`, `safety`, `kinematics`, `algorithms`) | kinematic state, action delay queue, histories | reset, step, project | clipping | continuous arithmetic: outside these methods |

How they interact: every call of the package works on one immutable instance. The solvers,
repairs, engines, decoders and witnesses produce either orders (for `build_schedule`) or an
assignment (for `build_deadline_aware_schedule` or the branch search), take the plan they get
back to `verify_plan`, and rank plans by `compute_proxy_objectives`. The schedulers and the
search share `_resource_feasible_start`, `_parent_previous_map` and `segment_entry_exit`; the
verifier shares only the geometry. Each call runs in one thread. Concurrency exists between
processes: array tasks, chains of Slurm jobs and repeated launches of a script that share an
output directory, and the operator who edits sources, clears directories and starts again.

## 2. Modules

| Module | Models | Uses |
|---|---|---|
| `AllocationModel` | instance, dependencies, entry and exit of a segment, occupancy, bounds, deadlines | |
| `PlanVerifier` | `verify_plan`, one operator per reason code; all timed plans of an assignment, judged by it alone | `AllocationModel` |
| `DispatchTree` | the tree of partial schedules that `_expand` grows; abstract specification of the schedulers | `PlanVerifier` |
| `ResourceStart` | `_resource_feasible_start`, one loop iteration per step | `AllocationModel` |
| `ListScheduler` | `build_schedule` | `DispatchTree` by refinement |
| `DeadlineScheduler` | `build_deadline_aware_schedule` | `DispatchTree` by refinement |
| `Objectives` | `compute_proxy_objectives`; `MCDispatchTree` says what its terms mean | `AllocationModel` |
| `BranchSearch` | `search_fixed_assignment_schedule` | `PlanVerifier`, `Objectives` |
| `IncumbentLog` | abstract specification of an anytime search: a log of strict improvements in time order | |
| `SearchTrace` | what the search engines share: acceptance, judging a candidate, restart; readers of their traces | |
| `AlnsSearch` | `run_search` (`search/alns.py`) | `SearchTrace`; `IncumbentLog` by refinement |
| `AnytimeSearch` | `run_search_v2`, whose control `run_search_protocol_r` repeats | `SearchTrace` |
| `RepairLoop` | destroy and repair of the three engines, one round per step | |
| `PointerRollout` | masked rollout, teacher actions and replay, rebuilt states, static decoding | `AllocationModel` |
| `AssignmentSolvers` | the assignment solvers, the joint reference, the initializer | |
| `IdenticalRepair` | `identical_repair` | |
| `SealedFinal`, `FrozenEvaluation`, `WarmStartPilot` | the three evaluations that may run once | |
| `ProtocolRPipeline`, `ChallengeGeneration` | the Protocol R chain; its challenge groups | |
| `CalibrationRecovery`, `BaselineDevelopment` | the two development runners of A4b | |
| `TrainingMatrix` | both training matrices, by a constant; validation selection | |
| `CorpusGeneration` | the pilot corpus and the one-shot corpora, by a constant | |
| `PaperBenchmark` | the paper corpus and its runner | |
| `AllocationCalls` | the calls that decide alone, side by side | `ResourceStart`, `RepairLoop`, `PointerRollout`, `AnytimeSearch`, `IdenticalRepair`, `AssignmentSolvers` |
| `FinalEvaluations` | the three evaluations, side by side | `SealedFinal`, `FrozenEvaluation`, `WarmStartPilot` |
| `ExperimentPipelines` | the scripts that generate, train, calibrate and develop, side by side | the seven modules above that start with `ProtocolRPipeline` |
| `MCInstances`, `MC*` | instances and constants for TLC | |
| `AllocationLemmas`, `*Proofs` | lemmas, and the proofs of one module each | TLAPS |

### How state corresponds to code

*Time* is integer; comparisons with `_TOL` or `1e-12` become exact. *Plans* are functions from
placed segments to `[robot, index, start, end, exit]`: a `ScheduledSegment` plus the tool
position the schedulers keep beside it. `resource_intervals[q]` is not a variable: it is the
set of spans of the placed holders of `q`, which is what every writer appends to it. Segment
ids are naturals so that id order breaks ties as the code's string order does.

*Dispatch* is one step: candidate selection, earliest start, deadline checks, the item and
the totals of its robot change together, as one round of the loop does. The start is
described as the earliest one with room (`IsEarliest`); `ResourceStart` models the loop that
computes it and proves that this is what it returns. Callers hand the loop a base candidate
that already includes the openings of the resources, which is why the openings are bounds
both in `LowerBounds` and in the loop.

*Arguments* are chosen in `Init` and never change. Malformed arguments (orders that miss or
repeat a segment, unknown robots) are among the choices, so the argument checks of each entry
point are actions too.

*Search engines.* A state (an assignment of atomic units with an order per robot) is a value
with a `quality`: whether its rebuilt plan verifies, and its objective or surrogate. `quality`
is chosen in `Init` and is a function, because `evaluate_state` is deterministic. In
`AlnsSearch` and `AnytimeSearch` any state may be the candidate; `RepairLoop` is what happens
inside that step. One step is one iteration of the loop: two readings of the clock (head and
after the repair), acceptance, best, incumbents, the restart counter, the restart and the
recorded step. Annealing accepts a worse state with a probability strictly between 0 and 1, so
both outcomes are possible. The clock is monotonic.

*Repair.* One step of `RepairLoop` is one round: the time and budget checks at its head, the
ranking of the insertions (any evaluated one may be taken: scores only choose), a cut in the
middle of the ranking, the fallback. `late` says that the deadline has passed; each test of
the clock in the code reads it.

*Decoders.* `PointerRollout` takes any unmasked pair at each step. Whether the final orders
can be scheduled is not computed again: it is what `ListScheduler!DeadlockExact` says, a
circular wait. `AssignmentSolvers` keeps the assignment concrete and takes the score of each
way of sequencing it as given; `IdenticalRepair` does so for the evaluation of a state.

*Scripts.* A file is absent, torn or whole and is named by what a later reader takes from it:
the run, the source version or the plans it was made with. Each action is one file operation
or one check; between any two another process may move and a process may be killed. A launch
happens at most once, so a repeated launch is another launch of the same kind. An edit changes
the version of the sources; in `ProtocolRPipeline`, `CorpusGeneration` and others the version a
process loaded and the version it hashes later are two variables. Slurm, the operator and
`scancel` are external actions, marked so in `PROJECT.json`.

### The composed modules

`AllocationCalls`, `FinalEvaluations` and `ExperimentPipelines` put components that share no
state side by side. A behaviour is of one component, named by `part`; the variables of the
others stay `Unused`, and a variable that several components call the same is one variable of
the composition. Nothing is lost by not interleaving them: they are different calls on
immutable arguments, or scripts with directories of their own. `Parts` names the components a
run explores. The constants of the components are constants of the composition, so its theorems
hold for every value of them; the `MC` modules and `.cfg` files give them values. The
properties are those of the component modules, each guarded by its `part`.

## 3. Runs

Instances of `MCInstances`: three segments, three robots, one shared resource, tool positions
on a line; durations 1 to 3; predecessors none, a pair, a chain, a join, and one against id
order; curves whole or cut in two in either id order, including instances that are circular
together with the predecessors (they pass `validate_instance`); loose, tight and late windows;
all three directions; capacity 1 and 2, and a resource that opens late and closes early; one
robot slower, one that leaves early. Three segments are the least number at which two segments
can conflict on a resource while a third waits for one of them, and at which a dispatch can
come between two others of another robot.

| Run | Shows | Bounds |
|---|---|---|
| `dispatch_tree` | every reachable partial schedule passes the verifier's timing checks, is within capacity at every instant and not just at the sampled ones, and is left-justified | all instances, all assignments |
| `travel_report` | (violation) the reported travel is not the travel of the schedule | core family and directed instances |
| `list_scheduler` | verdicts of `build_schedule`: feasible plans verify, `DEADLOCK` names a circular wait and every circular wait prevents success; dispatches are in time order and are edges of the tree | every split of every permutation of the segments over three robots, and five rejected orders |
| `deadline_scheduler` | verdicts of `build_deadline_aware_schedule`; a late candidate cannot be rescued by what other robots do, so giving up at once on negative slack is right; dispatches are edges of the tree | every assignment and three rejected ones |
| `branch_search` | `infeasible` and `optimal` hold of all plans the verifier would accept, also those no dispatch builds; the independent verifier accepts returned plans | tight instances, node limits 4 and 50, beam width 1 and 2, with and without a time limit that may expire at any check |
| `alns_search` | `best_state` is a best one of all states evaluated; `best_at_budget` shows what was known at the cut although the log holds improvements only; a verified current state stays verified through annealing and restarts; the incumbents implement `IncumbentLog` | three states of every quality, three iterations, restart after one or two steps, a limit the clock may or may not reach |
| `trace_replay` | (violation) `replay_trace` rejects the trace of a run that restarted | as `alns_search` |
| `allocation_calls` | see below | see below |
| `round_trip` | (violation) the state rebuilt from a verified plan can have no schedule | the decoder instances of `allocation_calls` |
| `final_evaluations` | see below | see below |
| `validation_race` | (violation) two launches of one cell both evaluate the validation split | the pilot of `final_evaluations` |
| `experiment_pipelines` | see below | see below |

Deadlock checking is off in all runs because each behaviour is one call, or a finite set of
launches, which end.

The beam rank (`_beam_rank`) is left open: any ranking of the merged candidates may survive,
so what is shown of beam mode does not depend on it.

### `allocation_calls`

| Property | Says | Bounds |
|---|---|---|
| `ReturnsEarliest` | `_resource_feasible_start` returns the earliest start with room at each instant of the span, although it jumps and samples | up to three spans of length 1 to 3 in 0..7 on two resources of capacity 1 and 2 |
| `RepairIsLocal` | a repair puts each destroyed unit back on one robot that can take it and leaves the others in their order, however it is cut | three units, two robots, every mask of finite costs, budgets of 1, 3, 5 and 20 evaluations, with and without a deadline |
| `RepairEnds` | the loop ends: unless no remaining unit has a robot and there is no deadline, when `alns_v2.py:270` repeats its round unchanged (`MayEnd` excludes exactly this) | the same |
| `BlocksNeverDeadlock` | orders built pair by pair under the mask, or by replaying a teacher, never wait in a circle; those of the static decoder and of a rebuilt state may | four segments on two robots; curves of one to three segments, coupled or not; precedence across them, some circular, some circular only after contraction |
| `DeadEndExact` | the mask runs empty only where the contracted units wait in a circle or a unit has no robot for all its segments: no earlier choice is to blame, so no backtracking is needed | the same |
| `ReturnsCutoffPlan` | the returned plan is a best one of the initializer's and of those completed by the deadline, and is what the log shows at the deadline unless the initializer came too late | three states of every quality, deadlines that pass before, between and within iterations |
| `IncumbentBookkeeping` | once verified the current state equals the incumbent, and the reported times are those of the incumbent | three units, one bound to a robot and one no robot can take; five iterations; with and without a budget |
| `JointReferenceExact` | the joint reference claims `optimal` or `infeasible` only when no assignment contradicts it, whatever budget ran out | two units on two robots, every way their assignments can turn out up to four shapes, budgets that stop the enumeration, the nodes or nothing |

### `final_evaluations`

| Property | Says | Bounds |
|---|---|---|
| `FrozenOpenedOnce` | only one launch ever reads the frozen instances | one preflight, one sealer, two generators, two evaluators, one edit |
| `VerdictRestsOnSeal` | predictions are saved before a witness is opened, and a verdict other than INVALID was computed on sources that hash to the seal on disk, under which its benchmark was generated | the same |
| `AttemptSettles` | an evaluation that wrote `attempt_started.json` records a verdict unless it is killed | the same, fair evaluators |
| `ReportRestsOnDisk` | a published class has its decision, rows and predictions on disk; a decision has its witness audit, which came after the predictions | a frozen item, a negative control, three methods, every status, failures and kills |
| `SummaryRestsOnSeal` | whoever wrote a shard the pilot's summary read ran the sealed sources with the sealed targets, though the sources were edited and restored in between; to continue takes every row of each cell | two cells, three launches, two edits, two sets of targets, one sealing |

With two generators and two evaluators every race between a check and the exclusive `mkdir`
after it exists. With a second sealer `VerdictRestsOnSeal` would fail (see the divergences
below); with a second sealing of the pilot `SummaryRestsOnSeal` would: both are bounds that stand
for an assumption on the operator.

### `experiment_pipelines`

| Property | Says | Bounds |
|---|---|---|
| `OneChainPastCorpus` | of two chains submitted at the same time only one gets past the corpus | two chains, two cells, two operators, one edit |
| `FinalRestsOnGates` | development and the final result rest on the gates and shards on disk | the same |
| `MergeReadsOneRun` | for each cell the merge takes rows and traces from one run, with recovery and native calibration side by side | two cells, three runs, two versions, two merges; one live run per cell (two would break it) |
| `SummaryReadsWholeShards` | the development summary counts whole shards of their last run | two cells, two launches each |
| `SummaryRestsOnCheckpoints` | the checkpoints of the shards a summary names stay those that were evaluated | two shards, three launches, two regenerations; W10 with one live launch per shard, the pilot with two |
| `SummaryOnOneCorpus` | the shards of a W10 summary were trained on the same data | the same |
| `PrefixSeparatesPlans` | each prefix of tightened units keeps the witness and, once not empty, excludes the initializer's plan | a unit of two segments and one of one, all times of a small even grid |
| `LoadedAsManifest` | a loaded corpus is what its manifest lists, teacher by teacher | two records, three launches, two edits; the pilot with one live launch (two would break it), the one-shot corpora with two |
| `ReportsFrozenCorpus` | a report's rows were computed on the corpus of the manifest it names | an instance and a negative control, four versions of the generator, three launches under two manifests, two edits |

Two cells, shards or records are the least for which one may be of one run and the other of
another; three launches let one that was killed be followed by one that finishes and one that
comes late; two edits let a source change and change back.

### Fairness

Only two properties need it. `RepairEnds`: the repair is one sequential call that is not
suspended (weak fairness of `Loop`) under a clock that goes on (weak fairness of
`DeadlinePasses`). `AttemptSettles`: an evaluation keeps running until it ends or is killed
(weak fairness of `Evaluate(j)`); killing is not fair, it just may happen. `Spec` of
`AlnsSearch` has weak fairness of `Next`, which no listed property uses.

### Findings

`travel_report`. `transition_time_s` (`scheduling.py:297`) recomputes the exit of the previous
segment as if its robot had entered it from the base. For a segment that may be run in either
direction the tool may have come from elsewhere and left at the other end, so the
`travel_setup_time` term is then not the travel the schedule allows for and the verifier checks.
The documents describe the term as the total travel and setup time
(`src/docs/09_phase1_continuous_allocation_execution_plan.md:135`).

`trace_replay`. `replay_trace` (`search/trace.py:197-204`) takes the last accepted candidate for
the state before the next step. `run_search` also moves to the best or the initial state when it
restarts (`search/alns.py:540-546`), which is not a recorded step, so the replay of a correct
trace with a restart raises "trace before-state mismatch". The doc string (`search/trace.py:196`)
promises to replay every candidate transition. The test sets `restart_no_improvement=100` and
never restarts; the shipped configurations restart after 12 steps.

`round_trip`. `state_from_plan` (`repair/identical.py:97-103`) keeps each robot's units in the
order of their first segments, and `evaluate_state` runs each unit as one block. A verified plan
that runs another unit between two members of a coupled one can be rebuilt into orders that wait
for each other: the solver's plan enters the repair as unverified. The test of the round trip
(`src/tests/allocation/test_a4_warm_start_pilot.py:120`) has a single segment.

`validation_race`. `evaluate` tests `marker.exists()` and writes the marker two lines later
without exclusion (`src/scripts/run_a4_warm_start_pilot.py:82-84`), so two launches of a cell can
both evaluate the validation split, which the message of line 84 calls a single access.

### Divergences read off the code

The modules model these as the code has them; no run is spent on them.

* `src/scripts/seal_a3_5_final_evaluator.py:19,26`: the sealer tests and writes in two steps, so
  a second launch may replace a complete "immutable" seal.
* `src/scripts/run_a3_final_evaluation.py:170-177`: stress items are evaluated before the primary
  predictions are saved; `src/docs/19_a3_one_time_frozen_evaluation_preregistration.md:71` has it
  the other way round.
* `src/scripts/run_a4b_protocol_r.py:523`: `merge_profile` compares no source hashes between
  shards; line 837: a development shard records the sources hashed at its end, not those it
  imported. `src/docs/39_a4b_protocol_r_freeze_package_draft.md:370` asks each merge for identical
  signatures.
* `search/data_protocol_r.py:270`: the maximum with the unit's witness finish may move the window
  end of one of its segments later; the same document, line 180, says that ends are only tightened.
* `src/scripts/run_a4b_ordinary_lns_development.py:805`: a native shard is merged together with
  recovered ones; `src/docs/36_a4b_v2_calibration_metadata_recovery_amendment.md:42` allows a
  complete recovery only. Line 1048: labels never read the train gate.
* `pointer_pilot.py:430-440`: teacher actions follow dependencies, so they are not always in the
  order of planned starts that `src/docs/21_a3_5_feasible_pair_pointer_pilot_preregistration.md:36`
  describes.
* `src/scripts/run_a4b_baseline_development.py:316-328`: rows of a fixed number of iterations may
  be of traces the time limit ended earlier.
* `paper_benchmark.py:297`: instance files are overwritten before the frozen manifest is compared,
  so the launch that `src/scripts/run_a2_paper_v2.py:67` refuses has already replaced them.

## 4. Proofs

All theorems hold for every value of the constants that satisfies the named assumptions: segments
are a finite non-empty set of naturals, robots and resources are finite and there is a robot,
distances are naturals, instances are well typed and pass `validate_instance` as far as it is
modelled, and (for the schedulers) orders are sequences and assignments functions. A state to
repair lists a unit at most once on a robot (`StartsAssumption`). For the branch search, `mode`,
`node_limit` and `beam_width` pass the checks of the function and the weight of the makespan is
not negative (`WeightsAssumption`: every configuration has 1.0): with a negative one a later
finish would score better, and `optimal` would be wrong.

* `AllocationLemmas`: occupancy between two sampled instants is that of the last sampled one
  (`LastEvent`, `SampledRoom`); a bigger plan leaves no more room (`FitsShrinks`); an instant with
  room has one at the last choice before it (`RoomAtChoice`); what a dispatch preserves, whoever
  chooses the segment (`Sound`, `StepSound`, `SoundClean`); types.
* `TreeSearchProofs`, the tree: the verifier's constraints are not inductive, because they speak of
  neighbours in the order of a robot and of a tool path that exists. The inductive invariant
  `IInv` says instead: items are typed and within all their bounds, dependencies of placed
  segments are placed and finished, the indices of a robot are exactly 0..count-1, the totals
  are those of its last item (or of its start), each item follows its predecessor by the
  approach from that predecessor's exit, items of a robot are ordered in time, and no holder
  overfills a resource at the start of an item. `TimingSoundHolds` and `CapacityHolds` follow.
  `LeftJustifiedHolds`: the earliest of the start choices is the earliest of all instants
  (`EarliestOfAll`), and what is placed later only takes room (`FitsShrinks`). `Justified` says
  it with the neighbour on the robot found by its index, which a step does not change.
* `TreeSearchProofs`, the branch search. The code recomputes the totals of a node from its plan;
  they are those a dispatch leaves behind (`ChildTotals`), so every node on the stack, in a level
  or among the seen ones satisfies `Sound` (`SearchSound`), and `ReturnedPlanVerifiesHolds`
  follows by the argument of the tree.
  Exact mode: while it is not cut short, the root and each surviving child of a partial node
  taken from the stack are on the stack or taken themselves, and no complete node taken beats
  `best` (`ExactSound`). At the end the stack is empty. Now let p be any plan of the assignment
  that passes the verifier's timing checks, whoever built it. Dispatching in the order of p's
  starts never falls behind p: a node that holds the segments p starts first, each at p's start
  or earlier, has room for the next one where p starts it, because its neighbours on the robot and
  its dependencies end no later and fewer items hold its resources (`PlaceInOrder`, `RoomAhead`);
  so the earliest start is no later, no deadline is missed, and the child is again ahead of p
  (`ChildAhead`). The largest such node among those taken is complete (`SeenCovers`), and it
  scores no worse than p (`EarlierScoresLess`): same robots and order, no later finish, nobody
  tardy. Hence `InfeasibleIsProvedHolds` and `OptimalIsOptimalHolds`. That the sums in the score
  are naturals needs the recursive fold of the community modules to exist; `SumIsNatural` exhibits
  it by counting.
* `DeadlineSchedulerProofs`, `ListSchedulerProofs`: each dispatch is a step of the tree
  (`StepTree`), so the schedulers inherit its theorems through the refinement mapping. The list
  scheduler keeps no totals: the mapping reads them off `next` and the plan, and `Facts` says
  that the plan holds exactly the segments before the cursors. `DeadlockExactHolds` is by the
  earliest-placed member of a supposed circular wait. `DispatchedInTimeOrderHolds` needs that a
  head that is ready never starts before what has been dispatched (`Ordered`), by `FitsShrinks`.
  `NoRescueByOthersHolds`: a step leaves placed items and the totals of the other robots alone
  (`StepGrows`), so a ready segment keeps its bounds and only loses room.

* `AlnsSearchProofs`: `BestIsBest` alone does not carry a step, because a restart takes the
  current state from `best` and the snapshots read times. The invariant adds that the current
  state has been evaluated (`SeenSound`), that each incumbent was a plan when recorded and none
  is better than `best` (`LogSound`), that each plan was matched by an incumbent no later and no
  worse (`LogComplete`), and that the log is ordered (`LogOrdered`). `SnapshotExactHolds` picks
  the greatest eligible index: it is the selected entry, so `min` over the eligible incumbents
  is the minimum over everything evaluated by then. `KeepsFeasibleHolds` needs that a verified
  current state implies a best state, hence never a restart from the initial one.
  `RefinesLogHolds` maps each incumbent to an entry of `IncumbentLog`, whose own promise
  `CutEndsInBest` (the last entry of a cut is its best) is `CutEndsInBestHolds`.

* `AllocationCallsProofs`, one section per call; each inductive invariant stands at the end of
  the component's module, or in the proof module where the argument needs more than its state.
  `ResourceStart`: between the bounds and `cand` no instant has room. A jump to
  the least blocked end keeps it (`JumpSkipsNothing`): up to that end every blocking span is
  still active on the resource it overfills. At the return nothing blocks, so the span has room
  (`NothingBlocks`).
  `RepairLoop`: while the loop runs, the units still out are on no robot, the others taken out are
  each on one robot that can take them, no order lists a unit twice, and without the units taken
  out the orders are those given (`InsertKeeps`). The last part is an equality of filtered
  sequences: `Without` gives the k-th unit that stays the k-th place, so inserting a unit that is
  taken out again moves the places and no rank (`WithoutInserted`).
  `PointerRollout`, dead ends: what is taken are whole units of the instance, each once, so the
  units left are those the mask speaks of; if none of them can be taken, each waits for another
  that is left, or has no robot (`NoneReady`).
  `PointerRollout`, no deadlock: being acyclic so far is not inductive. The invariant `Ranked`
  gives every taken segment a rank above what it depends on and above its predecessor on its
  robot. A unit is taken only when its dependencies are, so its members get the ranks above all
  others, in the order in which `topological_segment_order` lists them; that this order respects
  the dependencies inside a unit is `CurveFollowed`. The lowest member of a supposed circular
  wait contradicts it (`RankedNeverStuck`).
  `IdenticalRepair`: evaluations are typed and the recorded times lie in the past. Whether a
  candidate becomes current, best, both or neither keeps the incumbent (`JudgedKeepsIncumbent`)
  and its times (`JudgedKeepsTimes`).
  `AssignmentSolvers`: the incumbent is no worse than anything enumerated so far
  (`EnumeratedSoFar`), and an enumeration that has ended has met every admissible assignment
  (`EnumerationComplete`), which is what both claims rest on.
  `AnytimeSearch`: the best state is a best one of all plans completed in time (`BestOfPlans`),
  and the log holds each of its values once, with the time of its discovery (`LogOfBest`);
  a late candidate may become current but enters neither (`LateStep`).

* `FinalEvaluationsProofs`. `FrozenOpenedOnce` counts readers, which a launch becomes only two
  steps after its `mkdir`. The invariant adds the launches between their `mkdir` and their end:
  there is at most one among these and the readers, and while there is one the directory exists
  (`OneThroughMkdir`). Only a successful `mkdir` lets a launch in (`MkdirLetsOneIn`).
  `VerdictRestsOnSeal` needs that the seal does not change under a launch that checked it:
  with one sealer (`SealerIsOne`) it never changes once complete (`SealSettled`), so the
  sources a generator and an evaluator read before they compared them with it are those of the
  seal on disk, whatever is edited later (`GeneratedUnderSeal`, `EvaluatedUnderSeal`). `ReportRestsOnDisk`: each place of `main` leaves its files behind,
  files appear in the order of `WriteOrder` and none disappears, and witnesses are only read
  after the predictions (`LeftBehind`, `WrittenInOrder`, `WitnessesLate`). `SummaryRestsOnSeal`
  holds with one sealing (`MaxSeals = 1`): a launch past `validate_seal` runs the sealed sources
  and computes with targets no older than the sealed ones (`JobsOfTheSeal`), so does whoever wrote
  a shard (`ShardsOfTheSeal`), and the aggregation finds the newest targets to be the sealed ones.

* `ExperimentPipelinesProofs`, one section per script:
  - `MergeReadsOneRun`: the traces on disk are never older than the metadata beside them
    (`MetaOfOneRun`), and a merge in hand has read both of its current cell in that order
    (`MergeInHand`), so the validation that compares them rejects a run that came between. It
    rests on one live run per cell (`MaxLive`): only the last writer of traces may still be
    running (`LiveWroteTraces`).
  - `OneChainPastCorpus`, `FinalRestsOnGates`: whoever passed the exclusive `mkdir` is the only
    chain at the stages after it (`OneWriter`), so gates and shards it passed are still those on
    disk when it comes to rest on them (`GatesBehind`, `DevelopmentOfTheGate`, `Finalized`).
  - `SummaryReadsWholeShards`: a launch is let in only where no record is, and the record is
    written last (`LaunchedWithoutRecord`, `WrittenByLaunch`).
  - `SummaryRestsOnCheckpoints`, `SummaryOnOneCorpus`, for both matrices: one launch at a time
    is between opening and reporting a shard, and a whole result is of the checkpoint beside it
    (`OneWriter`, `ResultIsLast`). The pointer matrix gets this from its exclusive directory
    with any number of launches; W10, which has none, from one live launch per shard.
  - `LoadedAsManifest`: the plans on disk are those the live generation holds or the manifest
    lists (`MadeOnDisk`, `ManifestOfDisk`), with one live generation of the pilot corpus; the
    one-shot loader compares the plans itself.
  - `ReportsFrozenCorpus`: a frozen manifest is never replaced, a launch goes past the freeze
    only with the manifest of the source it loaded (`LaunchesMatch`), and each shard was
    computed on the instance its own manifest lists (`ShardsOfTheirManifest`).
  - `PrefixSeparatesPlans`: the ranking lists late units only (`RankedAreLate`: in a finite
    strict total order some member has k - 1 before it, `KthOfOrder`), a new window end lies
    between the finishes of the witness and of the initializer's plan (`NewEndBetween`), and
    disjoint units let the last segment of the first one decide (`TightenedSeparates`).

The hypotheses beyond the named assumptions are those of the composed modules: one live
calibration per cell, one live generation of the pilot corpus, one live W10 launch per shard
(`MaxLive <- 1`, what the operator's chain of jobs provides and the code does not check); and
those in the statements: one sealer, one sealing of the pilot. Without any of them TLC finds the
property violated.

Only model-checked: liveness (`RepairEnds`, `AttemptSettles`), which `tlapm` cannot reach.

Type correctness, `RoomForWholeSpan` and `NoEarlierStart` are proved and not repeated as runs.

## 5. Plan

Modelling is complete up to section 6, and every safety invariant and action property of a
passing run is proved. What is left is the hazards without a property.

## 6. Not modelled

* Parsing, identifiers, hashes and quaternion checks; floating point and tolerances; the
  oracle's cost and uncertainty.
* Gradients, models, features and graphs (`features.py`, `graphs/core.py`, `models/`): real-valued
  tensors, about which neither tool can say anything useful.
* Continuous kinematics, the residual environments and their algorithms: the same.
* Random geometry (`generation.py`, `benchmark.py`, `witness.py`, `fixtures.py`): what uses a
  generated instance takes its content as an input.
* Statistics over finished rows: means, bootstrap intervals, Wilcoxon tests, diagnostics.
* `prepared_repair.py` memoises the evaluations of `RepairLoop` and is not told apart from them;
  the adaptive weights of operators are left open.
* In `CalibrationRecovery` a development cell is one step; in `CorpusGeneration` and
  `PaperBenchmark` an instance and its plan are written whole.
* The linear program of the MILP solver (scipy) is any of its optimal solutions.

`PROJECT.json` lists each component with its status, and the hazards no property covers with
the reason.
