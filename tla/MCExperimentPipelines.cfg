SPECIFICATION PipelineSpec
CONSTANTS
  Parts = {"protocol_r", "calibration", "baseline", "training", "pointer_training", "challenge", "pilot_corpus", "one_shot_corpus", "paper"}
  Chains = {h1, h2}
  CellNames = {c1, c2}
  Operators = {o1, o2}
  Launches = {l1, l2, l3}
  Families = {edge_mlp, hetero_gnn}
  MaxVersion = 2
  MaxEdits = 2
  MaxOverlap = 2
  CellOrder <- MCCellOrder
  MaxRuns = 3
  MaxMerges = 2
  Budgets = {1, 2}
  MaxLaunches = 2
  MaxSelections = 1
  LabelOperators = {random}
  RepairOutcomes <- MCRepairOutcomes
  Shards <- MCShards
  familyOf <- MCfamilyOf
  Corpora <- MCCorpora
  Examples = {x1, x2}
  Infinite = 9
  Histories <- MCHistories
  MaxEpochs = 2
  Patience = 1
  MaxRegenerations = 2
  Units = {{1, 2}, {3}}
  ChallengeInstances <- MCChallengeInstances
  Variants = 2
  MaxAttempts = 2
  Records <- MCRecords
  SolverOutcomes <- MCSolverOutcomes
  Overlapping = {2}
  PaperInstances <- MCPaperInstances
  PaperSources <- MCPaperSources
  Designed = {n1}
  Manifests = {paperV4, other}
  edge17 = edge17
  gnn17 = gnn17
  x1 = x1
  x2 = x2
  r1 = r1
  r2 = r2
  i1 = i1
  n1 = n1
INVARIANTS
  OneChainPastCorpus
  FinalRestsOnGates
  MergeReadsOneRun
  
  
  
  PrefixSeparatesPlans
  
  
CHECK_DEADLOCK FALSE
