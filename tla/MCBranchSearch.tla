---------------------------- MODULE MCBranchSearch ----------------------------
(* TLC instance of BranchSearch: tight instances, every assignment, both modes, *)
(* ample and scarce node budgets, with and without a time limit.                *)
EXTENDS BranchSearch, MCInstances

SearchInstances ==
  Family({<<2, 1, 3>>}, {<<{}, {}, {}>>, <<{2}, {}, {}>>}, Shapes,
         {w \in Windows : w.closes # <<12, 12, 12>>},
         {<<"reverse", "either", "forward">>},
         {z \in Zones : z.uses = <<{1}, {1}, {1}>> \/ z.uses = <<{}, {}, {}>>})

Request(mode, limit, width, timed) ==
  [mode |-> mode, node_limit |-> limit, beam_width |-> width, timed |-> timed]

MCSearches ==
  {Request("exact", 50, 1, FALSE), Request("exact", 4, 1, TRUE),
   Request("beam", 50, 2, FALSE), Request("beam", 4, 1, TRUE)}

MCAssignments == [Segments -> Robots] \cup {<<1, 2>>, <<1, 4, 2>>}

MCWeights ==
  [makespan |-> 10, load_variance |-> 1, travel_setup_time |-> 1, priority_tardiness |-> 10]
=============================================================================
