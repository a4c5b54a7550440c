----------------------------- MODULE BranchSearch -----------------------------
(***************************************************************************)
(* search_fixed_assignment_schedule: branch search over the dispatch tree  *)
(* of one assignment.  Exact mode walks the whole tree depth first,        *)
(* skipping partial schedules it has seen; beam mode keeps a few nodes per *)
(* level.  Both stop early on a node or a time budget, and the final       *)
(* status must not claim more than was searched.                           *)
(*                                                                         *)
(* The rank of the beam (_beam_rank) only decides which nodes survive; it  *)
(* is left open here, so what holds of beam mode holds for every ranking.  *)
(***************************************************************************)
EXTENDS PlanVerifier, Objectives, SequencesExt

CONSTANTS
  Searches,            \* [mode, node_limit, beam_width, timed] a caller may ask for
  AssignmentChoices,   \* assignments a caller may pass
  Weights              \* objective_weights

ASSUME SearchesAssumption ==
  Searches \subseteq [mode: {"exact", "beam"}, node_limit: Nat \ {0},
                      beam_width: Nat \ {0}, timed: BOOLEAN]
ASSUME AssignmentsAssumption ==
  \A a \in AssignmentChoices : a = [s \in DOMAIN a |-> a[s]]
ASSUME WeightsAssumption ==
  Weights \in [makespan: Nat, load_variance: Int, travel_setup_time: Int,
               priority_tardiness: Int]

VARIABLES
  instance, assignment, search,  \* arguments; never change
  frontier,              \* the stack of exact mode (top first), the level of beam mode
  seen,                  \* exact mode: the nodes taken from the stack, by _state_key
  queue, candidates,     \* beam mode: states left in this level, nodes of the next
  level,                 \* beam mode: levels finished
  nodes,                 \* children generated so far
  cut,                   \* budget_exhausted
  best,                  \* best_plan, EmptyPlan for None
  status

searchVars == <<instance, assignment, search, frontier, seen, queue, candidates, level,
                nodes, cut, best, status>>
args == <<instance, assignment, search>>
beam == <<queue, candidates, level>>

SearchInit ==
  /\ instance \in Instances
  /\ assignment \in AssignmentChoices
  /\ search \in Searches
  /\ frontier = <<EmptyPlan>>
  /\ seen = {}
  /\ queue = <<>> /\ candidates = <<>> /\ level = 0
  /\ nodes = 0
  /\ cut = FALSE
  /\ best = EmptyPlan
  /\ status = "new"

-----------------------------------------------------------------------------
(* _expand.                                                                *)

On(n, r) == {x \in DOMAIN n : n[x].robot = r}

\* robot_last_end and robot_last_exit: those of the last item, or of the base.
Latest(n, r)     == CHOOSE x \in On(n, r) : n[x].index = Cardinality(On(n, r)) - 1
LastEnd(n, r)  == IF On(n, r) = {} THEN instance.on[r] ELSE n[Latest(n, r)].end
LastExit(n, r) == IF On(n, r) = {} THEN instance.base[r] ELSE n[Latest(n, r)].exit

StartOf(n, s) ==
  LET r == assignment[s]
  IN  CHOOSE t \in StartChoices(instance, n, s, r, LastEnd(n, r), LastExit(n, r)) :
        EarliestOn(instance, n, s, r, LastEnd(n, r), LastExit(n, r), t)

Child(n, s) ==
  LET r == assignment[s]
  IN  Extend(n, s, Item(instance, s, r, Cardinality(On(n, r)), StartOf(n, s), LastExit(n, r)))

Survives(n, s) ==
  /\ Ready(instance, n, s)
  /\ InTime(instance, s, assignment[s], StartOf(n, s) + instance.dur[s])

\* The segments whose child survives the deadline checks, in id order.
Branches(n) ==
  LET live == {s \in Segments : Survives(n, s)}
  IN  [k \in 1 .. Cardinality(live) |->
         CHOOSE s \in live : Cardinality({x \in live : x < s}) = k - 1]

Children(n) == LET b == Branches(n) IN [k \in DOMAIN b |-> Child(n, b[k])]

ScoreOf(p) == Score(instance, p, Weights)

\* Mutant of Improves: the comparison is the wrong way round.
Worsens(p) == best = EmptyPlan \/ ScoreOf(p) > ScoreOf(best)

Improves(p) == best = EmptyPlan \/ ScoreOf(p) < ScoreOf(best)

\* The nodes checked so far may be at the limit; the clock may be past it.
OverBudget == nodes >= search.node_limit
Expired == OverBudget \/ search.timed

-----------------------------------------------------------------------------
(* The checks on the arguments.                                            *)

\* Mutant of Accepted: the edges are not asked about.
AcceptedUnchecked ==
  /\ DOMAIN assignment = Segments
  /\ \A s \in Segments : assignment[s] \in Robots

Accepted ==
  /\ DOMAIN assignment = Segments
  /\ \A s \in Segments : assignment[s] \in Robots
  /\ \A s \in Segments : EdgeFeasible(instance, s, assignment[s])

Reject ==
  /\ status = "new" /\ ~ Accepted
  /\ status' = "invalid_assignment"
  /\ UNCHANGED <<args, frontier, seen, beam, nodes, cut, best>>

Start ==
  /\ status = "new" /\ Accepted
  /\ status' = "search"
  /\ queue' = IF search.mode = "beam" THEN frontier ELSE <<>>
  /\ UNCHANGED <<args, frontier, seen, candidates, level, nodes, cut, best>>

-----------------------------------------------------------------------------
(* Exact mode: one iteration of while frontier.                            *)

Exact == status = "search" /\ search.mode = "exact"

\* budget_exhausted = True; break
ExactStop ==
  /\ Exact /\ frontier # <<>> /\ Expired
  /\ cut' = TRUE
  /\ status' = "collect"
  /\ UNCHANGED <<args, frontier, seen, beam, nodes, best>>

\* Take the top of the stack, when the budget allows.
Pop ==
  /\ Exact /\ frontier # <<>> /\ ~ OverBudget
  /\ UNCHANGED <<args, beam, cut, status>>

Skip ==
  /\ Pop /\ frontier[1] \in seen
  /\ frontier' = Tail(frontier)
  /\ UNCHANGED <<seen, nodes, best>>

Leaf ==
  /\ Pop /\ frontier[1] \notin seen /\ Complete(frontier[1])
  /\ frontier' = Tail(frontier)
  /\ seen' = seen \cup {frontier[1]}
  /\ best' = IF Improves(frontier[1]) THEN frontier[1] ELSE best
  /\ UNCHANGED nodes

Grow ==
  /\ Pop /\ frontier[1] \notin seen /\ ~ Complete(frontier[1])
  /\ \E kids \in {Children(frontier[1])} :
       /\ frontier' = kids \o Tail(frontier)
       /\ nodes' = nodes + Len(kids)
  /\ seen' = seen \cup {frontier[1]}
  /\ UNCHANGED best

Exhaust ==
  /\ Exact /\ frontier = <<>>
  /\ status' = "collect"
  /\ UNCHANGED <<args, frontier, seen, beam, nodes, cut, best>>

-----------------------------------------------------------------------------
(* Beam mode: one state of a level, or the end of a level.                 *)

Beam == status = "search" /\ search.mode = "beam" /\ level < Cardinality(Segments)

\* The children of the next state, as many as the node budget leaves.
BeamExpand ==
  /\ Beam /\ queue # <<>> /\ ~ OverBudget
  /\ \E kids \in {Children(queue[1])} :
       LET kept == SubSeq(kids, 1, Min({Len(kids), search.node_limit - nodes}))
       IN  /\ candidates' = candidates \o kept
           /\ nodes' = nodes + Len(kept)
           /\ cut' = (cut \/ Len(kept) < Len(kids))
  /\ queue' = Tail(queue)
  /\ UNCHANGED <<args, frontier, seen, level, best, status>>

\* budget_exhausted = True; break: the rest of this level is not expanded.
BeamStop ==
  /\ Beam /\ queue # <<>> /\ Expired
  /\ cut' = TRUE
  /\ queue' = <<>>
  /\ UNCHANGED <<args, frontier, seen, candidates, level, nodes, best, status>>

\* if not candidates: the frontier empties and the loop breaks.
BeamDry ==
  /\ Beam /\ queue = <<>> /\ candidates = <<>>
  /\ frontier' = <<>>
  /\ status' = "collect"
  /\ UNCHANGED <<args, seen, beam, nodes, cut, best>>

\* The orders _beam_rank may put the nodes in: it is left open which.
Rankings(kept) == SetToSeqs(kept)

\* Candidates with equal keys are merged; the best ranked beam_width survive.
BeamKeep ==
  /\ Beam /\ queue = <<>> /\ candidates # <<>>
  /\ LET unique == Range(candidates)
         width  == Min({search.beam_width, Cardinality(unique)})
     IN  /\ \E kept \in kSubset(width, unique) : \E ranked \in Rankings(kept) :
              /\ frontier' = ranked
              /\ queue' = ranked
         /\ cut' = (cut \/ width < Cardinality(unique))
  /\ candidates' = <<>>
  /\ level' = level + 1
  /\ UNCHANGED <<args, seen, nodes, best, status>>

\* After the last level, in the order of the frontier.
BeamCollect ==
  /\ status = "search" /\ search.mode = "beam" /\ level = Cardinality(Segments)
  /\ IF frontier = <<>> THEN status' = "collect" /\ UNCHANGED <<frontier, best>>
     ELSE /\ frontier' = Tail(frontier)
          /\ best' = IF Complete(frontier[1]) /\ Improves(frontier[1])
                     THEN frontier[1] ELSE best
          /\ UNCHANGED status
  /\ UNCHANGED <<args, seen, beam, nodes, cut>>

-----------------------------------------------------------------------------
(* The verdict.                                                            *)

\* Mutant of SearchComplete: a search cut short counts as complete.
CompleteAnyway == search.mode = "exact"

SearchComplete == search.mode = "exact" /\ ~ cut

Conclude ==
  /\ status = "collect"
  /\ status' = IF best = EmptyPlan
               THEN IF SearchComplete THEN "infeasible" ELSE "limit"
               ELSE IF SearchComplete THEN "optimal" ELSE "feasible_limit"
  /\ UNCHANGED <<args, frontier, seen, beam, nodes, cut, best>>

SearchNext ==
  \/ Reject \/ Start
  \/ ExactStop \/ Skip \/ Leaf \/ Grow \/ Exhaust
  \/ BeamExpand \/ BeamStop \/ BeamDry \/ BeamKeep \/ BeamCollect
  \/ Conclude

SearchSpec == SearchInit /\ [][SearchNext]_searchVars

-----------------------------------------------------------------------------
(* Properties.                                                             *)

\* "infeasible" is a fact about the assignment, not about left-justified
\* dispatching: no start times at all make it pass the verifier's timing checks.
InfeasibleIsProved == status = "infeasible" => TimedPlans(instance, assignment) = {}

\* "optimal" is optimal among all plans the verifier would accept for the
\* assignment, including those no dispatch sequence builds; skipping seen
\* keys and dispatching at earliest starts lose nothing.
OptimalIsOptimal ==
  status = "optimal" => \A p \in TimedPlans(instance, assignment) : ScoreOf(best) <= ScoreOf(p)

\* The independent verifier accepts a returned plan, complete, timed and on edges
\* the oracle allows; hand-off policies are the caller's, who gave the robots.
ReturnedPlanVerifies ==
  best # EmptyPlan /\ SameRobotHandoff(instance, best) => VerifiedFeasible(instance, best)
=============================================================================
