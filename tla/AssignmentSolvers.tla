--------------------------- MODULE AssignmentSolvers ---------------------------
(***************************************************************************)
(* The solvers that choose which robot takes each atomic unit: greedy and  *)
(* load-balanced heuristics, Hungarian slots, the assignment MILP, three   *)
(* neighbourhood searches, the assignment beam and the joint reference;    *)
(* and adapt_solver_initializer, which turns a result into the state the   *)
(* ALNS starts from.  Only the assignment is concrete.  What sequencing    *)
(* makes of an assignment is given: the weighted score each scheduling     *)
(* method reaches, or NoPlan.  A plan of those methods verifies            *)
(* (ListScheduler, DeadlineScheduler and BranchSearch), so the branch      *)
(* "verification_failed" is left out.                                      *)
(***************************************************************************)
EXTENDS Integers, FiniteSets, SequencesExt, FiniteSetsExt

CONSTANTS
  UnitCount,    \* number of atomic units
  Robots,       \* robots, integers in the order of their names
  Instances,    \* instances: records [cost, seq, combinations, nodes]
  NoPlan,       \* score of an assignment without schedule; above every score
  Forbidden,    \* cost of a robot that cannot take the unit
  Iterations,   \* iterations of a neighbourhood search
  DestroyCount, \* max(1, ceil(fraction * units))
  BeamWidth,    \* assignment_beam_width
  SearchNodes   \* nodes one complete exact search expands

\* What the constants are: no score exceeds NoPlan.
SolverAssumption ==
  /\ NoPlan \in Nat /\ SearchNodes \in Nat
  /\ IsFiniteSet([1..UnitCount -> Robots])
  /\ \A I \in Instances :
       /\ I.nodes \in Nat
       /\ \A a \in [1..UnitCount -> Robots] : I.seq[a].exact \in 0..NoPlan

VARIABLES
  given,   \* the instance: cost[u][r], seq[a] (scores of a by "fixed", "deadline",
           \* "beam" and "exact" sequencing), and the limits of the joint reference
  method,  \* the solver that runs
  step,    \* iteration of a neighbourhood search, or assignments enumerated
  best,    \* [score, of] incumbent of the search and its assignment
  nodes,   \* nodes expanded by the joint reference
  result,  \* [status, score, of, incumbent] or NoResult
  outcome  \* [actual, of, true, fallback] or NoOutcome

vars == <<given, method, step, best, nodes, result, outcome>>

Units == 1..UnitCount
Assignment == [Units -> Robots]
Unassigned == [u \in Units |-> 0]
NoResult == [status |-> "running", score |-> NoPlan, of |-> Unassigned,
             incumbent |-> Unassigned]
NoOutcome == [actual |-> "none", of |-> Unassigned, true |-> FALSE, fallback |-> FALSE]

LnsMethods == {"deterministic_lns", "order_aware_lns", "beam_alns"}
OneShot == {"greedy", "load_balanced", "hybrid", "hungarian", "milp", "assignment_beam"}

-----------------------------------------------------------------------------
(* Costs of units on robots.                                               *)

Eligible(u) == {r \in Robots : given.cost[u][r] # Forbidden}
UnitWithoutRobot == \E u \in Units : Eligible(u) = {}
Admissible == {a \in Assignment : \A u \in Units : a[u] \in Eligible(u)}

Load(a, r) ==
  FoldSet(LAMBDA u, sum : sum + given.cost[u][r], 0, {u \in Units : a[u] = r})

\* (load + cost, robot): the key the robots of unit u are compared by.
Better(q, r, u, a) ==
  LET Key(x) == Load(a, x) + given.cost[u][x]
  IN Key(q) < Key(r) \/ (Key(q) = Key(r) /\ q < r)

\* The first k robots for u when the other units are placed as in a.
FirstRobots(a, u, k) ==
  {r \in Eligible(u) :
     Cardinality({q \in Eligible(u) : Better(q, r, u, a)}) < k}

\* The destroyed units, in that order, from their first k choices.
reinsert_units(a, order, k) ==
  FoldLeft(LAMBDA found, u : UNION {{[b EXCEPT ![u] = r] : r \in FirstRobots(b, u, k)}
                                      : b \in found},
           {a}, order)

load_balanced_assignment ==
  CHOOSE a \in reinsert_units(Unassigned, [u \in Units |-> u], 1) : TRUE

greedy_assignment ==
  [u \in Units |-> CHOOSE r \in FirstRobots(Unassigned, u, 1) : TRUE]

-----------------------------------------------------------------------------
(* From an assignment to a result.                                         *)

Scheduled(a, policy) ==
  IF policy = "best_of" THEN Min({given.seq[a].fixed, given.seq[a].deadline})
  ELSE given.seq[a][policy]

finalize_assignment(a, policy, success) ==
  [status |-> IF Scheduled(a, policy) = NoPlan THEN "schedule_infeasible" ELSE success,
   score |-> Scheduled(a, policy), of |-> a, incumbent |-> a]

Infeasible == [NoResult EXCEPT !.status = "infeasible"]

solve_incremental(a, policy) ==
  IF UnitWithoutRobot THEN Infeasible ELSE finalize_assignment(a, policy, "feasible")

\* Repeated slots per robot: the cost of a unit grows with its slot.
SlotCost(s) == FoldSet(LAMBDA u, sum : sum + given.cost[u][s[u][1]] * (1 + s[u][2]), 0, Units)
Slots == {s \in Injection(Units, Robots \X (0 .. UnitCount - 1)) :
            \A u \in Units : s[u][1] \in Eligible(u)}

hungarian ==
  IF UnitWithoutRobot THEN {Infeasible}
  ELSE {finalize_assignment([u \in Units |-> s[u][1]], "fixed", "feasible") :
          s \in {t \in Slots : \A o \in Slots : SlotCost(t) <= SlotCost(o)}}

Makespan(a) == Max({Load(a, r) : r \in Robots})

\* The MILP minimizes the largest load; at its time limit it has any incumbent
\* or none.
assignment_milp(policy) ==
  IF UnitWithoutRobot THEN {Infeasible}
  ELSE {finalize_assignment(a, policy, "optimal") :
          a \in {b \in Admissible : \A c \in Admissible : Makespan(b) <= Makespan(c)}}
       \cup {finalize_assignment(a, policy, "feasible_limit") : a \in Admissible}
       \cup {[NoResult EXCEPT !.status = "limit"]}

\* Any BeamWidth admissible assignments survive the beam (which ones its rank
\* decides); the best of their sequences is returned.
assignment_beam ==
  LET Result(S) ==
        LET a == CHOOSE b \in S : \A c \in S : given.seq[b].beam <= given.seq[c].beam
        IN IF given.seq[a].beam = NoPlan
           THEN [NoResult EXCEPT !.status = "schedule_infeasible"]
           ELSE [status |-> "feasible", score |-> given.seq[a].beam, of |-> a,
                 incumbent |-> Unassigned]
  IN IF UnitWithoutRobot THEN {Infeasible}
     ELSE {Result(S) : S \in kSubset(Min({BeamWidth, Cardinality(Admissible)}), Admissible)}

-----------------------------------------------------------------------------

Init ==
  /\ given \in Instances
  /\ method \in LnsMethods \cup OneShot \cup {"joint"}
  /\ step = 0 /\ nodes = 0
  /\ best = [score |-> NoPlan, of |-> Unassigned]
  /\ result = NoResult /\ outcome = NoOutcome

Running(m) == method = m /\ result = NoResult
Return(r) == result' = r /\ UNCHANGED <<given, method, step, best, nodes, outcome>>

\* The solvers without a search of their own.
solve_greedy == Running("greedy") /\ Return(solve_incremental(greedy_assignment, "fixed"))

solve_load_balanced ==
  Running("load_balanced") /\ Return(solve_incremental(load_balanced_assignment, "fixed"))

solve_hybrid_load_balanced ==
  Running("hybrid") /\ Return(solve_incremental(load_balanced_assignment, "best_of"))

solve_hungarian == Running("hungarian") /\ \E r \in hungarian : Return(r)

solve_assignment_milp == Running("milp") /\ \E r \in assignment_milp("best_of") : Return(r)

solve_assignment_beam == Running("assignment_beam") /\ \E r \in assignment_beam : Return(r)

\* deterministic LNS starts from the load-balanced plan or gives up.
NoInitialPlan ==
  /\ Running("deterministic_lns")
  /\ LET initial == solve_incremental(load_balanced_assignment, "fixed")
     IN initial.score = NoPlan /\ Return([NoResult EXCEPT !.status = initial.status])

RefuseSearch ==
  /\ method \in {"order_aware_lns", "beam_alns", "joint"} /\ result = NoResult
  /\ UnitWithoutRobot /\ Return(Infeasible)

\* The assignments a move reaches from a: destroy, then reinsert.
Moves(a, widths) ==
  UNION {reinsert_units([u \in Units |-> IF u \in Range(o) THEN 0 ELSE a[u]], o, k) :
           o \in Injection(1..DestroyCount, Units), k \in widths}

Anchor == IF best.score = NoPlan THEN load_balanced_assignment ELSE best.of

\* Iteration 0 takes the load-balanced assignment as it is.
Candidates(widths) == IF step = 0 THEN {Anchor} ELSE Moves(Anchor, widths)

Incumbent(score, a) == IF score < best.score THEN [score |-> score, of |-> a] ELSE best

Iterate(m, policy, widths) ==
  /\ Running(m) /\ step <= Iterations
  /\ \E a \in Candidates(widths) : best' = Incumbent(Scheduled(a, policy), a)
  /\ step' = step + 1
  /\ UNCHANGED <<given, method, nodes, result, outcome>>

\* Starts from the load-balanced plan (its iteration 0 here) if there is one.
deterministic_lns ==
  /\ ~ UnitWithoutRobot /\ given.seq[load_balanced_assignment].fixed # NoPlan
  /\ Iterate("deterministic_lns", "fixed", {1})

\* Diversifies while it has no incumbent and every fifth iteration.
order_aware_lns ==
  ~ UnitWithoutRobot /\ Iterate("order_aware_lns", "best_of",
    IF best.score = NoPlan \/ step % 5 = 0 THEN {3} ELSE {1})

beam_alns == ~ UnitWithoutRobot /\ Iterate("beam_alns", "beam", {3})

LnsReturn ==
  /\ method \in LnsMethods /\ result = NoResult /\ step > Iterations
  /\ Return([status |-> IF best.score = NoPlan THEN "schedule_infeasible" ELSE "feasible",
             score |-> best.score, of |-> best.of, incumbent |-> Unassigned])

-----------------------------------------------------------------------------
(* The joint reference: every admissible assignment, in a fixed order.     *)

JointRuns == Running("joint") /\ ~ UnitWithoutRobot
Supported == Cardinality(Admissible) <= given.combinations

JointRefuse ==
  /\ JointRuns /\ ~ Supported
  /\ Return([NoResult EXCEPT !.status = "unsupported_scale"])

JointResult(b, complete) ==
  [status |-> IF b.score = NoPlan THEN (IF complete THEN "infeasible" ELSE "limit")
              ELSE (IF complete THEN "optimal" ELSE "feasible_limit"),
   score |-> b.score, of |-> b.of, incumbent |-> Unassigned]

\* One exact search finishes within the nodes that remain.
JointAssignment ==
  /\ JointRuns /\ Supported /\ step < Cardinality(Admissible)
  /\ nodes < given.nodes /\ nodes + SearchNodes <= given.nodes
  /\ LET a == SetToSeq(Admissible)[step + 1]
     IN best' = Incumbent(given.seq[a].exact, a)
  /\ nodes' = nodes + SearchNodes /\ step' = step + 1
  /\ UNCHANGED <<given, method, result, outcome>>

\* Mutant of JointOutOfBudget: the break leaves search_complete as it was.
BudgetUnnoticed ==
  /\ JointRuns /\ Supported /\ step < Cardinality(Admissible)
  /\ Return(JointResult(best, TRUE))

\* No nodes or no time are left for the next assignment (time at any moment).
JointOutOfBudget ==
  /\ JointRuns /\ Supported /\ step < Cardinality(Admissible)
  /\ Return(JointResult(best, FALSE))

\* The exact search itself is cut off, with or without a plan.
JointCutOff ==
  /\ JointRuns /\ Supported /\ step < Cardinality(Admissible) /\ nodes < given.nodes
  /\ LET a == SetToSeq(Admissible)[step + 1]
     IN \E n \in 0 .. given.nodes - nodes, score \in given.seq[a].exact .. NoPlan :
          /\ nodes' = nodes + n
          /\ best' = Incumbent(score, a)
          /\ result' = JointResult(best', FALSE)
  /\ UNCHANGED <<given, method, step, outcome>>

JointReturn ==
  /\ JointRuns /\ Supported /\ step = Cardinality(Admissible)
  /\ Return(JointResult(best, TRUE))

-----------------------------------------------------------------------------
(* From a result to an initializer.                                        *)

\* fallback: an initializer the caller adapted before, or NoOutcome.
adapt_solver_initializer(fallback) ==
  IF result.score # NoPlan
  THEN [actual |-> method, of |-> result.of, true |-> TRUE, fallback |-> FALSE]
  ELSE IF result.incumbent # Unassigned
  THEN [actual |-> "assignment_incumbent", of |-> result.incumbent, true |-> TRUE,
        fallback |-> FALSE]
  ELSE IF fallback # NoOutcome
  THEN [fallback EXCEPT !.true = FALSE, !.fallback = TRUE]
  ELSE [actual |-> method, of |-> Unassigned, true |-> FALSE, fallback |-> FALSE]

Earlier == [actual |-> "earlier", of |-> load_balanced_assignment, true |-> TRUE,
            fallback |-> FALSE]

Adapt ==
  /\ result # NoResult /\ outcome = NoOutcome
  /\ \E fallback \in {NoOutcome} \cup (IF UnitWithoutRobot THEN {} ELSE {Earlier}) :
       outcome' = adapt_solver_initializer(fallback)
  /\ UNCHANGED <<given, method, step, best, nodes, result>>

Next ==
  \/ solve_greedy \/ solve_load_balanced \/ solve_hybrid_load_balanced
  \/ solve_hungarian \/ solve_assignment_milp \/ solve_assignment_beam
  \/ NoInitialPlan \/ RefuseSearch
  \/ deterministic_lns \/ order_aware_lns \/ beam_alns \/ LnsReturn
  \/ JointRefuse \/ JointAssignment \/ JointOutOfBudget \/ JointCutOff \/ JointReturn
  \/ Adapt

Spec == Init /\ [][Next]_vars

-----------------------------------------------------------------------------

\* What the joint reference proves is true of the whole instance: "optimal" is
\* the least score of any admissible assignment in any sequence, "infeasible"
\* means that none has a schedule, whichever budget ran out on the way; and it
\* never expands more nodes than its limit.
JointReferenceExact ==
  method = "joint" /\ result # NoResult =>
    /\ nodes <= given.nodes
    /\ result.status = "optimal" =>
         \A a \in Admissible : result.score <= given.seq[a].exact
    /\ result.status = "infeasible" =>
         \A a \in Admissible : given.seq[a].exact = NoPlan

-----------------------------------------------------------------------------
\* Why: the incumbent is no worse than any assignment enumerated so far, and the
\* enumeration leaves none out.
EnumeratedSoFar ==
  method = "joint" =>
    /\ step \in 0 .. Cardinality(Admissible) /\ nodes \in 0 .. given.nodes
    /\ best.score \in 0 .. NoPlan
    /\ \A i \in 1 .. step : best.score <= given.seq[SetToSeq(Admissible)[i]].exact

IInv == given \in Instances /\ EnumeratedSoFar /\ JointReferenceExact
=============================================================================
