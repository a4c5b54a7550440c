--------------------------- MODULE IdenticalRepair ---------------------------
(* The repair every initializer of the A4 pilot enters (identical_repair):    *)
(* six operators in turn on a state of atomic units, acceptance that treats   *)
(* verified and unverified states differently, the incumbent's bookkeeping    *)
(* under a time limit, and the row the pilot makes of it.                     *)
(* The random generator may draw anything; building and verifying the         *)
(* schedule of a complete state (the modules of the scheduler and verifier)   *)
(* may fail or give any objective, and an iteration takes one or two ticks.   *)
EXTENDS Naturals, FiniteSets, FiniteSetsExt, SequencesExt

CONSTANTS Units, Robots,    \* naturals, in the order of the code's lists
          None,             \* the robot of an unassigned unit
          CostTables,       \* the costs an instance may have: unit, robot
          Infinite,         \* the cost of a pair the edge oracle refuses
          Objectives,       \* naturals, what a verified plan may cost
          TargetScore,
          Amounts,          \* units the destroy operators take, in turn
          Iterations,       \* the ceiling on iterations
          Budgets           \* end-to-end limits in ticks; 0 for fixed work

\* What the constants are.
RepairAssumption ==
  /\ Units \subseteq Nat /\ Robots \subseteq Nat /\ None \notin Robots
  /\ Amounts \in Seq(1..Cardinality(Units)) /\ Amounts # <<>>
  /\ Budgets \subseteq Nat /\ Objectives \subseteq Nat /\ TargetScore \in Nat

VARIABLES costs, budget,
          started,       \* ticks the initializer took
          now, iteration,
          current, currentEval, bestEval,
          firstTime, targetTime,   \* {} or the tick
          row            \* {} or the row of the finished call

input == <<costs, budget, started>>
vars == <<input, now, iteration, current, currentEval, bestEval, firstTime,
          targetTime, row>>

(****************************** states ****************************************)
Finite(u) == {r \in Robots : costs[u][r] < Infinite}
Missing(s) == {u \in Units : s.assignment[u] = None}
On(s, r) == {u \in Units : s.assignment[u] = r}
Load(s, r) == FoldSet(LAMBDA u, sum : sum + costs[u][r], 0, On(s, r))

\* `canonicalize_state`: of what a robot's order lists, the units assigned to
\* it, once each; units nobody lists come last.
canonicalize_state(s) ==
  [s EXCEPT !.orders = [r \in Robots |->
     LET listed == FoldLeft(LAMBDA seen, u :
                      IF s.assignment[u] = r /\ ~Contains(seen, u)
                      THEN Append(seen, u) ELSE seen, <<>>, s.orders[r])
         left == {u \in On(s, r) : ~Contains(listed, u)}
     IN listed \o SetToSortSeq(left, <)]]

Integrity(s) ==
  \A u \in Units : \A r \in Robots :
    Cardinality({i \in DOMAIN s.orders[r] : s.orders[r][i] = u})
      = IF s.assignment[u] = r THEN 1 ELSE 0

\* Units no robot can take, listed twice or on a robot that cannot take them.
Incomplete(s) == Missing(s) # {} \/ \E u \in Units : s.assignment[u] \notin Finite(u)

Surrogate(s, failed) ==
  100 * Cardinality(Missing(s)) + (IF failed THEN 10 ELSE 0)
    + Max({Load(s, r) : r \in Robots})

\* `evaluate_state`: every evaluation a state may get.
evaluate_state(s) ==
  LET unverified(failed) ==
        [verified |-> FALSE, objective |-> 0, surrogate |-> Surrogate(s, failed)]
  IN IF Incomplete(s) \/ ~Integrity(canonicalize_state(s)) THEN {unverified(FALSE)}
     ELSE {unverified(TRUE)} \cup
          {[verified |-> TRUE, objective |-> o, surrogate |-> o] : o \in Objectives}

(***************************** operators **************************************)
Operators == <<"random_destroy", "worst_load_destroy", "atomic_reassign",
               "robot_local_relocate", "robot_local_swap", "precedence_safe_reorder">>

Without(order, units) == SelectSeq(order, LAMBDA u : u \notin units)

Unassigned(s, units) ==
  [assignment |-> [u \in Units |-> IF u \in units THEN None ELSE s.assignment[u]],
   orders |-> [r \in Robots |-> Without(s.orders[r], units)]]

Placed(s, u, r, place) ==
  [assignment |-> [s.assignment EXCEPT ![u] = r],
   orders |-> [s.orders EXCEPT ![r] = InsertAt(@, place, u)]]

\* The two robots on which the unit makes the least load.
Cheapest(s, u) ==
  LET before(q, r) == \/ Load(s, q) + costs[u][q] < Load(s, r) + costs[u][r]
                      \/ /\ Load(s, q) + costs[u][q] = Load(s, r) + costs[u][r]
                         /\ q < r
  IN {r \in Finite(u) : Cardinality({q \in Finite(u) : before(q, r)}) < 2}

Reinsertions(s, u) ==
  IF Finite(u) = {} THEN {s}
  ELSE UNION {{Placed(s, u, r, p) : p \in 1..(Len(s.orders[r]) + 1)} : r \in Cheapest(s, u)}

\* `_reinsert`, in any order of the units.
Reinserted(s, units) ==
  UNION {FoldLeft(LAMBDA states, u : UNION {Reinsertions(t, u) : t \in states}, {s}, p) :
           p \in SetToSeqs(units)}

Destroyed(s, units) == Reinserted(Unassigned(s, units), units)

\* The units of the most loaded robot, of equally loaded ones the last; any one
\* unit should that robot have none.
WorstLoad(s, amount) ==
  LET worst == CHOOSE r \in Robots :
                 \A q \in Robots : \/ Load(s, q) < Load(s, r)
                                   \/ Load(s, q) = Load(s, r) /\ q <= r
      units == On(s, worst)
  IN IF units = {} THEN {{u} : u \in Units}
     ELSE {{u \in units : Cardinality({v \in units : v < u}) < amount}}

\* A unit moved to the end of another robot's order.
Reassigned(s) ==
  UNION {{Placed(Unassigned(s, {u}), u, r, Len(s.orders[r]) + 1) :
            r \in Finite(u) \ {s.assignment[u]}} : u \in Units}

Relocated(s) ==
  UNION {UNION {{Placed(Unassigned(s, {s.orders[r][i]}), s.orders[r][i], r, p) :
                   p \in 1..Len(s.orders[r])} : i \in DOMAIN s.orders[r]} : r \in Robots}

Swapped(s) ==
  UNION {{[s EXCEPT !.orders[r] = [@ EXCEPT ![i] = s.orders[r][j], ![j] = s.orders[r][i]]] :
            i \in DOMAIN s.orders[r], j \in DOMAIN s.orders[r]} : r \in Robots}

Sorted(s) == [s EXCEPT !.orders = [r \in Robots |-> SetToSortSeq(On(s, r), <)]]

OrUnchanged(states, s) == IF states = {} THEN {s} ELSE states

\* `_mutate`: whatever the operator, a state with missing units only gets them
\* reinserted.
Mutations(s, operator, amount) ==
  IF Missing(s) # {} THEN Reinserted(s, Missing(s))
  ELSE CASE operator = "random_destroy" ->
              UNION {Destroyed(s, units) : units \in kSubset(amount, Units)}
         [] operator = "worst_load_destroy" ->
              UNION {Destroyed(s, units) : units \in WorstLoad(s, amount)}
         [] operator = "atomic_reassign" -> OrUnchanged(Reassigned(s), s)
         [] operator = "robot_local_relocate" -> OrUnchanged(Relocated(s), s)
         [] operator = "robot_local_swap" -> OrUnchanged(Swapped(s) \ {s}, s)
         [] operator = "precedence_safe_reorder" -> {Sorted(s)}

\* Mutant of Accepts: the temperature also lets a verified state be lost.
AnnealsAlways(candidate) == {TRUE, candidate.verified}

\* `_accept`: what it may answer; the temperature only concerns two unverified
\* states.
Accepts(candidate) ==
  CASE candidate.verified /\ ~currentEval.verified -> {TRUE}
    [] candidate.verified /\ currentEval.verified ->
         {candidate.objective <= currentEval.objective}
    [] ~candidate.verified /\ currentEval.verified -> {FALSE}
    [] ~candidate.verified /\ ~currentEval.verified ->
         {TRUE, candidate.surrogate <= currentEval.surrogate}

(******************************** loop ****************************************)
\* Initializers give states that respect the mask; some leave units out.
Starts ==
  {canonicalize_state([assignment |-> a, orders |-> [r \in Robots |-> <<>>]]) :
     a \in {b \in [Units -> Robots \cup {None}] :
              \A u \in Units : b[u] = None \/ b[u] \in Finite(u)}}

Reached(evaluation) == evaluation.verified /\ evaluation.objective <= TargetScore

Init ==
  /\ costs \in CostTables
  /\ budget \in Budgets
  /\ started \in 1..2
  /\ current \in Starts
  /\ currentEval \in evaluate_state(current)
  /\ bestEval = currentEval
  /\ now = 0 /\ iteration = 0
  /\ firstTime = IF currentEval.verified THEN {0} ELSE {}
  /\ targetTime = IF Reached(currentEval) THEN {0} ELSE {}
  /\ row = {}

Remaining == budget - started
TimedOut == budget > 0 /\ now >= Remaining

Iterate ==
  /\ row = {} /\ iteration < Iterations /\ ~TimedOut
  /\ iteration' = iteration + 1
  /\ \E ticks \in 1..2 : now' = now + ticks
  /\ \E candidate \in Mutations(current, Operators[(iteration % 6) + 1],
                                Amounts[(iteration % Len(Amounts)) + 1]) :
     \E evaluation \in evaluate_state(candidate) :
     \E accepted \in Accepts(evaluation) :
       /\ current' = IF accepted THEN candidate ELSE current
       /\ currentEval' = IF accepted THEN evaluation ELSE currentEval
       /\ bestEval' = IF /\ evaluation.verified
                         /\ ~bestEval.verified \/ evaluation.objective < bestEval.objective
                      THEN evaluation ELSE bestEval
       /\ firstTime' = IF firstTime = {} /\ evaluation.verified THEN {now'} ELSE firstTime
       /\ targetTime' = IF targetTime = {} /\ Reached(evaluation) THEN {now'} ELSE targetTime
  /\ UNCHANGED <<input, row>>

\* The return, `_repair_row`: a verified plan counts unless the whole took
\* longer than the budget (with a tolerance below a tick); the times the row
\* records start with the initializer.
Return ==
  /\ row = {} /\ (iteration = Iterations \/ TimedOut)
  /\ row' = {[verified |-> bestEval.verified /\ (budget = 0 \/ started + now <= budget),
              end_to_end |-> started + now,
              first |-> {started + t : t \in firstTime},
              target |-> {started + t : t \in targetTime}]}
  /\ UNCHANGED <<input, now, iteration, current, currentEval, bestEval, firstTime,
                 targetTime>>

Next == Iterate \/ Return
Spec == Init /\ [][Next]_vars

(**************************** properties **************************************)
\* Once verified the current state is as good as the best one ever seen, so the
\* search never walks away from its incumbent; and the times a result reports
\* tell the truth about it: a first feasible time exactly when the incumbent is
\* verified, a time to target exactly when it reaches the target, in this order.
IncumbentBookkeeping ==
  /\ bestEval.verified = currentEval.verified
  /\ bestEval.verified => currentEval.objective = bestEval.objective
  /\ (firstTime # {}) = bestEval.verified
  /\ (targetTime # {}) = Reached(bestEval)
  /\ \A t \in targetTime : \A f \in firstTime : f <= t

\* Why: evaluations are comparable and times lie in the past.
Scored(e) == e.verified \in BOOLEAN /\ e.objective \in Nat
TimesPast == now \in Nat /\ firstTime \subseteq 0..now /\ targetTime \subseteq 0..now

IInv == Scored(currentEval) /\ Scored(bestEval) /\ TimesPast /\ IncumbentBookkeeping
=============================================================================
