------------------------------ MODULE Objectives ------------------------------
(***************************************************************************)
(* compute_proxy_objectives: the four terms every search ranks plans by.   *)
(***************************************************************************)
EXTENDS AllocationModel, FiniteSetsExt, Functions

Makespan(plan) == Max({0} \cup {plan[x].end : x \in DOMAIN plan})

Load(I, plan, r) ==
  LET own == {x \in DOMAIN plan : plan[x].robot = r}
  IN  SumFunction([x \in own |-> I.dur[x]])

\* load_variance times the cube of the number of robots, to stay integer.
LoadVariance(I, plan) ==
  LET n     == Cardinality(Robots)
      total == SumFunction([r \in Robots |-> Load(I, plan, r)])
      gap(r) == n * Load(I, plan, r) - total
  IN  SumFunction([r \in Robots |-> gap(r) * gap(r)])

\* The segment before s in the order of its robot.
Previous(plan, s) ==
  {x \in DOMAIN plan : plan[x].robot = plan[s].robot /\ plan[x].index = plan[s].index - 1}

\* transition_time_s: the previous exit is recomputed as if the tool had come
\* from the base, whatever segment really came before it.
Transition(I, plan, s) ==
  LET r == plan[s].robot
  IN  IF Previous(plan, s) = {} THEN Approach(I, r, s, I.base[r])
      ELSE LET p == CHOOSE x \in Previous(plan, s) : TRUE
           IN  Approach(I, r, s, ExitPoint(I, p, I.base[r]))

Travel(I, plan) == SumFunction([s \in DOMAIN plan |-> Transition(I, plan, s)])

Tardiness(I, plan) ==
  SumFunction([s \in DOMAIN plan |-> I.prio[s] * Max({0, plan[s].end - I.closes[s]})])

\* _score with weights w: a weighted sum of the terms.
Score(I, plan, w) ==
  w.makespan * Makespan(plan) + w.load_variance * LoadVariance(I, plan)
    + w.travel_setup_time * Travel(I, plan) + w.priority_tardiness * Tardiness(I, plan)
=============================================================================
