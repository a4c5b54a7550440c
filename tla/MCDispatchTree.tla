---------------------------- MODULE MCDispatchTree ----------------------------
(* TLC instance of DispatchTree, and of the objectives reported for its plans, *)
(* over the instance families of MCInstances.                                  *)
EXTENDS DispatchTree, Objectives, MCInstances

\* For the objectives: precedence varied less, mixed headings too.
ObjectiveInstances == CoreInstances \cup
  Family({<<1, 2, 1>>}, {<<{}, {}, {}>>}, Shapes, Windows,
         {<<"forward", "forward", "forward">>, <<"reverse", "forward", "reverse">>}, Zones)

-----------------------------------------------------------------------------
(* What the objective terms reported with a plan mean for the schedule they  *)
(* are computed from.  The schedule is timed with the exits the tool really  *)
(* takes (DispatchTree); compute_proxy_objectives is given only the orders   *)
(* and the times and works the rest out again.                               *)

\* The approach the schedule allowed for s: from the exit of the item before.
Allowed(s) ==
  LET r == plan[s].robot
  IN  IF Previous(plan, s) = {} THEN Approach(inst, r, s, inst.base[r])
      ELSE LET p == CHOOSE x \in Previous(plan, s) : TRUE
           IN  Approach(inst, r, s, plan[p].exit)

TotalTravel == MapThenSumSet(Allowed, DOMAIN plan)

\* The travel_setup_time term is the total travel of the schedule: it should
\* be what the approaches of compute_proxy_objectives add up to.
TravelIsTotal == Travel(inst, plan) = TotalTravel
=============================================================================
