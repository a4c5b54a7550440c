----------------------------- MODULE PointerRollout -----------------------------
(***************************************************************************)
(* How a decoder turns an instance into robot orders, unit by unit.  The   *)
(* segments of a coupled curve are contracted into one atomic unit.        *)
(*   "pointer"  greedy_rollout of the pair-pointer decoder: any unmasked   *)
(*              (unit, robot) pair, whatever the network scores            *)
(*   "teacher"  canonical_teacher_actions and replay_pointer_actions: the  *)
(*              actions that a verified plan stands for                    *)
(*   "rebuilt"  state_from_plan and evaluate_state: the blocks of a         *)
(*              verified plan, per robot in the order it first touches them *)
(*   "static"   decode_masked_candidate: robots first, then one order per  *)
(*              robot that looks only at the dependencies on that robot    *)
(* The orders go to build_schedule, whose verdict is taken from            *)
(* ListScheduler!DeadlockExact: a deadlock exactly when the orders wait in *)
(* a circle, and otherwise a plan or a missed window, left open here.      *)
(***************************************************************************)
EXTENDS AllocationModel, SequencesExt

CONSTANTS
  Modes,        \* which of the four
  TeacherPlans  \* verified plans: [start |-> segments by start time, robot]

VARIABLES
  inst, mode, given,  \* arguments; given is the teacher's plan
  actions,            \* pairs chosen so far: <<unit, robot>>
  orders,             \* robot -> segments, as they will be scheduled
  status              \* "open", or how the call ended

vars == <<inst, mode, given, actions, orders, status>>
args == <<inst, mode, given>>

-----------------------------------------------------------------------------
(* allocation_units and unit_dependencies.                                 *)

\* Declared precedence and the order along curves have a common order.
topological_segment_order(I) ==
  ~ \E S \in SUBSET Segments : Circular(S, [s \in Segments |-> Deps(I, s)])

Coupled(I, s) ==
  \E x \in SameCurve(I, s) : I.policy[x] \in {"same_robot", "not_splittable"}

Unit(I, s) == IF Coupled(I, s) THEN SameCurve(I, s) ELSE {s}

allocation_units(I) == {Unit(I, s) : s \in Segments}

\* Mutant of unit_dependencies: declared precedence only.
DeclaredDependencies(I, U) == {Unit(I, x) : x \in UNION {I.pred[s] : s \in U}} \ {U}

\* Mutant of unit_dependencies: a unit waits for its own members.
OwnIncluded(I, U) == {Unit(I, x) : x \in UNION {Deps(I, s) : s \in U}}

unit_dependencies(I, U) == {Unit(I, x) : x \in UNION {Deps(I, s) : s \in U}} \ {U}

AllowedRobots(I, U) == {r \in Robots : \A s \in U : EdgeFeasible(I, s, r)}

\* The members along the curve.
Members(I, U) ==
  CHOOSE m \in [1 .. Cardinality(U) -> U] :
    \A i, j \in DOMAIN m : i < j => I.index[m[i]] < I.index[m[j]]

-----------------------------------------------------------------------------

\* The robot sequences of a plan: a verified one runs each unit on one robot
\* that can process it and starts nothing before what it depends on.
VerifiedPlan(I, p) ==
  /\ \A n, k \in DOMAIN p.start : p.start[k] \in Deps(I, p.start[n]) => k < n
  /\ \A U \in allocation_units(I) : \E r \in AllowedRobots(I, U) : \A s \in U : p.robot[s] = r

Init ==
  /\ inst \in Instances
  /\ mode \in Modes
  /\ given \in IF mode \in {"teacher", "rebuilt"} THEN {p \in TeacherPlans : VerifiedPlan(inst, p)}
               ELSE {CHOOSE p \in TeacherPlans : TRUE}
  /\ actions = <<>>
  /\ orders = [r \in Robots |-> <<>>]
  /\ status = "open"

Assigned == {actions[n][1] : n \in DOMAIN actions}

End(s) == status' = s /\ UNCHANGED <<args, actions, orders>>

\* ValueError: combined precedence graph is cyclic.
UnitsRaise ==
  /\ status = "open" /\ actions = <<>> /\ ~ topological_segment_order(inst)
  /\ End("value_error")

Open == status = "open" /\ topological_segment_order(inst)

ReadyUnits ==
  {U \in allocation_units(inst) \ Assigned : unit_dependencies(inst, U) \subseteq Assigned}

\* The true entries of the mask.
feasible_pair_mask ==
  {p \in ReadyUnits \X Robots : p[2] \in AllowedRobots(inst, p[1])}

\* _update_state, and what the replay makes of the pair.
Take(U, r) ==
  /\ actions' = Append(actions, <<U, r>>)
  /\ orders' = [orders EXCEPT ![r] = @ \o Members(inst, U)]
  /\ UNCHANGED <<args, status>>

greedy_rollout ==
  /\ Open /\ mode = "pointer"
  /\ \E p \in feasible_pair_mask : Take(p[1], p[2])

PointerDeadEnd ==
  /\ Open /\ mode = "pointer"
  /\ Assigned # allocation_units(inst) /\ feasible_pair_mask = {}
  /\ End("dead_end")

StartOf(U) == Min({n \in DOMAIN given.start : given.start[n] \in U})

\* The ready unit whose first member the plan starts first.
canonical_teacher_actions ==
  /\ Open /\ mode = "teacher"
  /\ \E U \in ReadyUnits :
       /\ \A V \in ReadyUnits : StartOf(U) <= StartOf(V)
       /\ Take(U, given.robot[given.start[StartOf(U)]])

\* ValueError: teacher unit dependency graph is cyclic; the plan is dropped.
TeacherCyclic ==
  /\ Open /\ mode = "teacher"
  /\ Assigned # allocation_units(inst) /\ ReadyUnits = {}
  /\ End("dead_end")

StartedOn(r) == {U \in allocation_units(inst) : given.robot[given.start[StartOf(U)]] = r}

Blocks(r) == SetToSortSeq(StartedOn(r), LAMBDA U, V : StartOf(U) < StartOf(V))

\* The unit orders of the initializer state, expanded by evaluate_state.
state_from_plan ==
  /\ Open /\ mode = "rebuilt" /\ actions = <<>>
  /\ orders' = [r \in Robots |->
                   FlattenSeq([n \in DOMAIN Blocks(r) |-> Members(inst, Blocks(r)[n])])]
  /\ actions' = SetToSeq({<<U, given.robot[given.start[StartOf(U)]]>> : U \in allocation_units(inst)})
  /\ UNCHANGED <<args, status>>

-----------------------------------------------------------------------------
(* The static decoder.                                                     *)

UnitWithoutRobot ==
  /\ Open /\ mode = "static" /\ actions = <<>>
  /\ \E U \in allocation_units(inst) : AllowedRobots(inst, U) = {}
  /\ End("infeasible")

\* Any robot of the highest mean logit, so any allowed one.
AssignUnits ==
  /\ Open /\ mode = "static" /\ actions = <<>>
  /\ \E f \in [allocation_units(inst) -> Robots] :
       /\ \A U \in DOMAIN f : f[U] \in AllowedRobots(inst, U)
       /\ actions' = SetToSeq({<<U, f[U]>> : U \in DOMAIN f})
  /\ UNCHANGED <<args, orders, status>>

On(r) == UNION {actions[n][1] : n \in {k \in DOMAIN actions : actions[k][2] = r}}

\* One pick of the while loop: ready as far as this robot's own rest goes.
\* (The ValueError for no ready segment needs a circle on one robot, which
\* allocation_units has refused.)
precedence_aware_orders ==
  /\ Open /\ mode = "static"
  /\ \E r \in Robots : \E s \in On(r) \ Range(orders[r]) :
       /\ Deps(inst, s) \cap (On(r) \ Range(orders[r])) = {}
       /\ orders' = [orders EXCEPT ![r] = Append(@, s)]
  /\ UNCHANGED <<args, actions, status>>

-----------------------------------------------------------------------------

Before(s) ==
  Deps(inst, s)
    \cup UNION {{orders[r][n - 1] : n \in {k \in 2..Len(orders[r]) : orders[r][k] = s}} : r \in Robots}

Stuck == \E S \in SUBSET Segments : Circular(S, [s \in Segments |-> Before(s)])

Ordered == UNION {Range(orders[r]) : r \in Robots} = Segments

\* build_schedule, then verify_plan.
replay_pointer_actions ==
  /\ Open /\ Ordered
  /\ \/ Stuck /\ End("deadlock")
     \/ ~ Stuck /\ \E s \in {"feasible", "window"} : End(s)

Next ==
  \/ UnitsRaise
  \/ greedy_rollout \/ PointerDeadEnd
  \/ canonical_teacher_actions \/ TeacherCyclic \/ state_from_plan
  \/ UnitWithoutRobot \/ AssignUnits \/ precedence_aware_orders
  \/ replay_pointer_actions

Spec == Init /\ [][Next]_vars

-----------------------------------------------------------------------------

\* Each unit of some set contains a segment that waits for another of them.
UnitsCircular ==
  \E S \in SUBSET allocation_units(inst) :
    /\ S # {}
    /\ \A U \in S : \E V \in S \ {U} : \E s \in U : Deps(inst, s) \cap V # {}

\* Blocks of units taken in any order that the mask allows never wait for each
\* other in a circle: a raw pointer candidate, or the replay of a teacher, can
\* fail on a window but not on a deadlock.  (The static decoder and a rebuilt
\* state, which order each robot by itself, give no such promise.)
BlocksNeverDeadlock == mode \in {"pointer", "teacher"} => status # "deadlock"

\* The mask runs empty only for instances that no sequence of pairs can
\* complete: the contracted units wait in a circle, although their segments do
\* not, or one of them has no robot for all its members.  No earlier choice of
\* the rollout can be to blame, so it needs no backtracking; and a verified
\* plan is dropped only for circular units.
DeadEndExact ==
  status = "dead_end" =>
    \/ UnitsCircular
    \/ mode = "pointer" /\ \E s \in Segments :
         \A r \in Robots : \E x \in Unit(inst, s) : ~ EdgeFeasible(inst, x, r)

\* "test_state_from_plan_round_trip_is_verified": rebuilding the schedule of a
\* verified plan from its initializer state verifies.  It need not: a plan that
\* runs another unit between two members of a coupled one loses that order, and
\* the blocks may wait for each other in a circle, where
\* another order of the same blocks does not.
RoundTripSchedules == mode = "rebuilt" /\ ~ UnitsCircular => status # "deadlock"

-----------------------------------------------------------------------------
\* Why DeadEndExact holds: what a rollout takes are units of the instance.
TakenAreUnits ==
  mode \in {"pointer", "teacher"} => Assigned \subseteq allocation_units(inst)

IInv == inst \in Instances /\ TakenAreUnits /\ DeadEndExact
=============================================================================
