----------------------------- MODULE PlanVerifier -----------------------------
(***************************************************************************)
(* verify_plan: the constraints a finished plan is held to, one operator   *)
(* per reason code.  The verifier is written without reference to how the  *)
(* plan was built: it orders the items of a robot by order_index, walks    *)
(* the tool along that order again, and samples every resource at the      *)
(* start and end of each of its items.                                     *)
(*                                                                         *)
(* Here a plan maps segments to items, so the reason codes about malformed *)
(* item lists (DUPLICATE_SEGMENT, UNKNOWN_SEGMENT, INSTANCE_MISMATCH) do   *)
(* not arise.  The comparison tolerance _TOL is 0 on integer time.         *)
(***************************************************************************)
EXTENDS AllocationModel

\* Items a and b are on one robot and a comes first by (order_index, id).
OrderedBefore(plan, a, b) ==
  /\ plan[a].robot = plan[b].robot
  /\ \/ plan[a].index < plan[b].index
     \/ plan[a].index = plan[b].index /\ a < b

Follows(plan, a, b) ==
  /\ OrderedBefore(plan, a, b)
  /\ ~ \E c \in DOMAIN plan : OrderedBefore(plan, a, c) /\ OrderedBefore(plan, c, b)

First(plan, b) == ~ \E a \in DOMAIN plan : OrderedBefore(plan, a, b)

SegmentCoverage(plan) == Segments \subseteq DOMAIN plan

KnownRobot(plan) == \A s \in DOMAIN plan : plan[s].robot \in Robots

EdgesFeasible(I, plan) == \A s \in DOMAIN plan : EdgeFeasible(I, s, plan[s].robot)

ProcessDuration(I, plan) ==
  \A s \in DOMAIN plan : plan[s].end - plan[s].start >= I.dur[s]

SegmentTimeWindow(I, plan) ==
  \A s \in DOMAIN plan : I.opens[s] <= plan[s].start /\ plan[s].end <= I.closes[s]

RobotAvailability(I, plan) ==
  \A s \in DOMAIN plan :
    I.on[plan[s].robot] <= plan[s].start /\ plan[s].end <= I.off[plan[s].robot]

ResourceAvailability(I, plan) ==
  \A s \in DOMAIN plan : \A q \in I.uses[s] :
    I.free[q] <= plan[s].start /\ plan[s].end <= I.shut[q]

\* The indices of a robot are 0, 1, 2, ... without gap or repetition.
RobotOrderIndex(plan) ==
  \A s \in DOMAIN plan :
    /\ plan[s].index \in Nat
    /\ plan[s].index = 0 \/ \E p \in DOMAIN plan :
         plan[p].robot = plan[s].robot /\ plan[p].index = plan[s].index - 1
    /\ \A x \in DOMAIN plan :
         plan[x].robot = plan[s].robot /\ plan[x].index = plan[s].index => x = s

\* Sorting by (start, end, id) gives the order of the indices.
RobotOrderTime(plan) ==
  \A a, b \in DOMAIN plan :
    OrderedBefore(plan, a, b) =>
      \/ plan[a].start < plan[b].start
      \/ /\ plan[a].start = plan[b].start
         /\ plan[a].end < plan[b].end \/ (plan[a].end = plan[b].end /\ a < b)

RobotOverlap(plan) ==
  \A a, b \in DOMAIN plan : Follows(plan, a, b) => plan[a].end <= plan[b].start

\* The tool starts at the base and leaves each segment at its far end.
ToolPath(I, plan, path) ==
  \A b \in DOMAIN plan :
    /\ First(plan, b) => path[b] = ExitPoint(I, b, I.base[plan[b].robot])
    /\ \A a \in DOMAIN plan : Follows(plan, a, b) => path[b] = ExitPoint(I, b, path[a])

RobotTransitionTime(I, plan) ==
  \E path \in [DOMAIN plan -> Points] :
    /\ ToolPath(I, plan, path)
    /\ \A b \in DOMAIN plan :
         LET r == plan[b].robot
         IN  /\ First(plan, b) =>
                  I.on[r] + Approach(I, r, b, I.base[r]) <= plan[b].start
             /\ \A a \in DOMAIN plan : Follows(plan, a, b) =>
                  plan[a].end + Approach(I, r, b, path[a]) <= plan[b].start

Precedence(I, plan) ==
  \A s \in DOMAIN plan : \A p \in I.pred[s] \cap DOMAIN plan :
    plan[p].end <= plan[s].start

ParentSegmentOrder(I, plan) ==
  \A s \in DOMAIN plan : \A p \in ParentPrevious(I, s) \cap DOMAIN plan :
    plan[p].end <= plan[s].start

\* A curve with a same_robot or not_splittable member stays on one robot.
SameRobotHandoff(I, plan) ==
  \A s \in DOMAIN plan :
    I.policy[s] \in {"same_robot", "not_splittable"} =>
      \A x, y \in SameCurve(I, s) \cap DOMAIN plan : plan[x].robot = plan[y].robot

ResourceCapacity(I, plan) ==
  \A q \in Resources : \A x \in Holders(I, plan, q) :
    \A u \in {plan[x].start, plan[x].end} :
      Cardinality(ActiveAt(I, plan, q, u)) <= I.cap[q]

-----------------------------------------------------------------------------
(* The reason codes, split by who is responsible for avoiding them.        *)

\* What the timing of a plan must satisfy, whoever chose the robots.
TimingClean(I, plan) ==
  /\ KnownRobot(plan)
  /\ ProcessDuration(I, plan)
  /\ SegmentTimeWindow(I, plan)
  /\ RobotAvailability(I, plan)
  /\ ResourceAvailability(I, plan)
  /\ RobotOrderIndex(plan)
  /\ RobotOrderTime(plan)
  /\ RobotOverlap(plan)
  /\ Precedence(I, plan)
  /\ ParentSegmentOrder(I, plan)
  /\ ResourceCapacity(I, plan)
  /\ RobotTransitionTime(I, plan)

\* What the choice of robots must satisfy.
AssignmentClean(I, plan) == EdgesFeasible(I, plan) /\ SameRobotHandoff(I, plan)

\* verify_plan(...).feasible
VerifiedFeasible(I, plan) ==
  SegmentCoverage(plan) /\ TimingClean(I, plan) /\ AssignmentClean(I, plan)

-----------------------------------------------------------------------------
(* The plans a scheduler could have built but did not: what its verdicts and *)
(* its optimality claims are measured against.  Nothing here follows the     *)
(* schedulers; a plan is just start times, judged by the verifier.           *)

\* Every way to start the segments inside their windows.
StartTimes(I) ==
  LET window(s) == I.opens[s] .. I.closes[s] - I.dur[s]
  IN  {f \in [Segments -> UNION {window(s) : s \in Segments}] :
         \A s \in Segments : f[s] \in window(s)}

\* Segment s starts at f[s] on robot a[s], as number k[s] of that robot.
Timed(I, f, a, k) ==
  [s \in Segments |->
     [robot |-> a[s], index |-> k[s], start |-> f[s], end |-> f[s] + I.dur[s]]]

\* The position of each segment on its robot when robots work in order of time.
ByTime(f, a) ==
  [s \in Segments |->
     Cardinality({x \in Segments : a[x] = a[s] /\ (f[x] < f[s] \/ (f[x] = f[s] /\ x < s))})]

\* The plans for assignment a that pass the timing checks of the verifier.
TimedPlans(I, a) ==
  {p \in {Timed(I, f, a, ByTime(f, a)) : f \in StartTimes(I)} : TimingClean(I, p)}
=============================================================================
