--------------------------- MODULE AllocationModel ---------------------------
(***************************************************************************)
(* The problem data every scheduler, search and verifier of                *)
(* safe_residual_rl.allocation works on, and the timing rules they share.  *)
(*                                                                         *)
(* An instance I is a record of functions:                                 *)
(*   segments   dur, opens, closes (time_window), prio, pred, curve        *)
(*              (parent_curve_id), index (segment_index), from / to        *)
(*              (start_pose / end_pose), dir (process_direction), policy   *)
(*              (handoff_policy), uses (shared_resource_ids), able (robots *)
(*              with the capability, tool and reach the segment needs)     *)
(*   robots     base (base_pose), on / off (availability), pace (the       *)
(*              inverse of nominal_cartesian_speed_m_s)                    *)
(*   resources  cap (capacity), free / shut (availability)                 *)
(* Time is integer.  A plan is a function from the segments placed so far  *)
(* to items [robot, index, start, end, exit], the fields of                *)
(* ScheduledSegment and the tool position the segment leaves behind.       *)
(***************************************************************************)
EXTENDS Integers, FiniteSets

CONSTANTS
  Segments,        \* segment ids; naturals, so that id order breaks ties
  Robots,          \* robot ids of the instance
  Resources,       \* shared zone / fixture ids
  Curves,          \* parent curve ids
  Points,          \* tool positions
  Distance(_, _),  \* point_distance
  Instances        \* the instances a behaviour may start from

Directions == {"forward", "reverse", "either"}
Policies   == {"free", "same_robot", "explicit_boundary", "not_splittable"}

InstanceType ==
  [dur: [Segments -> Nat], opens: [Segments -> Nat], closes: [Segments -> Nat],
   prio: [Segments -> Nat], pred: [Segments -> SUBSET Segments],
   curve: [Segments -> Curves], index: [Segments -> Nat],
   from: [Segments -> Points], to: [Segments -> Points],
   dir: [Segments -> Directions], policy: [Segments -> Policies],
   uses: [Segments -> SUBSET Resources], able: [Segments -> SUBSET Robots],
   base: [Robots -> Points], on: [Robots -> Nat], off: [Robots -> Nat],
   pace: [Robots -> Nat],
   cap: [Resources -> Nat], free: [Resources -> Nat], shut: [Resources -> Nat]]

\* Every member of S waits for another one: S contains a cycle of before.
Circular(S, before) == S # {} /\ \A s \in S : before[s] \cap S # {}

SameCurve(I, s) == {x \in Segments : I.curve[x] = I.curve[s]}

\* The clauses of validate_instance that the schedule depends on.
ValidInstance(I) ==
  /\ \A s \in Segments :
       /\ I.dur[s] > 0
       /\ I.opens[s] <= I.closes[s]
       /\ s \notin I.pred[s]
       /\ I.index[s] < Cardinality(SameCurve(I, s))
       /\ \A x \in SameCurve(I, s) : I.index[x] = I.index[s] => x = s
       /\ I.policy[s] = "not_splittable" => SameCurve(I, s) = {s}
  /\ \A r \in Robots : I.on[r] <= I.off[r] /\ I.pace[r] > 0
  /\ \A q \in Resources : I.free[q] <= I.shut[q] /\ I.cap[q] >= 1
  /\ \A s, x \in Segments :
       x \in SameCurve(I, s) /\ I.index[x] = I.index[s] - 1 => I.to[x] = I.from[s]
  /\ ~ \E S \in SUBSET Segments : Circular(S, I.pred)

ASSUME SegmentsAssumption ==
  Segments # {} /\ Segments \subseteq Nat /\ IsFiniteSet(Segments)
ASSUME RobotsAssumption == Robots # {} /\ IsFiniteSet(Robots)
ASSUME ResourcesAssumption == IsFiniteSet(Resources)
ASSUME DistanceAssumption == \A p, q \in Points : Distance(p, q) \in Nat
ASSUME InstancesAssumption ==
  Instances \subseteq InstanceType /\ \A I \in Instances : ValidInstance(I)

-----------------------------------------------------------------------------
(* Order: what must be finished before a segment may start.                *)

\* _parent_previous_map: the left neighbour on the same curve, if any.
ParentPrevious(I, s) == {x \in SameCurve(I, s) : I.index[x] = I.index[s] - 1}

\* Mutant of Deps: the order along a curve is forgotten.
PredecessorsOnly(I, s) == I.pred[s]

Deps(I, s) == I.pred[s] \cup ParentPrevious(I, s)

Ready(I, plan, s) == s \in Segments \ DOMAIN plan /\ Deps(I, s) \subseteq DOMAIN plan

-----------------------------------------------------------------------------
(* Motion: which end of the curve is entered first, and the approach time. *)

RunsForward(I, s, source) ==
  \/ I.dir[s] = "forward"
  \/ I.dir[s] = "either" /\ Distance(source, I.from[s]) <= Distance(source, I.to[s])

Entry(I, s, source)    == IF RunsForward(I, s, source) THEN I.from[s] ELSE I.to[s]
ExitPoint(I, s, source) == IF RunsForward(I, s, source) THEN I.to[s] ELSE I.from[s]

Approach(I, r, s, source) == I.pace[r] * Distance(source, Entry(I, s, source))

-----------------------------------------------------------------------------
(* The edge oracle: r can process s, and some start suits both windows.    *)

EdgeFeasible(I, s, r) ==
  /\ r \in I.able[s]
  /\ \A a \in {I.opens[s], I.on[r]}, b \in {I.closes[s], I.off[r]} :
       a + I.dur[s] <= b

-----------------------------------------------------------------------------
(* Shared resources: who holds q at time u, and whether s fits at time t.  *)

Holders(I, plan, q) == {x \in DOMAIN plan : q \in I.uses[x]}

ActiveAt(I, plan, q, u) ==
  {x \in Holders(I, plan, q) : plan[x].start <= u /\ u < plan[x].end}

\* Mutant of EventTimes: occupancy is sampled at the start only.
SampledAtStart(I, plan, q, t, d) == {t}

\* The instants _resource_feasible_start samples: the start itself and every
\* start of another holder inside the span of s.
EventTimes(I, plan, q, t, d) ==
  {t} \cup {u \in {plan[x].start : x \in Holders(I, plan, q)} : t < u /\ u < t + d}

Overloaded(I, plan, q, t, d) ==
  \E u \in EventTimes(I, plan, q, t, d) :
    Cardinality(ActiveAt(I, plan, q, u)) + 1 > I.cap[q]

Fits(I, plan, s, t) == \A q \in I.uses[s] : ~ Overloaded(I, plan, q, t, I.dur[s])

\* t is the earliest start of s that is not before any bound in LB and at
\* which every resource of s has room.  Such a start is a bound or the end of
\* a placed item (ResourceStart shows that the code's loop returns it).
IsEarliest(I, plan, s, LB, t) ==
  LET choices == LB \cup {plan[x].end : x \in DOMAIN plan}
      open(u) == (\A b \in LB : b <= u) /\ Fits(I, plan, s, u)
  IN  t \in choices /\ open(t) /\ \A u \in choices : open(u) => t <= u

-----------------------------------------------------------------------------
(* Timing: the bounds a dispatch of s on robot r respects when r becomes   *)
(* ready at time ready with its tool at source.                            *)

LowerBounds(I, plan, s, r, ready, source) ==
  {I.opens[s], I.on[r], ready + Approach(I, r, s, source)}
    \cup {plan[x].end : x \in Deps(I, s)}
    \cup {I.free[q] : q \in I.uses[s]}

\* Mutant of EarliestOn: any start with room will do.
RoomOn(I, plan, s, r, ready, source, t) ==
  /\ \A b \in LowerBounds(I, plan, s, r, ready, source) : b <= t
  /\ Fits(I, plan, s, t)

EarliestOn(I, plan, s, r, ready, source, t) ==
  IsEarliest(I, plan, s, LowerBounds(I, plan, s, r, ready, source), t)

StartChoices(I, plan, s, r, ready, source) ==
  LowerBounds(I, plan, s, r, ready, source) \cup {plan[x].end : x \in DOMAIN plan}

\* The deadlines of s on r: its window, the robot's and every resource's.
Deadlines(I, s, r) == {I.closes[s], I.off[r]} \cup {I.shut[q] : q \in I.uses[s]}

InTime(I, s, r, e) == \A d \in Deadlines(I, s, r) : e <= d

Item(I, s, r, k, t, source) ==
  [robot |-> r, index |-> k, start |-> t, end |-> t + I.dur[s],
   exit |-> ExitPoint(I, s, source)]

\* Mutant of Extend: the new item replaces the reservations made before.
Replace(plan, s, item) == [x \in {s} |-> item]

Extend(plan, s, item) ==
  [x \in DOMAIN plan \cup {s} |-> IF x = s THEN item ELSE plan[x]]

\* The items a partial schedule is made of.
ItemType == [robot: Robots, index: Nat, start: Nat, end: Nat, exit: Points]

EmptyPlan == [x \in {} |-> 0]

Complete(plan) == DOMAIN plan = Segments
=============================================================================
