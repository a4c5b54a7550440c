----------------------------- MODULE ListScheduler -----------------------------
(***************************************************************************)
(* build_schedule: the list scheduler for fixed robot orders.  Only the    *)
(* head of each robot's order competes; the head that can start first is   *)
(* dispatched.  The caller may pass any orders, so the scheduler first     *)
(* rejects those that do not cover the segments, then runs until every     *)
(* segment is placed, no head is ready, or the chosen head misses one of   *)
(* its deadlines.                                                          *)
(***************************************************************************)
EXTENDS PlanVerifier, Sequences

CONSTANTS
  OrderChoices   \* robot_orders a caller may pass: name -> sequence of ids

ASSUME OrdersAssumption ==
  \A o \in OrderChoices : \A n \in DOMAIN o : o[n] \in Seq(Nat)

VARIABLES
  inst, orders,  \* arguments; never change
  plan,          \* scheduled, with selected_exit in the items
  next,          \* next_index
  verdict,       \* "new", "running", or how the call ended
  blamed         \* the segments the final diagnostic names

vars == <<inst, orders, plan, next, verdict, blamed>>
args == <<inst, orders>>

Failures == {"SEGMENT_COVERAGE", "UNKNOWN_ROBOT", "DEADLOCK", "WINDOW"}

TypeOK ==
  /\ inst \in InstanceType
  /\ \A n \in DOMAIN orders : orders[n] \in Seq(Nat)
  /\ DOMAIN plan \subseteq Segments
  /\ plan \in [DOMAIN plan -> ItemType]
  /\ next \in [DOMAIN orders -> Nat]
  /\ \A n \in DOMAIN orders : next[n] <= Len(orders[n])
  /\ verdict \in {"new", "running", "feasible"} \cup Failures
  /\ blamed \subseteq Segments

Init ==
  /\ inst \in Instances
  /\ orders \in OrderChoices
  /\ plan = EmptyPlan
  /\ next = [n \in DOMAIN orders |-> 0]
  /\ verdict = "new"
  /\ blamed = {}

-----------------------------------------------------------------------------
(* The checks on the arguments.                                            *)

\* Each segment stands in exactly one place, and nothing else stands anywhere.
Covers(o) ==
  /\ \A n \in DOMAIN o : \A k \in DOMAIN o[n] : o[n][k] \in Segments
  /\ \A s \in Segments : \E n \in DOMAIN o : \E k \in DOMAIN o[n] : o[n][k] = s
  /\ \A n, m \in DOMAIN o : \A k \in DOMAIN o[n], j \in DOMAIN o[m] :
       o[n][k] = o[m][j] => n = m /\ k = j

End(v, B) == verdict' = v /\ blamed' = B /\ UNCHANGED <<args, plan, next>>

RejectCoverage ==
  /\ verdict = "new" /\ ~ Covers(orders)
  /\ End("SEGMENT_COVERAGE", {})

RejectRobot ==
  /\ verdict = "new" /\ Covers(orders) /\ ~ DOMAIN orders \subseteq Robots
  /\ End("UNKNOWN_ROBOT", {})

Admit ==
  /\ verdict = "new" /\ Covers(orders) /\ DOMAIN orders \subseteq Robots
  /\ End("running", {})

-----------------------------------------------------------------------------
(* One round of the while loop.                                            *)

\* planned end and exit of prior_id, or where the robot starts.
LastEnd(n)  == IF next[n] = 0 THEN inst.on[n] ELSE plan[orders[n][next[n]]].end

\* Mutant of LastExit: the approach is always measured from the base.
AlwaysBase(n) == inst.base[n]

LastExit(n) == IF next[n] = 0 THEN inst.base[n] ELSE plan[orders[n][next[n]]].exit

\* Mutant of Unfinished: stops one segment short of the end of the order.
UnfinishedShort(n) == next[n] + 1 < Len(orders[n])

Unfinished(n) == next[n] < Len(orders[n])

Cursor(n) == orders[n][next[n] + 1]

\* The robots whose next segment is a candidate.
Heads == {n \in DOMAIN orders : Unfinished(n) /\ Ready(inst, plan, Cursor(n))}

HeadStarts(n) == StartChoices(inst, plan, Cursor(n), n, LastEnd(n), LastExit(n))

EarliestHead(n, t) ==
  EarliestOn(inst, plan, Cursor(n), n, LastEnd(n), LastExit(n), t)

\* Mutant of Beats: priority before time.
BeatsByPriority(s, t, x, u) ==
  \/ inst.prio[s] > inst.prio[x]
  \/ inst.prio[s] = inst.prio[x] /\ t < u
  \/ inst.prio[s] = inst.prio[x] /\ t = u /\ s <= x

\* Order of the candidate tuples (earliest, -priority, segment_id, ...).
Beats(s, t, x, u) ==
  \/ t < u
  \/ t = u /\ inst.prio[s] > inst.prio[x]
  \/ t = u /\ inst.prio[s] = inst.prio[x] /\ s <= x

\* min(candidates): head n starting at t.
Chosen(n, t) ==
  /\ EarliestHead(n, t)
  /\ \A m \in Heads : \A u \in HeadStarts(m) :
       EarliestHead(m, u) => Beats(Cursor(n), t, Cursor(m), u)

\* Mutant of DispatchHead: the deadlines are not checked.
DispatchUnchecked(n) ==
  /\ verdict = "running" /\ ~ Complete(plan)
  /\ n \in Heads
  /\ \E t \in HeadStarts(n) :
       /\ Chosen(n, t)
       /\ plan' = Extend(plan, Cursor(n), Item(inst, Cursor(n), n, next[n], t, LastExit(n)))
  /\ next' = [next EXCEPT ![n] = @ + 1]
  /\ UNCHANGED <<args, verdict, blamed>>

DispatchHead(n) ==
  /\ verdict = "running" /\ ~ Complete(plan)
  /\ n \in Heads
  /\ \E t \in HeadStarts(n) :
       /\ Chosen(n, t)
       /\ InTime(inst, Cursor(n), n, t + inst.dur[Cursor(n)])
       /\ plan' = Extend(plan, Cursor(n), Item(inst, Cursor(n), n, next[n], t, LastExit(n)))
  /\ next' = [next EXCEPT ![n] = @ + 1]
  /\ UNCHANGED <<args, verdict, blamed>>

\* The chosen head would end too late.
MissWindow(n) ==
  /\ verdict = "running" /\ ~ Complete(plan)
  /\ n \in Heads
  /\ \E t \in HeadStarts(n) :
       /\ Chosen(n, t)
       /\ ~ InTime(inst, Cursor(n), n, t + inst.dur[Cursor(n)])
  /\ End("WINDOW", {Cursor(n)})

\* Segments remain and no head is ready.
Deadlock ==
  /\ verdict = "running" /\ ~ Complete(plan)
  /\ Heads = {}
  /\ End("DEADLOCK", Segments \ DOMAIN plan)

Finish ==
  /\ verdict = "running" /\ Complete(plan)
  /\ End("feasible", {})

Next ==
  \/ RejectCoverage \/ RejectRobot \/ Admit
  \/ \E n \in DOMAIN orders : DispatchHead(n) \/ MissWindow(n)
  \/ Deadlock \/ Finish

Spec == Init /\ [][Next]_vars

-----------------------------------------------------------------------------
(* Refinement: each dispatch is an edge of the dispatch tree of the        *)
(* assignment that the orders stand for.                                   *)

Names(r, s) == r \in DOMAIN orders /\ \E k \in DOMAIN orders[r] : orders[r][k] = s

\* The robot whose order holds s; any robot while the orders are not accepted.
Assigned ==
  [s \in Segments |-> IF \E r \in Robots : Names(r, s)
                      THEN CHOOSE r \in Robots : Names(r, s)
                      ELSE CHOOSE r \in Robots : TRUE]

Count == [r \in Robots |-> IF r \in DOMAIN orders THEN next[r] ELSE 0]

Ends == [r \in Robots |-> IF r \in DOMAIN orders THEN LastEnd(r) ELSE inst.on[r]]

Exits == [r \in Robots |-> IF r \in DOMAIN orders THEN LastExit(r) ELSE inst.base[r]]

Tree == INSTANCE DispatchTree
          WITH assign <- Assigned, lastEnd <- Ends, lastExit <- Exits, count <- Count

\* The list scheduler only ever walks down the dispatch tree: the per-robot
\* totals _expand carries are the ones build_schedule recomputes from prior_id.
RefinesTree == Tree!Spec

-----------------------------------------------------------------------------
(* Properties.                                                             *)

\* A plan returned as feasible covers the segments in the caller's orders and
\* passes every check of verify_plan that the caller's choice of robots does
\* not decide.
FeasibleVerifies ==
  verdict = "feasible" =>
    /\ SegmentCoverage(plan)
    /\ TimingClean(inst, plan)
    /\ \A n \in DOMAIN orders : \A k \in DOMAIN orders[n] :
         plan[orders[n][k]].robot = n /\ plan[orders[n][k]].index = k - 1

\* What a segment waits for: its dependencies and its left neighbour in the order.
Waits ==
  [s \in Segments |->
     Deps(inst, s) \cup {x \in Segments :
       \E n \in DOMAIN orders : \E k \in 2 .. Len(orders[n]) :
         orders[n][k] = s /\ orders[n][k - 1] = x}]

\* DEPENDENCY_OR_ORDER_DEADLOCK is reported exactly for orders that contradict
\* the dependencies: the segments it lists wait for one another, and orders
\* with a circular wait anywhere never end as feasible.
DeadlockExact ==
  /\ verdict = "DEADLOCK" => Circular(blamed, Waits)
  /\ verdict = "feasible" => ~ \E S \in SUBSET Segments : Circular(S, Waits)

\* Dispatches are made in order of start time: no later dispatch can reach
\* back before an interval that is already reserved.
DispatchedInTimeOrder ==
  [][\A s \in DOMAIN plan' \ DOMAIN plan : \A x \in DOMAIN plan :
       plan[x].start <= plan'[s].start]_vars
=============================================================================
