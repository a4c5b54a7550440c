--------------------------- MODULE DeadlineScheduler ---------------------------
(***************************************************************************)
(* build_deadline_aware_schedule: minimum-slack dispatch for a fixed       *)
(* assignment without fixed orders.  Every precedence-ready segment        *)
(* competes; the one with the least slack to its deadlines is dispatched   *)
(* at its earliest start, and a negative slack ends the call.              *)
(***************************************************************************)
EXTENDS PlanVerifier, FiniteSetsExt

CONSTANTS
  AssignmentChoices   \* assignments a caller may pass: segment id -> robot name

VARIABLES
  inst, assignment,            \* arguments; never change
  plan,                        \* scheduled
  lastEnd, lastExit, count,    \* robot_last_end, robot_last_exit, robot_order_index
  verdict,                     \* "new", "running", or how the call ended
  blamed                       \* the segments the final diagnostic names

vars == <<inst, assignment, plan, lastEnd, lastExit, count, verdict, blamed>>
args == <<inst, assignment>>
robots == <<lastEnd, lastExit, count>>

Failures == {"SEGMENT_COVERAGE", "UNKNOWN_ROBOT", "DEADLOCK", "SLACK"}

TypeOK ==
  /\ inst \in InstanceType
  /\ assignment \in AssignmentChoices
  /\ DOMAIN plan \subseteq Segments
  /\ plan \in [DOMAIN plan -> ItemType]
  /\ lastEnd \in [Robots -> Nat]
  /\ lastExit \in [Robots -> Points]
  /\ count \in [Robots -> Nat]
  /\ verdict \in {"new", "running", "feasible"} \cup Failures
  /\ blamed \subseteq Segments

Init ==
  /\ inst \in Instances
  /\ assignment \in AssignmentChoices
  /\ plan = EmptyPlan
  /\ lastEnd = inst.on
  /\ lastExit = inst.base
  /\ count = [r \in Robots |-> 0]
  /\ verdict = "new"
  /\ blamed = {}

End(v, B) == verdict' = v /\ blamed' = B /\ UNCHANGED <<args, plan, robots>>

-----------------------------------------------------------------------------
(* The checks on the arguments.                                            *)

Covered == DOMAIN assignment = Segments
Known   == \A s \in DOMAIN assignment : assignment[s] \in Robots

RejectCoverage ==
  verdict = "new" /\ ~ Covered /\ End("SEGMENT_COVERAGE", {})

RejectRobot ==
  verdict = "new" /\ Covered /\ ~ Known /\ End("UNKNOWN_ROBOT", {})

Admit ==
  verdict = "new" /\ Covered /\ Known /\ End("running", {})

-----------------------------------------------------------------------------
(* One round of the while loop.                                            *)

\* Mutant of Candidates: only the first unplaced segment is looked at.
FirstUnplaced ==
  {s \in Segments : Ready(inst, plan, s) /\ \A x \in Segments \ DOMAIN plan : s <= x}

Candidates == {s \in Segments : Ready(inst, plan, s)}

Starts(s) ==
  StartChoices(inst, plan, s, assignment[s], lastEnd[assignment[s]], lastExit[assignment[s]])

EarliestFor(s, t) ==
  EarliestOn(inst, plan, s, assignment[s], lastEnd[assignment[s]], lastExit[assignment[s]], t)

\* Mutant of LatestEnd: only the window of the segment counts.
WindowEnd(s) == inst.closes[s]

LatestEnd(s) == Min(Deadlines(inst, s, assignment[s]))

Slack(s, t) == LatestEnd(s) - (t + inst.dur[s])

\* Order of the candidate tuples
\* (slack, latest_end, earliest, -priority, segment_id, ...).
Beats(s, t, x, u) ==
  \/ Slack(s, t) < Slack(x, u)
  \/ /\ Slack(s, t) = Slack(x, u)
     /\ \/ LatestEnd(s) < LatestEnd(x)
        \/ /\ LatestEnd(s) = LatestEnd(x)
           /\ \/ t < u
              \/ t = u /\ inst.prio[s] > inst.prio[x]
              \/ t = u /\ inst.prio[s] = inst.prio[x] /\ s <= x

\* min(candidates): segment s starting at t.
Chosen(s, t) ==
  /\ EarliestFor(s, t)
  /\ \A x \in Candidates : \A u \in Starts(x) :
       EarliestFor(x, u) => Beats(s, t, x, u)

\* Mutant of Place: the tool is thought to be still at the base.
PlaceAtBase(s, t) ==
  LET r    == assignment[s]
      item == Item(inst, s, r, count[r], t, lastExit[r])
  IN  /\ plan' = Extend(plan, s, item)
      /\ count' = [count EXCEPT ![r] = @ + 1]
      /\ lastEnd' = [lastEnd EXCEPT ![r] = item.end]
      /\ UNCHANGED lastExit

Place(s, t) ==
  LET r    == assignment[s]
      item == Item(inst, s, r, count[r], t, lastExit[r])
  IN  /\ plan' = Extend(plan, s, item)
      /\ count' = [count EXCEPT ![r] = @ + 1]
      /\ lastEnd' = [lastEnd EXCEPT ![r] = item.end]
      /\ lastExit' = [lastExit EXCEPT ![r] = item.exit]

Dispatch(s) ==
  /\ verdict = "running" /\ ~ Complete(plan)
  /\ s \in Candidates
  /\ \E t \in Starts(s) : Chosen(s, t) /\ Slack(s, t) >= 0 /\ Place(s, t)
  /\ UNCHANGED <<args, verdict, blamed>>

\* The most urgent candidate is already late.
MissSlack(s) ==
  /\ verdict = "running" /\ ~ Complete(plan)
  /\ s \in Candidates
  /\ \E t \in Starts(s) : Chosen(s, t) /\ Slack(s, t) < 0
  /\ End("SLACK", {s})

\* Segments remain and none is ready.
Deadlock ==
  /\ verdict = "running" /\ ~ Complete(plan)
  /\ Candidates = {}
  /\ End("DEADLOCK", Segments \ DOMAIN plan)

Finish ==
  verdict = "running" /\ Complete(plan) /\ End("feasible", {})

Next ==
  \/ RejectCoverage \/ RejectRobot \/ Admit
  \/ \E s \in Segments : Dispatch(s) \/ MissSlack(s)
  \/ Deadlock \/ Finish

Spec == Init /\ [][Next]_vars

-----------------------------------------------------------------------------
(* Refinement.                                                             *)

\* The assignment of an accepted call; any robot for what a rejected one lacks.
Assigned ==
  [s \in Segments |-> IF s \in DOMAIN assignment /\ assignment[s] \in Robots
                      THEN assignment[s] ELSE CHOOSE r \in Robots : TRUE]

Tree == INSTANCE DispatchTree WITH assign <- Assigned

\* Whatever its dispatch rule, the scheduler only takes edges of the dispatch
\* tree: slack against the least deadline prunes like the three separate checks.
RefinesTree == Tree!Spec

-----------------------------------------------------------------------------
(* Properties.                                                             *)

\* A plan returned as feasible covers the segments on the robots the caller
\* chose and passes every check of verify_plan but edges and handoffs.
FeasibleVerifies ==
  verdict = "feasible" =>
    /\ SegmentCoverage(plan)
    /\ TimingClean(inst, plan)
    /\ \A s \in Segments : plan[s].robot = assignment[s]

Dependencies == [s \in Segments |-> Deps(inst, s)]

\* DEPENDENCY_DEADLOCK is reported only for segments that wait for one another
\* through predecessors and curve order, which validate_instance lets pass; and
\* on such an instance the scheduler never reports a feasible plan.
DeadlockExact ==
  /\ verdict = "DEADLOCK" => Circular(blamed, Dependencies)
  /\ verdict = "feasible" => ~ \E S \in SUBSET Segments : Circular(S, Dependencies)

\* Slack is only ever lost to waiting: as long as its own robot does not move,
\* a ready segment never gets an earlier start from what is dispatched
\* elsewhere, so a candidate that is late cannot be rescued by another robot.
NoRescueByOthers ==
  [][verdict = "running" =>
       \A s \in Candidates \cap Candidates' :
         count'[assignment[s]] = count[assignment[s]] =>
           \A t \in Starts(s), u \in Starts(s)' :
             EarliestFor(s, t) /\ EarliestFor(s, u)' => t <= u]_vars

=============================================================================
