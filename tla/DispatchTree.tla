----------------------------- MODULE DispatchTree -----------------------------
(***************************************************************************)
(* The tree of dispatch sequences for one fixed assignment, as _expand of  *)
(* search_scheduling.py grows it: a node is a partial schedule, a child    *)
(* places one more precedence-ready segment on its robot at the earliest   *)
(* start its bounds and resources allow, and children that miss a deadline *)
(* are pruned.  A behaviour of this module is one path from the root.      *)
(*                                                                         *)
(* This is also the abstract specification of the two list schedulers:     *)
(* whatever their dispatch rule, each step they take is an edge of this    *)
(* tree (ListScheduler, DeadlineScheduler).                                *)
(***************************************************************************)
EXTENDS PlanVerifier

VARIABLES
  inst,      \* the instance; never changes
  assign,    \* robot of each segment; never changes
  plan,      \* scheduled: the items placed so far
  lastEnd,   \* robot_last_end
  lastExit,  \* robot_last_exit
  count      \* number of segments placed on each robot

vars == <<inst, assign, plan, lastEnd, lastExit, count>>

TypeOK ==
  /\ inst \in InstanceType
  /\ assign \in [Segments -> Robots]
  /\ DOMAIN plan \subseteq Segments
  /\ plan \in [DOMAIN plan -> ItemType]
  /\ lastEnd \in [Robots -> Nat]
  /\ lastExit \in [Robots -> Points]
  /\ count \in [Robots -> Nat]

Init ==
  /\ inst \in Instances
  /\ assign \in [Segments -> Robots]
  /\ plan = EmptyPlan
  /\ lastEnd = inst.on
  /\ lastExit = inst.base
  /\ count = [r \in Robots |-> 0]

\* Append s to the order of its robot, starting at t.
Place(s, t) ==
  LET r    == assign[s]
      item == Item(inst, s, r, count[r], t, lastExit[r])
  IN  /\ plan' = Extend(plan, s, item)
      /\ lastEnd' = [lastEnd EXCEPT ![r] = item.end]
      /\ lastExit' = [lastExit EXCEPT ![r] = item.exit]
      /\ count' = [count EXCEPT ![r] = @ + 1]

Dispatch(s) ==
  LET r == assign[s]
  IN  /\ Ready(inst, plan, s)
      /\ \E t \in StartChoices(inst, plan, s, r, lastEnd[r], lastExit[r]) :
           /\ EarliestOn(inst, plan, s, r, lastEnd[r], lastExit[r], t)
           /\ InTime(inst, s, r, t + inst.dur[s])
           /\ Place(s, t)
      /\ UNCHANGED <<inst, assign>>

Next == \E s \in Segments : Dispatch(s)

Spec == Init /\ [][Next]_vars

-----------------------------------------------------------------------------
(* Properties.                                                             *)

\* Every partial schedule of the tree, and so every plan a leaf carries,
\* satisfies each timing constraint the independent verifier checks: the
\* incremental bookkeeping of _expand (last end and exit per robot, sampled
\* resource occupancy) never lets a constraint slip that verify_plan would
\* report.
TimingSound == TimingClean(inst, plan)

\* No shared resource is over capacity at any instant, although both the
\* scheduler and the verifier sample occupancy only at starts and ends.
CapacityAtEveryInstant ==
  \A q \in Resources : \A x \in Holders(inst, plan, q) :
    \A u \in plan[x].start .. plan[x].end :
      Cardinality(ActiveAt(inst, plan, q, u)) <= inst.cap[q]

\* The robot that ran before b on its robot, if any.
Earlier(b) == {a \in DOMAIN plan : Follows(plan, a, b)}

Without(b) == [x \in DOMAIN plan \ {b} |-> plan[x]]

\* Schedules are left-justified: with everything else fixed, no placed segment
\* could have started earlier, however much was placed after it.
LeftJustified ==
  \A b \in DOMAIN plan :
    LET r      == plan[b].robot
        ready  == IF Earlier(b) = {} THEN inst.on[r]
                  ELSE plan[CHOOSE a \in Earlier(b) : TRUE].end
        source == IF Earlier(b) = {} THEN inst.base[r]
                  ELSE plan[CHOOSE a \in Earlier(b) : TRUE].exit
        bounds == LowerBounds(inst, plan, b, r, ready, source)
    IN  \A t \in 0 .. plan[b].start - 1 :
          ~ ((\A d \in bounds : d <= t) /\ Fits(inst, Without(b), b, t))
=============================================================================
