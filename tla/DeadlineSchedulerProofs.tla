------------------------ MODULE DeadlineSchedulerProofs ------------------------
(***************************************************************************)
(* The deadline-aware scheduler implements the dispatch tree: each of its  *)
(* dispatches is an edge, and keeps what AllocationLemmas calls Sound.     *)
(***************************************************************************)
EXTENDS DeadlineScheduler, AllocationLemmas

\* The search state the scheduler has reached.
Node == [plan |-> plan, lastEnd |-> lastEnd, lastExit |-> lastExit, count |-> count]

\* What the items satisfied when they were placed.
TreeInv == Sound(inst, Assigned, Node)

LEMMA NodeFields ==
  /\ Node.plan = plan /\ Node.lastEnd = lastEnd /\ Node.lastExit = lastExit
  /\ Node.count = count
BY DEF Node

\* The operators of the tree are those of this module.
LEMMA SameModel ==
  ASSUME NEW I, NEW p, NEW s, NEW r, NEW a, NEW b, NEW t, NEW k, NEW i
  PROVE  /\ Tree!Ready(I, p, s) <=> Ready(I, p, s)
         /\ Tree!StartChoices(I, p, s, r, a, b) = StartChoices(I, p, s, r, a, b)
         /\ Tree!EarliestOn(I, p, s, r, a, b, t) <=> EarliestOn(I, p, s, r, a, b, t)
         /\ Tree!InTime(I, s, r, t) <=> InTime(I, s, r, t)
         /\ Tree!Item(I, s, r, k, t, b) = Item(I, s, r, k, t, b)
         /\ Tree!Extend(p, s, i) = Extend(p, s, i)
<1>1. Tree!Ready(I, p, s) <=> Ready(I, p, s)
  BY DEF Tree!Ready, Ready, Tree!Deps, Deps, Tree!ParentPrevious, ParentPrevious,
         Tree!SameCurve, SameCurve
<1>2. Tree!LowerBounds(I, p, s, r, a, b) = LowerBounds(I, p, s, r, a, b)
  BY DEF Tree!LowerBounds, LowerBounds, Tree!Deps, Deps, Tree!ParentPrevious, ParentPrevious,
         Tree!SameCurve, SameCurve, Tree!Approach, Approach, Tree!Entry, Entry,
         Tree!RunsForward, RunsForward
<1>3. Tree!StartChoices(I, p, s, r, a, b) = StartChoices(I, p, s, r, a, b)
  BY <1>2 DEF Tree!StartChoices, StartChoices
<1>4. \A S : Tree!Cardinality(S) = Cardinality(S)
  BY DEF Tree!Cardinality, Cardinality
<1>5. \A u : Tree!Fits(I, p, s, u) <=> Fits(I, p, s, u)
  BY <1>4 DEF Tree!Fits, Fits, Tree!Overloaded, Overloaded, Tree!EventTimes, EventTimes,
         Tree!ActiveAt, ActiveAt, Tree!Holders, Holders
<1>6. Tree!EarliestOn(I, p, s, r, a, b, t) <=> EarliestOn(I, p, s, r, a, b, t)
  BY <1>2, <1>5 DEF Tree!EarliestOn, EarliestOn, Tree!IsEarliest, IsEarliest
<1>7. Tree!InTime(I, s, r, t) <=> InTime(I, s, r, t)
  BY DEF Tree!InTime, InTime, Tree!Deadlines, Deadlines
<1>8. Tree!Item(I, s, r, k, t, b) = Item(I, s, r, k, t, b)
  BY DEF Tree!Item, Item, Tree!ExitPoint, ExitPoint, Tree!RunsForward, RunsForward
<1>9. Tree!Extend(p, s, i) = Extend(p, s, i)
  BY DEF Tree!Extend, Extend
<1>10. QED  BY <1>1, <1>3, <1>6, <1>7, <1>8, <1>9

-----------------------------------------------------------------------------
\* An edge of the tree, in the operators of this module.
Edge(s) ==
  LET r == Assigned[s]
  IN  /\ Ready(inst, plan, s)
      /\ \E t \in StartChoices(inst, plan, s, r, lastEnd[r], lastExit[r]) :
           LET item == Item(inst, s, r, count[r], t, lastExit[r])
           IN  /\ EarliestOn(inst, plan, s, r, lastEnd[r], lastExit[r], t)
               /\ InTime(inst, s, r, t + inst.dur[s])
               /\ plan' = Extend(plan, s, item)
               /\ lastEnd' = [lastEnd EXCEPT ![r] = item.end]
               /\ lastExit' = [lastExit EXCEPT ![r] = item.exit]
               /\ count' = [count EXCEPT ![r] = @ + 1]
      /\ UNCHANGED <<inst, Assigned>>

tree == <<inst, Assigned, plan, lastEnd, lastExit, count>>

LEMMA EdgeIsTree ==
  ASSUME NEW s, Edge(s)
  PROVE  Tree!Dispatch(s)
<1> DEFINE r == Assigned[s]
           item(t) == Item(inst, s, r, count[r], t, lastExit[r])
<1>1. PICK t \in StartChoices(inst, plan, s, r, lastEnd[r], lastExit[r]) :
        /\ EarliestOn(inst, plan, s, r, lastEnd[r], lastExit[r], t)
        /\ InTime(inst, s, r, t + inst.dur[s])
        /\ plan' = Extend(plan, s, item(t))
        /\ lastEnd' = [lastEnd EXCEPT ![r] = item(t).end]
        /\ lastExit' = [lastExit EXCEPT ![r] = item(t).exit]
        /\ count' = [count EXCEPT ![r] = @ + 1]
  BY DEF Edge
<1>2. Ready(inst, plan, s) /\ UNCHANGED <<inst, Assigned>>
  BY DEF Edge
<1>3. Tree!Item(inst, s, r, count[r], t, lastExit[r]) = item(t)
  BY SameModel
<1>4. Tree!Extend(plan, s, item(t)) = Extend(plan, s, item(t))
  BY SameModel
<1>5. Tree!Place(s, t)
  BY <1>1, <1>3, <1>4 DEF Tree!Place
<1>6. QED  BY <1>1, <1>2, <1>5, SameModel DEF Tree!Dispatch

\* An edge keeps what the items satisfied.
LEMMA EdgeSound ==
  ASSUME TreeInv, NEW s \in Segments, Edge(s)
  PROVE  TreeInv'
<1> DEFINE r == Assigned[s]
<1>1. PICK t \in StartChoices(inst, plan, s, r, lastEnd[r], lastExit[r]) :
        /\ EarliestOn(inst, plan, s, r, lastEnd[r], lastExit[r], t)
        /\ InTime(inst, s, r, t + inst.dur[s])
        /\ plan' = Extend(plan, s, Item(inst, s, r, count[r], t, lastExit[r]))
        /\ lastEnd' = [lastEnd EXCEPT ![r] = t + inst.dur[s]]
        /\ lastExit' = [lastExit EXCEPT ![r] = ExitPoint(inst, s, lastExit[r])]
        /\ count' = [count EXCEPT ![r] = @ + 1]
  BY DEF Edge, Item
<1>2. Ready(inst, plan, s) /\ inst' = inst /\ Assigned' = Assigned
  BY DEF Edge
<1>3. t \in Nat /\ Placed(inst, Assigned, Node, s, t, Node')
  BY <1>1, <1>2, DispatchPlaces DEF Node, TreeInv
<1>4. QED  BY <1>2, <1>3, StepSound DEF TreeInv

\* What the verdicts remember about the call.
Facts ==
  /\ inst \in Instances
  /\ assignment \in AssignmentChoices
  /\ DOMAIN plan \subseteq Segments
  /\ verdict \in {"new", "running", "feasible"} \cup Failures
  /\ verdict \in {"running", "feasible"} => Covered /\ Known
  /\ verdict = "feasible" => Complete(plan)
  /\ verdict = "DEADLOCK" =>
       blamed = Segments \ DOMAIN plan /\ blamed # {} /\ Candidates = {}
  /\ blamed \subseteq Segments

LEMMA LeastDeadline ==
  ASSUME NEW I \in Instances, NEW s \in Segments, NEW r \in Robots, NEW e \in Nat,
         Min(Deadlines(I, s, r)) - e >= 0
  PROVE  InTime(I, s, r, e)
<1> DEFINE D == Deadlines(I, s, r)
<1>1. I.closes[s] \in Nat /\ I.off[r] \in Nat /\ \A q \in I.uses[s] : I.shut[q] \in Nat
  BY InstanceTypes
<1>2. D \in SUBSET Nat /\ D # {}
  BY <1>1 DEF Deadlines
<1>3. PICK m \in D : \A n \in D : m <= n
  BY <1>2, LeastNatural
<1>4. Min(D) \in D /\ \A n \in D : Min(D) <= n
  BY <1>3 DEF Min
<1>5. Min(D) - e >= 0
  OBVIOUS
<1> HIDE DEF D
<1>6. \A n \in D : e <= n
  <2>1. Min(D) \in Nat /\ \A n \in D : n \in Nat
    BY <1>2, <1>4
  <2>2. QED  BY <2>1, <1>4, <1>5
<1>7. QED  BY <1>6 DEF D, InTime

LEMMA InitTree == Init => Tree!Init /\ TreeInv /\ Facts
<1> SUFFICES ASSUME Init PROVE Tree!Init /\ TreeInv /\ Facts
  OBVIOUS
<1>1. Assigned \in [Segments -> Robots]
  BY RobotsAssumption DEF Assigned
<1>2. Tree!EmptyPlan = EmptyPlan
  BY DEF Tree!EmptyPlan, EmptyPlan
<1>3. Tree!Init /\ TreeInv
  <2>1. /\ inst \in Instances /\ plan = EmptyPlan /\ lastEnd = inst.on
        /\ lastExit = inst.base /\ count = [r \in Robots |-> 0]
    BY DEF Init
  <2>2. TreeInv
    BY <1>1, <2>1, NodeFields, StartSound DEF TreeInv
  <2>3. QED  BY <1>1, <1>2, <2>2 DEF Init, Tree!Init
<1>4. Facts
  BY DEF Init, Facts, EmptyPlan
<1>5. QED  BY <1>3, <1>4

LEMMA Types ==
  ASSUME TreeInv
  PROVE  /\ lastEnd \in [Robots -> Nat] /\ lastExit \in [Robots -> Points]
         /\ count \in [Robots -> Nat]
         /\ plan \in [DOMAIN plan -> ItemType]
         /\ \A x \in DOMAIN plan : plan[x].start \in Nat /\ plan[x].end \in Nat
BY NodeFields DEF TreeInv, Sound, Typed, ItemType

LEMMA StepTree ==
  ASSUME Facts, TreeInv, [Next]_vars
  PROVE  /\ (\E s \in Segments : Edge(s)) \/ UNCHANGED tree
         /\ Facts'
<1>1. ASSUME NEW s \in Segments, Dispatch(s)
      PROVE  Edge(s) /\ Facts'
  <2> DEFINE r == assignment[s]
  <2>1. verdict = "running" /\ Covered /\ Known
    BY <1>1 DEF Dispatch, Facts
  <2>2. r \in Robots /\ Assigned[s] = r
    BY <2>1 DEF Covered, Known, Assigned
  <2>3. UNCHANGED <<inst, assignment, Assigned>>
    BY <1>1 DEF Dispatch, args, Assigned
  <2>4. Ready(inst, plan, s)
    BY <1>1 DEF Dispatch, Candidates
  <2>5. PICK t \in Starts(s) : Chosen(s, t) /\ Slack(s, t) >= 0 /\ Place(s, t)
    BY <1>1 DEF Dispatch
  <2>6. /\ t \in StartChoices(inst, plan, s, r, lastEnd[r], lastExit[r])
        /\ EarliestOn(inst, plan, s, r, lastEnd[r], lastExit[r], t)
    BY <2>5 DEF Starts, Chosen, EarliestFor
  <2>7. t \in Nat /\ inst.dur[s] \in Nat
    <3>1. Deps(inst, s) \subseteq DOMAIN plan
      BY <2>4 DEF Ready
    <3>2. inst \in Instances
      BY DEF Facts
    <3>3. lastEnd[r] \in Nat /\ lastExit[r] \in Points
      BY <2>2, Types
    <3>4. t \in Nat
      BY <2>2, <2>6, <3>1, <3>2, <3>3, Types, NaturalStart
    <3>5. QED  BY <3>2, <3>4, InstanceTypes
  <2>8. InTime(inst, s, r, t + inst.dur[s])
    BY <2>2, <2>5, <2>7, LeastDeadline DEF Slack, LatestEnd, Facts
  <2>9. Edge(s)
    BY <2>2, <2>3, <2>4, <2>5, <2>6, <2>8 DEF Edge, Place
  <2>10. DOMAIN plan' \subseteq Segments
    BY <2>5 DEF Place, Extend, Facts
  <2>11. verdict' = "running" /\ blamed' = blamed
    BY <1>1, <2>1 DEF Dispatch
  <2>12. QED
    BY <2>1, <2>3, <2>9, <2>10, <2>11 DEF Facts, Covered, Known
<1>2. ASSUME NEW v, NEW B, End(v, B)
      PROVE  UNCHANGED <<inst, assignment, plan, tree>> /\ verdict' = v /\ blamed' = B
  BY <1>2 DEF End, args, robots, tree, Assigned
<1>3. CASE RejectCoverage
  BY <1>3, <1>2 DEF RejectCoverage, Facts, Failures
<1>4. CASE RejectRobot
  BY <1>4, <1>2 DEF RejectRobot, Facts, Failures
<1>5. CASE Admit
  BY <1>5, <1>2 DEF Admit, Facts, Covered, Known
<1>6. ASSUME NEW s \in Segments, MissSlack(s)
      PROVE  UNCHANGED tree /\ Facts'
  BY <1>6, <1>2 DEF MissSlack, Facts, Failures
<1>7. CASE Deadlock
  <2>1. Segments \ DOMAIN plan # {}
    BY <1>7 DEF Deadlock, Complete, Facts
  <2>2. End("DEADLOCK", Segments \ DOMAIN plan) /\ Candidates = {}
    BY <1>7 DEF Deadlock
  <2>3. /\ UNCHANGED <<inst, assignment, plan, tree>>
        /\ verdict' = "DEADLOCK" /\ blamed' = Segments \ DOMAIN plan
    BY <2>2, <1>2
  <2>4. Candidates' = {}
    BY <2>2, <2>3 DEF Candidates
  <2>5. QED  BY <2>1, <2>3, <2>4 DEF Facts, Failures
<1>8. CASE Finish
  BY <1>8, <1>2 DEF Finish, Facts, Complete, Covered, Known
<1>9. CASE UNCHANGED vars
  BY <1>9 DEF vars, tree, Assigned, Facts, Covered, Known, Complete, Candidates
<1>10. QED
  BY <1>1, <1>3, <1>4, <1>5, <1>6, <1>7, <1>8, <1>9 DEF Next

Inv == TreeInv /\ Facts

LEMMA InitInv == Init => Inv
BY InitTree DEF Inv

LEMMA StepInv == Inv /\ [Next]_vars => Inv'
<1> SUFFICES ASSUME Inv, [Next]_vars PROVE Inv'
  OBVIOUS
<1>1. ((\E s \in Segments : Edge(s)) \/ UNCHANGED tree) /\ Facts'
  BY StepTree DEF Inv
<1>2. CASE UNCHANGED tree
  BY <1>1, <1>2 DEF tree, Inv, TreeInv, Node
<1>3. QED  BY <1>1, <1>2, EdgeSound DEF Inv

LEMMA Invariance == Spec => []Inv
BY InitInv, StepInv, PTL DEF Spec
-----------------------------------------------------------------------------
\* Every run of the scheduler is a path of the dispatch tree.
THEOREM RefinesTreeHolds == Spec => RefinesTree
<1>1. Init => Tree!Init
  BY InitTree
<1>2. Inv /\ [Next]_vars => [Tree!Next]_Tree!vars
  <2> SUFFICES ASSUME Inv, [Next]_vars PROVE [Tree!Next]_Tree!vars
    OBVIOUS
  <2>1. (\E s \in Segments : Edge(s)) \/ UNCHANGED tree
    BY StepTree DEF Inv
  <2>2. QED  BY <2>1, EdgeIsTree DEF tree, Tree!Next, Tree!vars
<1>3. QED  BY <1>1, <1>2, Invariance, PTL DEF Spec, RefinesTree, Tree!Spec

\* The variables keep their types.
THEOREM TypeCorrect == Spec => []TypeOK
<1>1. Inv => TypeOK
  <2> SUFFICES ASSUME Inv PROVE TypeOK
    OBVIOUS
  <2>1. inst \in InstanceType
    BY InstancesAssumption DEF Inv, Facts
  <2>2. QED  BY <2>1, Types DEF Inv, Facts, TypeOK
<1>2. QED  BY <1>1, Invariance, PTL

\* Every feasible plan covers the segments as assigned and passes the verifier.
THEOREM FeasibleVerifiesHolds == Spec => []FeasibleVerifies
<1>1. Inv => FeasibleVerifies
  <2> SUFFICES ASSUME Inv, verdict = "feasible"
               PROVE  /\ SegmentCoverage(plan)
                      /\ TimingClean(inst, plan)
                      /\ \A s \in Segments : plan[s].robot = assignment[s]
    BY DEF FeasibleVerifies
  <2>1. Covered /\ Known /\ Complete(plan)
    BY DEF Inv, Facts
  <2>2. ItemsSound(inst, Assigned, Node)
    BY DEF Inv, TreeInv, Sound
  <2>3. \A s \in Segments : plan[s].robot = Assigned[s] /\ Assigned[s] = assignment[s]
    BY <2>1, <2>2, NodeFields DEF ItemsSound, Complete, Covered, Known, Assigned
  <2>4. TimingClean(inst, plan)
    BY SoundClean, NodeFields DEF Inv, TreeInv
  <2>5. QED  BY <2>1, <2>3, <2>4 DEF SegmentCoverage, Complete
<1>2. QED  BY <1>1, Invariance, PTL

\* A deadlock is a circular dependency, and one rules out a feasible plan.
THEOREM DeadlockExactHolds == Spec => []DeadlockExact
<1>1. Inv => DeadlockExact
  <2> SUFFICES ASSUME Inv PROVE DeadlockExact
    OBVIOUS
  <2>1. ASSUME verdict = "DEADLOCK" PROVE Circular(blamed, Dependencies)
    <3>1. blamed = Segments \ DOMAIN plan /\ blamed # {} /\ Candidates = {}
      BY <2>1 DEF Inv, Facts
    <3> SUFFICES ASSUME NEW s \in blamed PROVE Dependencies[s] \cap blamed # {}
      BY <3>1 DEF Circular
    <3>2. s \in Segments /\ s \notin DOMAIN plan /\ ~ Ready(inst, plan, s)
      BY <3>1 DEF Candidates
    <3>3. Deps(inst, s) \subseteq Segments
      BY <3>2, DepsTypes DEF Inv, Facts
    <3>4. PICK d \in Deps(inst, s) : d \notin DOMAIN plan
      BY <3>2 DEF Ready
    <3>5. QED  BY <3>1, <3>2, <3>3, <3>4 DEF Dependencies
  <2>2. ASSUME verdict = "feasible", NEW S \in SUBSET Segments, Circular(S, Dependencies)
        PROVE  FALSE
    <3>1. S # {} /\ \A s \in S : s \in DOMAIN plan
      BY <2>2 DEF Inv, Facts, Complete, Circular
    <3>2. \A s \in S : plan[s].start \in Nat /\ plan[s].end \in Nat
      BY <3>1, Types DEF Inv
    <3> DEFINE starts == {plan[s].start : s \in S}
    <3>3. starts \in SUBSET Nat /\ starts # {}
      BY <3>1, <3>2
    <3>4. PICK m \in starts : \A n \in starts : m <= n
      BY <3>3, LeastNatural
    <3>5. PICK s \in S : \A x \in S : plan[s].start <= plan[x].start
      BY <3>4
    <3>6. PICK d \in S : d \in Deps(inst, s)
      BY <2>2 DEF Circular, Dependencies
    <3>7. plan[d].end <= plan[s].start
      <4>1. DepsSound(inst, Node)
        BY DEF Inv, TreeInv, Sound
      <4>2. QED  BY <3>1, <3>6, <4>1, NodeFields DEF DepsSound
    <3>8. plan[d].end = plan[d].start + inst.dur[d]
      <4>1. ItemsSound(inst, Assigned, Node)
        BY DEF Inv, TreeInv, Sound
      <4>2. QED  BY <3>1, <4>1, NodeFields DEF ItemsSound
    <3>9. inst.dur[d] \in Nat /\ inst.dur[d] > 0
      BY InstanceTypes DEF Inv, Facts
    <3>10. plan[s].start <= plan[d].start
      BY <3>5
    <3>11. QED  BY <3>2, <3>7, <3>8, <3>9, <3>10
  <2>3. QED  BY <2>1, <2>2 DEF DeadlockExact
<1>2. QED  BY <1>1, Invariance, PTL
-----------------------------------------------------------------------------
\* The arguments of the call stay what they are.
LEMMA ArgumentsStay == [Next]_vars => assignment' = assignment /\ inst' = inst
BY DEF Next, vars, RejectCoverage, RejectRobot, Admit, Dispatch, MissSlack, Deadlock,
       Finish, End, args

LEMMA SpannedPlan ==
  /\ Inv => Spanned(plan)
  /\ Inv' => Spanned(plan')
<1>1. Inv => Spanned(plan)
  BY Types DEF Spanned, Inv, Facts
<1>2. Inv' => Spanned(plan')
  BY DEF Spanned, Inv, Facts, TreeInv, Sound, Typed, ItemType, Node
<1>3. QED  BY <1>1, <1>2

\* A step leaves the placed items where they are, and the totals of a robot that
\* is given nothing.
Grows ==
  /\ inst' = inst /\ assignment' = assignment
  /\ DOMAIN plan \subseteq DOMAIN plan'
  /\ \A x \in DOMAIN plan : plan'[x] = plan[x]
  /\ \A r \in Robots : count'[r] = count[r] =>
       lastEnd'[r] = lastEnd[r] /\ lastExit'[r] = lastExit[r]

LEMMA StepGrows == ASSUME Inv, [Next]_vars PROVE Grows
<1>1. lastEnd \in [Robots -> Nat] /\ lastExit \in [Robots -> Points]
      /\ count \in [Robots -> Nat]
  BY Types DEF Inv
<1>2. CASE \E s \in Segments : Edge(s)
  <2>1. PICK s \in Segments : Edge(s)
    BY <1>2
  <2> DEFINE r == Assigned[s]
             item(t) == Item(inst, s, r, count[r], t, lastExit[r])
  <2>2. PICK t : /\ plan' = Extend(plan, s, item(t))
                 /\ lastEnd' = [lastEnd EXCEPT ![r] = item(t).end]
                 /\ lastExit' = [lastExit EXCEPT ![r] = item(t).exit]
                 /\ count' = [count EXCEPT ![r] = @ + 1]
    BY <2>1 DEF Edge
  <2>3. s \notin DOMAIN plan /\ r \in Robots
    BY <2>1, RobotsAssumption DEF Edge, Ready, Assigned
  <2>4. DOMAIN plan \subseteq DOMAIN plan' /\ \A x \in DOMAIN plan : plan'[x] = plan[x]
    BY <2>2, <2>3 DEF Extend
  <2>5. count'[r] # count[r]
    BY <1>1, <2>2, <2>3
  <2>6. \A v \in Robots : count'[v] = count[v] =>
          lastEnd'[v] = lastEnd[v] /\ lastExit'[v] = lastExit[v]
    BY <1>1, <2>2, <2>5
  <2>7. inst' = inst
    BY <2>1 DEF Edge
  <2>8. QED  BY <2>4, <2>6, <2>7, ArgumentsStay DEF Grows
<1>3. CASE UNCHANGED tree
  BY <1>3, ArgumentsStay DEF Grows, tree
<1>4. QED  BY <1>2, <1>3, StepTree DEF Inv

\* A ready segment never gets an earlier start from what is dispatched elsewhere:
\* its bounds stay, room only shrinks, and the start it had was the earliest of
\* all instants.
THEOREM NoRescueByOthersHolds == Spec => NoRescueByOthers
<1>1. Inv /\ [Next]_vars =>
        [verdict = "running" =>
           \A s \in Candidates \cap Candidates' :
             count'[assignment[s]] = count[assignment[s]] =>
               \A t \in Starts(s), u \in Starts(s)' :
                 EarliestFor(s, t) /\ EarliestFor(s, u)' => t <= u]_vars
  <2> SUFFICES ASSUME Inv, [Next]_vars,
                      verdict = "running", NEW s \in Candidates, s \in Candidates',
                      count'[assignment[s]] = count[assignment[s]],
                      NEW t \in Starts(s), NEW u \in Starts(s)',
                      EarliestFor(s, t), EarliestFor(s, u)'
               PROVE  t <= u
    OBVIOUS
  <2> DEFINE r == assignment[s]
  <2>1. Grows
    BY StepGrows
  <2>2. s \in Segments /\ r \in Robots /\ inst \in Instances /\ Ready(inst, plan, s)
    BY DEF Inv, Facts, Covered, Known, Candidates
  <2>3. /\ inst' = inst /\ assignment' = assignment
        /\ lastEnd'[r] = lastEnd[r] /\ lastExit'[r] = lastExit[r]
    BY <2>1, <2>2 DEF Grows
  <2>4. lastEnd[r] \in Nat /\ lastExit[r] \in Points
    BY <2>2, Types DEF Inv
  <2>5. Deps(inst, s) \subseteq DOMAIN plan /\ \A x \in DOMAIN plan : plan'[x] = plan[x]
    BY <2>1, <2>2 DEF Ready, Grows
  <2> DEFINE LB == LowerBounds(inst, plan, s, r, lastEnd[r], lastExit[r])
  <2>6. LowerBounds(inst, plan', s, r, lastEnd[r], lastExit[r]) = LB
    BY <2>5 DEF LowerBounds
  <2>7. Spanned(plan) /\ Spanned(plan')
    BY StepInv, SpannedPlan
  <2>8. LB \in SUBSET Nat /\ LB # {}
    BY <2>2, <2>4, <2>5, <2>7, NaturalBounds DEF Spanned
  <2>9. IsEarliest(inst, plan, s, LB, t)
    BY DEF EarliestFor, EarliestOn
  <2>10. IsEarliest(inst, plan', s, LB, u)
    BY <2>3, <2>6 DEF EarliestFor, EarliestOn
  <2>11. u \in Nat
    BY <2>7, <2>8, <2>10 DEF IsEarliest, Spanned
  <2>12. (\A b \in LB : b <= u) /\ Fits(inst, plan', s, u)
    BY <2>10 DEF IsEarliest
  <2>13. Fits(inst, plan, s, u)
    BY <2>1, <2>2, <2>7, <2>12, FitsShrinks DEF Grows
  <2> HIDE DEF LB
  <2>14. QED  BY <2>2, <2>7, <2>8, <2>9, <2>11, <2>12, <2>13, EarliestOfAll
<1>2. QED
  BY <1>1, Invariance, PTL DEF Spec, NoRescueByOthers
=============================================================================
