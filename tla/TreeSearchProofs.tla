--------------------------- MODULE TreeSearchProofs ---------------------------
(***************************************************************************)
(* Proofs about the dispatch tree and about the branch search that walks   *)
(* it.  The tree: every partial schedule satisfies the timing constraints  *)
(* of the verifier, whole spans included, and is left-justified.  The      *)
(* search: the plan it returns verifies, and "infeasible" and "optimal"    *)
(* are only said when they are true, because dispatching in the order of   *)
(* any plan the verifier would accept never falls behind that plan.        *)
(***************************************************************************)
EXTENDS DispatchTree, BranchSearch, AllocationLemmas, SequenceTheorems

\* The node a path of the tree has reached.
Node == [plan |-> plan, lastEnd |-> lastEnd, lastExit |-> lastExit, count |-> count]

\* The inductive invariant: the totals say what the items satisfied.
IInv == Sound(inst, assign, Node)

LEMMA NodeFields ==
  /\ Node.plan = plan /\ Node.lastEnd = lastEnd /\ Node.lastExit = lastExit
  /\ Node.count = count
BY DEF Node

LEMMA DispatchFacts ==
  ASSUME IInv, NEW s \in Segments, Dispatch(s)
  PROVE  /\ \E t \in Nat : Placed(inst, assign, Node, s, t, Node')
         /\ inst' = inst /\ assign' = assign
<1>1. PICK t \in StartChoices(inst, plan, s, assign[s], lastEnd[assign[s]], lastExit[assign[s]]) :
        /\ EarliestOn(inst, plan, s, assign[s], lastEnd[assign[s]], lastExit[assign[s]], t)
        /\ InTime(inst, s, assign[s], t + inst.dur[s])
        /\ Place(s, t)
  BY DEF Dispatch
<1>2. Ready(inst, plan, s) /\ inst' = inst /\ assign' = assign
  BY DEF Dispatch
<1> DEFINE r == assign[s]
<1>3. /\ plan' = Extend(plan, s, Item(inst, s, r, count[r], t, lastExit[r]))
      /\ lastEnd' = [lastEnd EXCEPT ![r] = t + inst.dur[s]]
      /\ lastExit' = [lastExit EXCEPT ![r] = ExitPoint(inst, s, lastExit[r])]
      /\ count' = [count EXCEPT ![r] = @ + 1]
  BY <1>1 DEF Place, Item
<1>4. t \in Nat /\ Placed(inst, assign, Node, s, t, Node')
  BY <1>1, <1>2, <1>3, DispatchPlaces DEF Node, IInv
<1>5. QED  BY <1>2, <1>4

LEMMA InitIInv == Init => IInv
<1> SUFFICES ASSUME Init PROVE IInv
  OBVIOUS
<1>1. /\ inst \in Instances /\ assign \in [Segments -> Robots] /\ plan = EmptyPlan
      /\ lastEnd = inst.on /\ lastExit = inst.base /\ count = [r \in Robots |-> 0]
  BY DEF Init
<1>2. QED  BY <1>1, NodeFields, StartSound DEF IInv

LEMMA StepIInv == IInv /\ [Next]_vars => IInv'
<1> SUFFICES ASSUME IInv, [Next]_vars PROVE IInv'
  OBVIOUS
<1>1. ASSUME NEW s \in Segments, Dispatch(s)
      PROVE  IInv'
  BY <1>1, DispatchFacts, StepSound DEF IInv
<1>2. CASE UNCHANGED vars
  BY <1>2 DEF vars, IInv, Node
<1>3. QED  BY <1>1, <1>2 DEF Next

LEMMA Invariance == Spec => []IInv
<1>1. Init => IInv
  BY InitIInv
<1>2. IInv /\ [Next]_vars => IInv'
  BY StepIInv
<1>3. QED  BY <1>1, <1>2, PTL DEF Spec

\* What the invariant says of the variables.
LEMMA TreeFacts ==
  ASSUME IInv
  PROVE  /\ inst \in Instances /\ assign \in [Segments -> Robots]
         /\ DOMAIN plan \subseteq Segments /\ plan \in [DOMAIN plan -> ItemType]
         /\ \A x \in DOMAIN plan :
              /\ plan[x].robot \in Robots /\ plan[x].index \in Nat
              /\ plan[x].start \in Nat /\ plan[x].end \in Nat /\ plan[x].exit \in Points
         /\ lastEnd \in [Robots -> Nat] /\ lastExit \in [Robots -> Points]
         /\ count \in [Robots -> Nat]
<1>1. Typed(inst, assign, Node) /\ inst \in Instances
  BY DEF IInv, Sound
<1>2. QED  BY <1>1, NodeFields DEF Typed, ItemType
-----------------------------------------------------------------------------
\* The variables keep their types along every dispatch sequence.
THEOREM TypeCorrect == Spec => []TypeOK
<1>1. IInv => TypeOK
  BY TreeFacts, InstancesAssumption DEF TypeOK
<1>2. QED  BY <1>1, Invariance, PTL

\* No shared resource is ever over capacity, at any instant of any span.
THEOREM CapacityHolds == Spec => []CapacityAtEveryInstant
<1>1. IInv => CapacityAtEveryInstant
  <2> SUFFICES ASSUME IInv, NEW q \in Resources, NEW x \in Holders(inst, plan, q),
                      NEW u \in plan[x].start .. plan[x].end
               PROVE  Cardinality(ActiveAt(inst, plan, q, u)) <= inst.cap[q]
    BY DEF CapacityAtEveryInstant
  <2>1. u \in Nat
    BY TreeFacts DEF Holders
  <2>2. RoomSound(inst, Node)
    BY DEF IInv, Sound
  <2>3. QED  BY <2>1, <2>2, NodeFields DEF RoomSound
<1>2. QED  BY <1>1, Invariance, PTL

\* Every timing constraint the verifier checks holds of every partial schedule.
THEOREM TimingSoundHolds == Spec => []TimingSound
<1>1. IInv => TimingSound
  BY SoundClean, NodeFields DEF IInv, TimingSound
<1>2. QED  BY <1>1, Invariance, PTL
-----------------------------------------------------------------------------
\* No start of b before its own has room, when its robot was ready at time ready
\* with the tool at source.
JustifiedFrom(b, ready, source) ==
  \A u \in 0 .. plan[b].start - 1 :
    ~ (/\ \A d \in LowerBounds(inst, plan, b, plan[b].robot, ready, source) : d <= u
       /\ Fits(inst, Without(b), b, u))

\* LeftJustified, with the neighbour on the robot found by its index.
Justified ==
  \A b \in DOMAIN plan :
    /\ plan[b].index = 0 =>
         JustifiedFrom(b, inst.on[plan[b].robot], inst.base[plan[b].robot])
    /\ \A a \in DOMAIN plan :
         plan[a].robot = plan[b].robot /\ plan[a].index = plan[b].index - 1 =>
           JustifiedFrom(b, plan[a].end, plan[a].exit)

\* What a dispatch of s at t does, in the variables.
Put(s, t) ==
  LET r == assign[s]
  IN  /\ s \notin DOMAIN plan /\ r \in Robots
      /\ inst' = inst
      /\ DOMAIN plan' = DOMAIN plan \cup {s}
      /\ \A x \in DOMAIN plan : plan'[x] = plan[x]
      /\ plan' \in [DOMAIN plan' -> ItemType]
      /\ plan'[s].robot = r /\ plan'[s].index = count[r] /\ plan'[s].start = t
      /\ Deps(inst, s) \subseteq DOMAIN plan

LEMMA DispatchPuts ==
  ASSUME IInv, NEW s \in Segments, Dispatch(s)
  PROVE  \E t \in Nat : Put(s, t)
<1>1. PICK t \in Nat : Placed(inst, assign, Node, s, t, Node') /\ inst' = inst
  BY DispatchFacts
<1>2. Node'.plan = plan'
  BY DEF Node
<1>3. Put(s, t)
  BY <1>1, <1>2, NodeFields DEF Placed, Put
<1>4. QED  BY <1>3

\* What the totals say of the items, and the order of the verifier.
LEMMA TreeTotals ==
  ASSUME IInv
  PROVE  /\ \A x \in DOMAIN plan : Deps(inst, x) \subseteq DOMAIN plan
         /\ \A x \in DOMAIN plan :
              /\ plan[x].index < count[plan[x].robot]
              /\ plan[x].index # 0 => \E p \in DOMAIN plan :
                   plan[p].robot = plan[x].robot /\ plan[p].index = plan[x].index - 1
         /\ \A r \in Robots :
              /\ count[r] = 0 => lastEnd[r] = inst.on[r] /\ lastExit[r] = inst.base[r]
              /\ \A x \in DOMAIN plan : plan[x].robot = r /\ plan[x].index = count[r] - 1 =>
                   lastEnd[r] = plan[x].end /\ lastExit[r] = plan[x].exit
<1>1. DepsSound(inst, Node) /\ IndicesSound(Node) /\ TotalsSound(inst, Node)
  BY DEF IInv, Sound
<1>2. QED  BY <1>1, NodeFields DEF DepsSound, IndicesSound, TotalsSound

LEMMA TreeOrder ==
  ASSUME IInv, NEW a \in DOMAIN plan, NEW b \in DOMAIN plan
  PROVE  /\ OrderedBefore(plan, a, b) <=>
              plan[a].robot = plan[b].robot /\ plan[a].index < plan[b].index
         /\ Follows(plan, a, b) =>
              plan[a].robot = plan[b].robot /\ plan[a].index = plan[b].index - 1
BY VerifierOrder, NodeFields DEF IInv

\* The start a dispatch takes is the first with room, at any instant.
LEMMA PlacedEarliest ==
  ASSUME IInv, NEW s \in Segments, Dispatch(s), NEW u \in Nat,
         \A d \in LowerBounds(inst, plan, s, assign[s], lastEnd[assign[s]],
                              lastExit[assign[s]]) : d <= u,
         Fits(inst, plan, s, u)
  PROVE  plan'[s].start <= u
<1> DEFINE r == assign[s]
           LB == LowerBounds(inst, plan, s, r, lastEnd[r], lastExit[r])
<1>1. PICK t \in StartChoices(inst, plan, s, r, lastEnd[r], lastExit[r]) :
        EarliestOn(inst, plan, s, r, lastEnd[r], lastExit[r], t) /\ Place(s, t)
  BY DEF Dispatch
<1>2. plan'[s].start = t
  BY <1>1 DEF Place, Extend, Item
<1>3. Spanned(plan) /\ inst \in Instances /\ r \in Robots
  BY TreeFacts DEF Spanned
<1>4. LB \in SUBSET Nat /\ LB # {}
  <2>1. Deps(inst, s) \subseteq DOMAIN plan
    BY DEF Dispatch, Ready
  <2>2. QED  BY <1>3, <2>1, TreeFacts, NaturalBounds DEF Spanned
<1>5. IsEarliest(inst, plan, s, LB, t)
  BY <1>1 DEF EarliestOn
<1> HIDE DEF LB
<1>6. \A d \in LB : d <= u
  BY DEF LB
<1>7. QED  BY <1>2, <1>3, <1>4, <1>5, <1>6, EarliestOfAll

\* What was placed earlier stays justified: there is only less room.
LEMMA StaysJustified ==
  ASSUME IInv, NEW s \in Segments, NEW t \in Nat, Put(s, t),
         NEW b \in DOMAIN plan, NEW ready, NEW source, JustifiedFrom(b, ready, source)
  PROVE  JustifiedFrom(b, ready, source)'
<1>1. /\ inst' = inst /\ inst \in Instances /\ b \in Segments
      /\ DOMAIN plan' = DOMAIN plan \cup {s}
      /\ \A x \in DOMAIN plan : plan'[x] = plan[x]
      /\ Deps(inst, b) \subseteq DOMAIN plan
  BY TreeFacts, TreeTotals DEF Put
<1>2. Spanned(Without(b)')
  <2>1. DOMAIN plan' \subseteq Segments /\ plan' \in [DOMAIN plan' -> ItemType]
    BY TreeFacts DEF Put
  <2>2. \A x \in DOMAIN plan' : plan'[x].start \in Nat /\ plan'[x].end \in Nat
    BY <2>1 DEF ItemType
  <2>3. QED  BY <2>1, <2>2 DEF Spanned, Without
<1> SUFFICES ASSUME NEW u \in 0 .. plan[b].start - 1,
                    \A d \in LowerBounds(inst, plan', b, plan[b].robot, ready, source) : d <= u,
                    Fits(inst, Without(b)', b, u)
             PROVE  FALSE
  BY <1>1 DEF JustifiedFrom
<1>3. LowerBounds(inst, plan', b, plan[b].robot, ready, source)
        = LowerBounds(inst, plan, b, plan[b].robot, ready, source)
  BY <1>1 DEF LowerBounds
<1>4. /\ DOMAIN Without(b) \subseteq DOMAIN Without(b)'
      /\ \A x \in DOMAIN Without(b) : Without(b)'[x] = Without(b)[x]
  BY <1>1 DEF Without
<1>5. Fits(inst, Without(b), b, u)
  BY <1>1, <1>2, <1>4, FitsShrinks
<1>6. QED  BY <1>3, <1>5 DEF JustifiedFrom

LEMMA StepJustified ==
  ASSUME IInv, Justified, NEW s \in Segments, Dispatch(s)
  PROVE  Justified'
<1> DEFINE r == assign[s]
<1>1. PICK t \in Nat : Put(s, t)
  BY DispatchPuts
<1>2. /\ inst' = inst /\ r \in Robots /\ s \notin DOMAIN plan
      /\ DOMAIN plan' = DOMAIN plan \cup {s}
      /\ \A x \in DOMAIN plan : plan'[x] = plan[x]
      /\ plan'[s].robot = r /\ plan'[s].index = count[r] /\ count[r] \in Nat
  BY <1>1, TreeFacts DEF Put
<1>3. \A x \in DOMAIN plan :
        /\ plan[x].index \in Nat
        /\ plan[x].robot = r => plan[x].index < count[r]
  BY TreeFacts, TreeTotals
<1>4. PICK ready, source : ready = lastEnd[r] /\ source = lastExit[r]
  OBVIOUS
<1>5. JustifiedFrom(s, ready, source)'
  <2>1. inst' = inst /\ plan'[s].robot = r /\ Deps(inst, s) \subseteq DOMAIN plan
    BY <1>1, <1>2 DEF Put
  <2>2. Without(s)' = plan
    <3>1. plan = [x \in DOMAIN plan |-> plan[x]]
      BY TreeFacts
    <3>2. Without(s)' = [x \in DOMAIN plan |-> plan[x]]
      BY <1>2 DEF Without
    <3>3. QED  BY <3>1, <3>2
  <2>3. LowerBounds(inst, plan', s, r, ready, source) = LowerBounds(inst, plan, s, r, ready, source)
    BY <1>2, <2>1 DEF LowerBounds
  <2>4. plan'[s].start \in Nat
    BY <1>1 DEF Put
  <2> SUFFICES ASSUME NEW u \in 0 .. plan'[s].start - 1,
                      \A d \in LowerBounds(inst, plan, s, r, ready, source) : d <= u,
                      Fits(inst, plan, s, u)
               PROVE  FALSE
    BY <2>1, <2>2, <2>3 DEF JustifiedFrom
  <2>5. u \in Nat /\ u < plan'[s].start
    BY <2>4
  <2>6. plan'[s].start <= u
    BY <1>4, <2>5, PlacedEarliest
  <2>7. QED  BY <2>4, <2>5, <2>6
<1>6. ASSUME NEW b \in DOMAIN plan', plan'[b].index = 0
      PROVE  JustifiedFrom(b, inst.on[plan[b].robot], inst.base[plan[b].robot])'
  <2>1. CASE b = s
    <3>1. ready = inst.on[r] /\ source = inst.base[r]
      BY <1>2, <1>4, <1>6, <2>1, TreeTotals
    <3>2. QED  BY <1>2, <1>5, <2>1, <3>1 DEF JustifiedFrom
  <2>2. CASE b \in DOMAIN plan
    <3>1. PICK re, so : re = inst.on[plan[b].robot] /\ so = inst.base[plan[b].robot]
      OBVIOUS
    <3>2. JustifiedFrom(b, re, so)
      BY <1>2, <1>6, <2>2, <3>1 DEF Justified
    <3>3. JustifiedFrom(b, re, so)'
      BY <1>1, <2>2, <3>2, StaysJustified
    <3>4. QED  BY <1>2, <2>2, <3>1, <3>3 DEF JustifiedFrom
  <2>3. QED  BY <1>2, <2>1, <2>2
<1>7. ASSUME NEW b \in DOMAIN plan', NEW a \in DOMAIN plan',
             plan'[a].robot = plan'[b].robot, plan'[a].index = plan'[b].index - 1
      PROVE  JustifiedFrom(b, plan[a].end, plan[a].exit)'
  <2>1. a # s
    <3> SUFFICES ASSUME a = s PROVE FALSE
      OBVIOUS
    <3>1. b # s
      BY <1>2, <1>7
    <3>2. b \in DOMAIN plan /\ plan[b].robot = r /\ count[r] = plan[b].index - 1
      BY <1>2, <1>7, <3>1
    <3>3. QED  BY <1>2, <1>3, <3>2
  <2>2. a \in DOMAIN plan
    BY <1>2, <2>1
  <2>3. CASE b = s
    <3>1. ready = plan[a].end /\ source = plan[a].exit
      BY <1>2, <1>4, <1>7, <2>2, <2>3, TreeTotals
    <3>2. QED  BY <1>2, <1>5, <2>2, <2>3, <3>1 DEF JustifiedFrom
  <2>4. CASE b \in DOMAIN plan
    <3>1. PICK re, so : re = plan[a].end /\ so = plan[a].exit
      OBVIOUS
    <3>2. JustifiedFrom(b, re, so)
      BY <1>2, <1>7, <2>2, <2>4, <3>1 DEF Justified
    <3>3. JustifiedFrom(b, re, so)'
      BY <1>1, <2>4, <3>2, StaysJustified
    <3>4. QED  BY <1>2, <2>2, <2>4, <3>1, <3>3 DEF JustifiedFrom
  <2>5. QED  BY <1>2, <2>3, <2>4
<1>8. QED  BY <1>6, <1>7 DEF Justified

\* An item that no item follows upon is the first of its robot: the item with
\* the index before its own would be followed by it.
LEMMA NobodyBefore ==
  ASSUME IInv, NEW b \in DOMAIN plan, \A a \in DOMAIN plan : ~ Follows(plan, a, b)
  PROVE  plan[b].index = 0
<1> SUFFICES ASSUME plan[b].index # 0 PROVE FALSE
  OBVIOUS
<1>1. PICK a \in DOMAIN plan :
        plan[a].robot = plan[b].robot /\ plan[a].index = plan[b].index - 1
  BY TreeTotals
<1>2. \A x \in DOMAIN plan : plan[x].index \in Nat
  BY TreeFacts
<1>3. OrderedBefore(plan, a, b)
  BY <1>1, <1>2, TreeOrder
<1>4. \A c \in DOMAIN plan : ~ (OrderedBefore(plan, a, c) /\ OrderedBefore(plan, c, b))
  <2> SUFFICES ASSUME NEW c \in DOMAIN plan, OrderedBefore(plan, a, c),
                      OrderedBefore(plan, c, b)
               PROVE  FALSE
    OBVIOUS
  <2>1. plan[a].index < plan[c].index /\ plan[c].index < plan[b].index
    BY TreeOrder
  <2>2. QED  BY <1>1, <1>2, <2>1
<1>5. QED  BY <1>3, <1>4 DEF Follows

\* Every partial schedule is left-justified, however much was placed after a
\* segment and on whatever robot.
THEOREM LeftJustifiedHolds == Spec => []LeftJustified
<1>1. Init => Justified
  BY DEF Init, EmptyPlan, Justified
<1>2. IInv /\ Justified /\ [Next]_vars => Justified'
  <2>1. CASE UNCHANGED vars
    BY <2>1 DEF vars, Justified, JustifiedFrom, Without
  <2>2. QED  BY <2>1, StepJustified DEF Next
<1>3. IInv /\ Justified => LeftJustified
  <2> SUFFICES ASSUME IInv, Justified, NEW b \in DOMAIN plan
               PROVE  LET r      == plan[b].robot
                          ready  == IF Earlier(b) = {} THEN inst.on[r]
                                    ELSE plan[CHOOSE a \in Earlier(b) : TRUE].end
                          source == IF Earlier(b) = {} THEN inst.base[r]
                                    ELSE plan[CHOOSE a \in Earlier(b) : TRUE].exit
                      IN  JustifiedFrom(b, ready, source)
    BY DEF LeftJustified, JustifiedFrom
  <2>1. CASE Earlier(b) # {}
    <3>1. PICK a \in Earlier(b) : a = CHOOSE x \in Earlier(b) : TRUE
      BY <2>1
    <3>2. a \in DOMAIN plan /\ Follows(plan, a, b)
      BY DEF Earlier
    <3>3. plan[a].robot = plan[b].robot /\ plan[a].index = plan[b].index - 1
      BY <3>2, TreeOrder
    <3>4. JustifiedFrom(b, plan[a].end, plan[a].exit)
      BY <3>2, <3>3 DEF Justified
    <3>5. QED  BY <2>1, <3>1, <3>4
  <2>2. CASE Earlier(b) = {}
    <3>1. plan[b].index = 0
      BY <2>2, NobodyBefore DEF Earlier
    <3>2. JustifiedFrom(b, inst.on[plan[b].robot], inst.base[plan[b].robot])
      BY <3>1 DEF Justified
    <3>3. QED  BY <2>2, <3>2
  <2>3. QED  BY <2>1, <2>2
<1>4. QED  BY <1>1, <1>2, <1>3, Invariance, PTL DEF Spec
-----------------------------------------------------------------------------
(***************************************************************************)
(* The branch search.  Its nodes are search states in the sense of         *)
(* AllocationLemmas, so what holds of the tree holds of them; on top of    *)
(* that, exact mode must not lose a plan.                                  *)
(***************************************************************************)

\* A finite non-empty set of naturals has a greatest member, which Max returns.
LEMMA FiniteGreatest ==
  ASSUME NEW S \in SUBSET Nat, IsFiniteSet(S), S # {}
  PROVE  Max(S) \in S /\ \A x \in S : x <= Max(S)
<1> DEFINE n == Cardinality(S)
<1>1. n \in Nat /\ n # 0
  BY FS_CardinalityType, FS_EmptySet
<1>2. \A k \in 1 .. n : \E x \in S : Cardinality(Smaller(S, x)) = k - 1
  BY Places
<1>3. n \in 1 .. n
  BY <1>1
<1>4. PICK top \in S : Cardinality(Smaller(S, top)) = n - 1
  BY <1>2, <1>3
<1>5. \A x \in S : x <= top
  <2> SUFFICES ASSUME NEW x \in S, top < x PROVE FALSE
    OBVIOUS
  <2>1. Cardinality(Smaller(S, x)) \in 0 .. n - 1
    BY Places
  <2>2. n - 1 < Cardinality(Smaller(S, x))
    BY <1>4, SmallerCount
  <2> HIDE DEF n
  <2>3. QED  BY <1>1, <2>1, <2>2
<1>6. QED  BY <1>5 DEF Max
-----------------------------------------------------------------------------
(* Branches are the segments whose child survives.                         *)

LEMMA BranchesAreLive ==
  ASSUME NEW n
  PROVE  /\ \E m \in Nat : DOMAIN Branches(n) = 1 .. m
         /\ \A k \in DOMAIN Branches(n) :
              Branches(n)[k] \in Segments /\ Survives(n, Branches(n)[k])
         /\ \A s \in Segments : Survives(n, s) =>
              \E k \in DOMAIN Branches(n) : Branches(n)[k] = s
<1> DEFINE live == {s \in Segments : Survives(n, s)}
           place(s) == Cardinality({x \in live : x < s})
<1>1. live \in SUBSET Nat /\ IsFiniteSet(live)
  BY SegmentsAssumption, FS_Subset
<1>2. /\ Cardinality(live) \in Nat
      /\ \A x \in live : place(x) \in 0 .. Cardinality(live) - 1
      /\ \A x, y \in live : place(x) = place(y) => x = y
      /\ \A k \in 1 .. Cardinality(live) : \E x \in live : place(x) = k - 1
  BY <1>1, Places DEF Smaller
<1>3. Branches(n) = [k \in 1 .. Cardinality(live) |-> CHOOSE s \in live : place(s) = k - 1]
  BY DEF Branches
<1>4. \A s \in live : s \in Segments /\ Survives(n, s)
  OBVIOUS
<1>5. \A s \in Segments : Survives(n, s) => s \in live
  OBVIOUS
<1> HIDE DEF place, live
<1>6. DOMAIN Branches(n) = 1 .. Cardinality(live)
  BY <1>3
<1>7. ASSUME NEW k \in 1 .. Cardinality(live)
      PROVE  Branches(n)[k] \in live /\ place(Branches(n)[k]) = k - 1
  <2>1. \E x \in live : place(x) = k - 1
    BY <1>2
  <2>2. QED  BY <2>1, <1>3
<1>8. ASSUME NEW s \in live
      PROVE  \E k \in 1 .. Cardinality(live) : Branches(n)[k] = s
  <2>1. place(s) \in 0 .. Cardinality(live) - 1
    BY <1>2
  <2>2. PICK k \in 1 .. Cardinality(live) : k - 1 = place(s)
    <3>1. place(s) + 1 \in 1 .. Cardinality(live) /\ (place(s) + 1) - 1 = place(s)
      BY <2>1, <1>2
    <3>2. QED  BY <3>1
  <2>3. Branches(n)[k] \in live /\ place(Branches(n)[k]) = place(s)
    BY <1>7, <2>2
  <2>4. Branches(n)[k] = s
    BY <2>3, <1>2
  <2>5. QED  BY <2>4
<1>9. QED  BY <1>2, <1>4, <1>5, <1>6, <1>7, <1>8
-----------------------------------------------------------------------------
(* The nodes of the search are search states in the sense of               *)
(* AllocationLemmas, with the totals the code recomputes from the plan.    *)

NodeOf(n) ==
  [plan |-> n, lastEnd |-> [r \in Robots |-> LastEnd(n, r)],
   lastExit |-> [r \in Robots |-> LastExit(n, r)],
   count |-> [r \in Robots |-> Cardinality(On(n, r))]]

Reached(n) == Sound(instance, assignment, NodeOf(n))

LEMMA NodeOfFields ==
  ASSUME NEW n
  PROVE  /\ NodeOf(n).plan = n
         /\ \A r \in Robots :
              /\ NodeOf(n).lastEnd[r] = LastEnd(n, r)
              /\ NodeOf(n).lastExit[r] = LastExit(n, r)
              /\ NodeOf(n).count[r] = Cardinality(On(n, r))
BY DEF NodeOf

LEMMA RootReached ==
  ASSUME instance \in Instances, assignment \in [Segments -> Robots]
  PROVE  Reached(EmptyPlan)
<1>1. \A r \in Robots : On(EmptyPlan, r) = {}
  BY DEF On, EmptyPlan
<1>2. instance.on \in [Robots -> Nat] /\ instance.base \in [Robots -> Points]
  BY InstanceTypes
<1> DEFINE N == NodeOf(EmptyPlan)
<1>3. N.plan = EmptyPlan
  BY NodeOfFields
<1>4. N.lastEnd = instance.on /\ N.lastExit = instance.base
  BY <1>1, <1>2 DEF NodeOf, LastEnd, LastExit
<1>5. N.count = [r \in Robots |-> 0]
  BY <1>1, FS_EmptySet DEF NodeOf
<1> HIDE DEF N
<1>6. Sound(instance, assignment, N)
  BY <1>3, <1>4, <1>5, StartSound
<1>7. QED  BY <1>6 DEF N, Reached

\* What a reached node knows of its items and totals.
LEMMA ReachedFacts ==
  ASSUME NEW n, Reached(n)
  PROVE  /\ instance \in Instances /\ assignment \in [Segments -> Robots]
         /\ DOMAIN n \subseteq Segments /\ IsFiniteSet(DOMAIN n)
         /\ n \in [DOMAIN n -> ItemType]
         /\ \A x \in DOMAIN n :
              /\ n[x].robot = assignment[x] /\ n[x].robot \in Robots
              /\ n[x].index \in Nat /\ n[x].start \in Nat /\ n[x].end \in Nat
              /\ n[x].exit \in Points
              /\ n[x].end = n[x].start + instance.dur[x]
              /\ n[x].index < Cardinality(On(n, n[x].robot))
         /\ \A r \in Robots :
              /\ LastEnd(n, r) \in Nat /\ LastExit(n, r) \in Points
              /\ Cardinality(On(n, r)) \in Nat
         /\ Spanned(n)
<1>1. Typed(instance, assignment, NodeOf(n)) /\ instance \in Instances
      /\ ItemsSound(instance, assignment, NodeOf(n)) /\ IndicesSound(NodeOf(n))
  BY DEF Reached, Sound
<1>2. /\ assignment \in [Segments -> Robots] /\ DOMAIN n \subseteq Segments
      /\ n \in [DOMAIN n -> ItemType]
      /\ \A r \in Robots : /\ LastEnd(n, r) \in Nat /\ LastExit(n, r) \in Points
                           /\ Cardinality(On(n, r)) \in Nat
  BY <1>1, NodeOfFields DEF Typed
<1>3. \A x \in DOMAIN n : n[x].robot = assignment[x] /\ n[x].end = n[x].start + instance.dur[x]
  BY <1>1, NodeOfFields DEF ItemsSound
<1>4. \A x \in DOMAIN n : n[x].index < NodeOf(n).count[n[x].robot]
  BY <1>1, NodeOfFields DEF IndicesSound
<1>5. \A x \in DOMAIN n :
        /\ n[x].robot \in Robots /\ n[x].index \in Nat /\ n[x].start \in Nat
        /\ n[x].end \in Nat /\ n[x].exit \in Points
  BY <1>2 DEF ItemType
<1>6. \A x \in DOMAIN n : n[x].index < Cardinality(On(n, n[x].robot))
  BY <1>4, <1>5, NodeOfFields
<1>7. IsFiniteSet(DOMAIN n)
  BY <1>2, SegmentsAssumption, FS_Subset
<1>8. Spanned(n)
  BY <1>2, <1>5 DEF Spanned
<1>9. QED  BY <1>1, <1>2, <1>3, <1>5, <1>6, <1>7, <1>8

\* The last item of a robot is the only one with the greatest index.
LEMMA LatestIs ==
  ASSUME NEW n, Reached(n), NEW r \in Robots, On(n, r) # {}
  PROVE  /\ Latest(n, r) \in On(n, r)
         /\ n[Latest(n, r)].index = Cardinality(On(n, r)) - 1
         /\ \A x \in On(n, r) : n[x].index = Cardinality(On(n, r)) - 1 => x = Latest(n, r)
<1>1. TotalsSound(instance, NodeOf(n)) /\ IndicesSound(NodeOf(n))
  BY DEF Reached, Sound
<1>2. Cardinality(On(n, r)) # 0
  <2>1. IsFiniteSet(On(n, r))
    BY ReachedFacts, FS_Subset DEF On
  <2>2. QED  BY <2>1, FS_EmptySet
<1>3. \E x \in DOMAIN n : n[x].robot = r /\ n[x].index = Cardinality(On(n, r)) - 1
  BY <1>1, <1>2, NodeOfFields DEF TotalsSound
<1>4. \E x \in On(n, r) : n[x].index = Cardinality(On(n, r)) - 1
  BY <1>3 DEF On
<1>5. Latest(n, r) \in On(n, r) /\ n[Latest(n, r)].index = Cardinality(On(n, r)) - 1
  BY <1>4 DEF Latest
<1>6. \A x, y \in DOMAIN n : n[x].robot = n[y].robot /\ n[x].index = n[y].index => x = y
  BY <1>1, NodeOfFields DEF IndicesSound
<1>7. QED  BY <1>5, <1>6 DEF On

\* The code's loop for the earliest start ends: at the latest when every item
\* placed so far has ended, there is room.
LEMMA StartExists ==
  ASSUME NEW n, Reached(n), NEW s \in Segments, Ready(instance, n, s),
         NEW r, r = assignment[s]
  PROVE  /\ StartOf(n, s) \in StartChoices(instance, n, s, r, LastEnd(n, r), LastExit(n, r))
         /\ EarliestOn(instance, n, s, r, LastEnd(n, r), LastExit(n, r), StartOf(n, s))
<1> DEFINE LB == LowerBounds(instance, n, s, r, LastEnd(n, r), LastExit(n, r))
           ends == {n[x].end : x \in DOMAIN n}
<1>1. /\ instance \in Instances /\ r \in Robots /\ Spanned(n) /\ IsFiniteSet(DOMAIN n)
      /\ LastEnd(n, r) \in Nat /\ LastExit(n, r) \in Points
      /\ \A x \in DOMAIN n : /\ n[x].start \in Nat /\ n[x].end \in Nat
                             /\ n[x].end = n[x].start + instance.dur[x]
      /\ Deps(instance, s) \subseteq DOMAIN n /\ DOMAIN n \subseteq Segments
  BY ReachedFacts DEF Ready
<1>2. LB \in SUBSET Nat /\ LB # {}
  BY <1>1, NaturalBounds
<1>3. IsFiniteSet(ends)
  <2> DEFINE f == [x \in DOMAIN n |-> n[x].end]
  <2>1. IsFiniteSet({f[x] : x \in DOMAIN f})
    BY <1>1, FiniteImage
  <2>2. ends = {f[x] : x \in DOMAIN f}
    OBVIOUS
  <2>3. QED  BY <2>1, <2>2
<1>4. IsFiniteSet(LB)
  <2> DEFINE frees == {instance.free[q] : q \in instance.uses[s]}
             deps == {n[x].end : x \in Deps(instance, s)}
             a == instance.opens[s]
             b == instance.on[r]
             c == LastEnd(n, r) + Approach(instance, r, s, LastExit(n, r))
  <2>1. IsFiniteSet(frees)
    <3> DEFINE f == [q \in instance.uses[s] |-> instance.free[q]]
    <3>1. IsFiniteSet(instance.uses[s])
      BY <1>1, InstanceTypes, ResourcesAssumption, FS_Subset
    <3>2. IsFiniteSet({f[x] : x \in DOMAIN f})
      BY <3>1, FiniteImage
    <3>3. frees = {f[x] : x \in DOMAIN f}
      OBVIOUS
    <3>4. QED  BY <3>2, <3>3
  <2>2. IsFiniteSet(deps)
    <3>1. deps \subseteq ends
      BY <1>1
    <3>2. QED  BY <3>1, <1>3, FS_Subset
  <2>3. LB = {a, b, c} \cup deps \cup frees
    BY DEF LowerBounds
  <2> HIDE DEF frees, deps, a, b, c, LB
  <2>4. IsFiniteSet(frees \cup deps)
    BY <2>1, <2>2, FS_Union
  <2>5. IsFiniteSet((frees \cup deps) \cup {a})
    BY <2>4, FS_AddElement
  <2>6. IsFiniteSet(((frees \cup deps) \cup {a}) \cup {b})
    BY <2>5, FS_AddElement
  <2>7. IsFiniteSet((((frees \cup deps) \cup {a}) \cup {b}) \cup {c})
    BY <2>6, FS_AddElement
  <2>8. LB = (((frees \cup deps) \cup {a}) \cup {b}) \cup {c}
    BY <2>3
  <2>9. QED  BY <2>7, <2>8
<1> DEFINE m == Max(LB \cup ends)
<1>5. m \in Nat /\ \A x \in LB \cup ends : x <= m
  <2>1. LB \cup ends \in SUBSET Nat /\ LB \cup ends # {}
    BY <1>1, <1>2
  <2>2. IsFiniteSet(LB \cup ends)
    BY <1>3, <1>4, FS_Union
  <2> HIDE DEF LB, ends
  <2>3. m \in LB \cup ends /\ \A x \in LB \cup ends : x <= m
    BY <2>1, <2>2, FiniteGreatest
  <2>4. QED  BY <2>1, <2>3
<1> HIDE DEF m
<1>6. Fits(instance, n, s, m)
  <2> SUFFICES ASSUME NEW q \in instance.uses[s],
                      NEW u \in EventTimes(instance, n, q, m, instance.dur[s])
               PROVE  ~ (Cardinality(ActiveAt(instance, n, q, u)) + 1 > instance.cap[q])
    BY DEF Fits, Overloaded
  <2>1. \A x \in DOMAIN n : n[x].end <= m /\ n[x].start <= m
    <3> SUFFICES ASSUME NEW x \in DOMAIN n PROVE n[x].end <= m /\ n[x].start <= m
      OBVIOUS
    <3>1. n[x].end <= m
      BY <1>5
    <3>2. n[x].end = n[x].start + instance.dur[x] /\ instance.dur[x] \in Nat
      BY <1>1, InstanceTypes
    <3>3. QED  BY <3>1, <3>2, <1>1, <1>5
  <2>2. u \in Nat /\ m <= u
    BY <1>1, <1>5 DEF EventTimes, Holders
  <2>3. ActiveAt(instance, n, q, u) = {}
    BY <1>1, <1>5, <2>1, <2>2 DEF ActiveAt, Holders
  <2>4. instance.cap[q] \in Nat /\ instance.cap[q] >= 1
    <3>1. instance \in InstanceType /\ ValidInstance(instance)
      BY <1>1, InstancesAssumption
    <3>2. q \in Resources
      BY <1>1, InstanceTypes
    <3>3. QED  BY <3>1, <3>2 DEF InstanceType, ValidInstance
  <2>5. QED  BY <2>3, <2>4, FS_EmptySet
<1>7. \A x \in LB : x <= m
  BY <1>5
<1> HIDE DEF LB
<1>8. \E t \in LB \cup {n[x].end : x \in DOMAIN n} : IsEarliest(instance, n, s, LB, t)
  BY <1>1, <1>2, <1>5, <1>6, <1>7, EarliestExists
<1>9. \E t \in StartChoices(instance, n, s, r, LastEnd(n, r), LastExit(n, r)) :
        EarliestOn(instance, n, s, r, LastEnd(n, r), LastExit(n, r), t)
  BY <1>8 DEF LB, StartChoices, EarliestOn
<1>10. QED  BY <1>9 DEF StartOf

\* What a child adds to its parent.
LEMMA ChildItems ==
  ASSUME NEW n, NEW s \in Segments, s \notin DOMAIN n
  PROVE  LET c == Child(n, s)
             r == assignment[s]
         IN  /\ DOMAIN c = DOMAIN n \cup {s}
             /\ \A x \in DOMAIN n : c[x] = n[x]
             /\ c[s] = Item(instance, s, r, Cardinality(On(n, r)), StartOf(n, s), LastExit(n, r))
BY DEF Child, Extend

\* The totals of a child are those a dispatch leaves behind.
LEMMA ChildTotals ==
  ASSUME NEW n, Reached(n), NEW s \in Segments, s \notin DOMAIN n, NEW r, r = assignment[s],
         NEW c, c = Child(n, s), NEW t, t = StartOf(n, s)
  PROVE  /\ NodeOf(c).count = [NodeOf(n).count EXCEPT ![r] = @ + 1]
         /\ NodeOf(c).lastEnd = [NodeOf(n).lastEnd EXCEPT ![r] = t + instance.dur[s]]
         /\ NodeOf(c).lastExit =
              [NodeOf(n).lastExit EXCEPT ![r] = ExitPoint(instance, s, LastExit(n, r))]
<1>1. /\ DOMAIN c = DOMAIN n \cup {s} /\ \A x \in DOMAIN n : c[x] = n[x]
      /\ c[s].robot = r /\ c[s].index = Cardinality(On(n, r))
      /\ c[s].end = t + instance.dur[s]
      /\ c[s].exit = ExitPoint(instance, s, LastExit(n, r))
  <2>1. /\ DOMAIN c = DOMAIN n \cup {s} /\ \A x \in DOMAIN n : c[x] = n[x]
        /\ c[s] = Item(instance, s, r, Cardinality(On(n, r)), t, LastExit(n, r))
    BY ChildItems
  <2>2. QED  BY <2>1 DEF Item
<1>2. /\ r \in Robots /\ IsFiniteSet(DOMAIN n)
      /\ \A v \in Robots : Cardinality(On(n, v)) \in Nat
      /\ \A x \in DOMAIN n : n[x].index \in Nat /\ n[x].index < Cardinality(On(n, n[x].robot))
  BY ReachedFacts
<1>3. On(c, r) = On(n, r) \cup {s} /\ s \notin On(n, r)
      /\ \A v \in Robots : v # r => On(c, v) = On(n, v)
  BY <1>1 DEF On
<1>4. Cardinality(On(c, r)) = Cardinality(On(n, r)) + 1
  <2>1. IsFiniteSet(On(n, r))
    BY <1>2, FS_Subset DEF On
  <2>2. QED  BY <2>1, <1>3, FS_AddElement
<1>5. Latest(c, r) = s
  <2>1. s \in On(c, r) /\ c[s].index = Cardinality(On(c, r)) - 1
    BY <1>1, <1>2, <1>3, <1>4
  <2>2. ASSUME NEW x \in On(c, r), c[x].index = Cardinality(On(c, r)) - 1
        PROVE  x = s
    <3> SUFFICES ASSUME x # s PROVE FALSE
      OBVIOUS
    <3>1. x \in DOMAIN n /\ n[x].robot = r /\ c[x] = n[x]
      BY <1>1, <1>3 DEF On
    <3>2. n[x].index = Cardinality(On(n, r)) /\ n[x].index < Cardinality(On(n, r))
      BY <3>1, <1>2, <1>4, <2>2
    <3>3. QED  BY <3>2, <1>2
  <2>3. QED  BY <2>1, <2>2 DEF Latest
<1>6. LastEnd(c, r) = t + instance.dur[s]
      /\ LastExit(c, r) = ExitPoint(instance, s, LastExit(n, r))
  <2>1. On(c, r) # {}
    BY <1>3
  <2>2. QED  BY <2>1, <1>1, <1>5 DEF LastEnd, LastExit
<1>7. ASSUME NEW v \in Robots, v # r
      PROVE  /\ Cardinality(On(c, v)) = Cardinality(On(n, v))
             /\ LastEnd(c, v) = LastEnd(n, v) /\ LastExit(c, v) = LastExit(n, v)
  <2>1. On(c, v) = On(n, v)
    BY <1>3, <1>7
  <2>2. CASE On(n, v) = {}
    BY <2>1, <2>2 DEF LastEnd, LastExit
  <2>3. CASE On(n, v) # {}
    <3> DEFINE l == Latest(n, v)
    <3>1. /\ l \in On(n, v) /\ n[l].index = Cardinality(On(n, v)) - 1
          /\ \A x \in On(n, v) : n[x].index = Cardinality(On(n, v)) - 1 => x = l
      BY <2>3, LatestIs
    <3>2. \A x \in On(n, v) : c[x] = n[x]
      BY <1>1 DEF On
    <3> HIDE DEF l
    <3>3. Latest(c, v) = l
      BY <2>1, <3>1, <3>2 DEF Latest
    <3>4. c[l] = n[l]
      BY <3>1, <3>2
    <3>5. QED  BY <2>1, <2>3, <3>3, <3>4 DEF LastEnd, LastExit, l
  <2>4. QED  BY <2>1, <2>2, <2>3
<1>8. QED
  BY <1>2, <1>4, <1>6, <1>7 DEF NodeOf

\* A surviving child is reached as well.
LEMMA ChildReached ==
  ASSUME NEW n, Reached(n), NEW s \in Segments, Survives(n, s)
  PROVE  Reached(Child(n, s))
<1> DEFINE r == assignment[s]
           c == Child(n, s)
           t == StartOf(n, s)
           N == NodeOf(n)
           M == NodeOf(c)
<1>1. Ready(instance, n, s) /\ InTime(instance, s, r, t + instance.dur[s])
  BY DEF Survives
<1>2. s \notin DOMAIN n /\ r \in Robots
  BY <1>1, ReachedFacts DEF Ready
<1>3. /\ t \in StartChoices(instance, n, s, r, LastEnd(n, r), LastExit(n, r))
      /\ EarliestOn(instance, n, s, r, LastEnd(n, r), LastExit(n, r), t)
  BY <1>1, StartExists
<1>4. /\ N.plan = n /\ M.plan = c /\ N.lastEnd[r] = LastEnd(n, r)
      /\ N.lastExit[r] = LastExit(n, r) /\ N.count[r] = Cardinality(On(n, r))
  BY <1>2, NodeOfFields
<1>5. c = Extend(n, s, Item(instance, s, r, Cardinality(On(n, r)), t, LastExit(n, r)))
  BY DEF Child
<1>6. /\ M.count = [N.count EXCEPT ![r] = @ + 1]
      /\ M.lastEnd = [N.lastEnd EXCEPT ![r] = t + instance.dur[s]]
      /\ M.lastExit = [N.lastExit EXCEPT ![r] = ExitPoint(instance, s, LastExit(n, r))]
  BY <1>2, ChildTotals
<1>7. Sound(instance, assignment, N)
  BY DEF Reached
<1> HIDE DEF N, M, c, t, r
<1>8. t \in Nat /\ Placed(instance, assignment, N, s, t, M)
  BY <1>1, <1>3, <1>4, <1>5, <1>6, <1>7, DispatchPlaces DEF r
<1>9. Sound(instance, assignment, M)
  BY <1>7, <1>8, StepSound
<1>10. QED  BY <1>9 DEF M, c, Reached
-----------------------------------------------------------------------------
(* The lists of the search.                                                *)

\* The partial schedules a list may hold.
Nodes == UNION {[D -> ItemType] : D \in SUBSET Segments}

LEMMA ReachedIsNode == ASSUME NEW n, Reached(n) PROVE n \in Nodes
BY ReachedFacts DEF Nodes

LEMMA RootIsNode == EmptyPlan \in Nodes
<1>1. EmptyPlan \in [{} -> ItemType]
  BY DEF EmptyPlan
<1>2. QED  BY <1>1 DEF Nodes

\* The parts of a list are among its members.
LEMMA Lists ==
  /\ \A n \in Nodes : <<n>> \in Seq(Nodes) /\ Range(<<n>>) = {n}
  /\ <<>> \in Seq(Nodes) /\ Range(<<>>) = {}
  /\ \A l \in Seq(Nodes) : l # <<>> =>
       /\ l[1] \in Range(l) /\ Tail(l) \in Seq(Nodes)
       /\ Range(l) = {l[1]} \cup Range(Tail(l))
  /\ \A l, m \in Seq(Nodes) : l \o m \in Seq(Nodes) /\ Range(l \o m) = Range(l) \cup Range(m)
<1>1. \A n \in Nodes : <<n>> \in Seq(Nodes) /\ Range(<<n>>) = {n}
  BY DEF Range
<1>2. <<>> \in Seq(Nodes) /\ Range(<<>>) = {}
  BY DEF Range
<1>3. ASSUME NEW l \in Seq(Nodes), l # <<>>
      PROVE  /\ l[1] \in Range(l) /\ Tail(l) \in Seq(Nodes)
             /\ Range(l) = {l[1]} \cup Range(Tail(l))
  <2>1. Len(l) \in Nat /\ Len(l) # 0 /\ DOMAIN l = 1 .. Len(l)
    BY <1>3
  <2>2. /\ Tail(l) \in Seq(Nodes) /\ Len(Tail(l)) = Len(l) - 1
        /\ DOMAIN Tail(l) = 1 .. Len(l) - 1
        /\ \A k \in 1 .. Len(l) - 1 : Tail(l)[k] = l[k + 1]
    BY <1>3, <2>1
  <2>3. l[1] \in Range(l)
    BY <2>1 DEF Range
  <2>4. \A k \in 1 .. Len(l) : k = 1 \/ (k - 1 \in 1 .. Len(l) - 1 /\ l[k] = Tail(l)[k - 1])
    BY <2>1, <2>2
  <2>5. \A k \in 1 .. Len(l) - 1 : k + 1 \in 1 .. Len(l)
    BY <2>1
  <2>6. Range(l) \subseteq {l[1]} \cup Range(Tail(l))
    <3> SUFFICES ASSUME NEW k \in 1 .. Len(l) PROVE l[k] \in {l[1]} \cup Range(Tail(l))
      BY <2>1 DEF Range
    <3>1. k = 1 \/ (k - 1 \in DOMAIN Tail(l) /\ l[k] = Tail(l)[k - 1])
      BY <2>2, <2>4
    <3>2. QED  BY <3>1 DEF Range
  <2>7. Range(Tail(l)) \subseteq Range(l)
    BY <2>1, <2>2, <2>5 DEF Range
  <2>8. QED  BY <2>2, <2>3, <2>6, <2>7
<1>4. ASSUME NEW l \in Seq(Nodes), NEW m \in Seq(Nodes)
      PROVE  l \o m \in Seq(Nodes) /\ Range(l \o m) = Range(l) \cup Range(m)
  <2>1. /\ l \o m \in Seq(Nodes) /\ DOMAIN (l \o m) = 1 .. Len(l) + Len(m)
        /\ Len(l) \in Nat /\ Len(m) \in Nat
        /\ DOMAIN l = 1 .. Len(l) /\ DOMAIN m = 1 .. Len(m)
        /\ \A k \in 1 .. Len(l) + Len(m) :
             (l \o m)[k] = IF k <= Len(l) THEN l[k] ELSE m[k - Len(l)]
    OBVIOUS
  <2>2. \A k \in 1 .. Len(l) : k \in 1 .. Len(l) + Len(m) /\ (l \o m)[k] = l[k]
    BY <2>1
  <2>3. \A k \in 1 .. Len(m) :
          Len(l) + k \in 1 .. Len(l) + Len(m) /\ (l \o m)[Len(l) + k] = m[k]
    BY <2>1
  <2>4. \A k \in 1 .. Len(l) + Len(m) :
          \/ k \in 1 .. Len(l) /\ (l \o m)[k] = l[k]
          \/ k - Len(l) \in 1 .. Len(m) /\ (l \o m)[k] = m[k - Len(l)]
    BY <2>1
  <2>5. Range(l) \subseteq Range(l \o m)
    BY <2>1, <2>2 DEF Range
  <2>6. Range(m) \subseteq Range(l \o m)
    <3> SUFFICES ASSUME NEW k \in 1 .. Len(m) PROVE m[k] \in Range(l \o m)
      BY <2>1 DEF Range
    <3>1. Len(l) + k \in DOMAIN (l \o m) /\ (l \o m)[Len(l) + k] = m[k]
      BY <2>1, <2>3
    <3>2. QED  BY <3>1 DEF Range
  <2>7. Range(l \o m) \subseteq Range(l) \cup Range(m)
    BY <2>1, <2>4 DEF Range
  <2>8. QED  BY <2>1, <2>5, <2>6, <2>7
<1>5. QED  BY <1>1, <1>2, <1>3, <1>4

\* The children of a reached node are its surviving ones, all of them.
LEMMA ChildrenReached ==
  ASSUME NEW n, Reached(n)
  PROVE  /\ Children(n) \in Seq(Nodes)
         /\ \A c \in Range(Children(n)) : Reached(c)
         /\ \A s \in Segments : Survives(n, s) => Child(n, s) \in Range(Children(n))
<1> DEFINE b == Branches(n)
<1>1. PICK m \in Nat : DOMAIN b = 1 .. m
  BY BranchesAreLive
<1>2. /\ \A k \in DOMAIN b : b[k] \in Segments /\ Survives(n, b[k])
      /\ \A s \in Segments : Survives(n, s) => \E k \in DOMAIN b : b[k] = s
  BY BranchesAreLive
<1>3. Children(n) = [k \in DOMAIN b |-> Child(n, b[k])]
  BY DEF Children
<1> HIDE DEF b
<1>4. \A k \in DOMAIN b : Reached(Child(n, b[k]))
  BY <1>2, ChildReached
<1>5. \A k \in DOMAIN b : Child(n, b[k]) \in Nodes
  BY <1>4, ReachedIsNode
<1>6. Children(n) \in [1 .. m -> Nodes]
  BY <1>1, <1>3, <1>5
<1>7. Children(n) \in Seq(Nodes)
  BY <1>6
<1>8. \A c \in Range(Children(n)) : Reached(c)
  BY <1>3, <1>4 DEF Range
<1>9. \A s \in Segments : Survives(n, s) => Child(n, s) \in Range(Children(n))
  BY <1>2, <1>3 DEF Range
<1>10. QED  BY <1>7, <1>8, <1>9

\* Cutting the list of children short drops some of them and adds none.
LEMMA KeptReached ==
  ASSUME NEW l \in Seq(Nodes), NEW limit \in Int, NEW made \in Nat,
         NEW kept, kept = SubSeq(l, 1, Min({Len(l), limit - made})), made < limit
  PROVE  kept \in Seq(Nodes) /\ Range(kept) \subseteq Range(l) /\ Len(kept) \in Nat
<1> DEFINE m == Min({Len(l), limit - made})
<1>1. m \in Nat /\ m <= Len(l)
  <2>1. Len(l) \in Nat /\ limit - made \in Nat
    OBVIOUS
  <2>2. \E x \in {Len(l), limit - made} : \A y \in {Len(l), limit - made} : x <= y
    BY <2>1
  <2>3. m \in {Len(l), limit - made} /\ \A y \in {Len(l), limit - made} : m <= y
    BY <2>2 DEF Min
  <2>4. QED  BY <2>1, <2>3
<1> HIDE DEF m
<1>2. /\ kept = SubSeq(l, 1, m) /\ kept \in Seq(Nodes) /\ Len(kept) = m
      /\ \A k \in 1 .. m : kept[k] = l[k] /\ k \in 1 .. Len(l)
  <2>1. kept = SubSeq(l, 1, m)
    BY DEF m
  <2>2. \A k \in 1 .. m : l[k] \in Nodes /\ k \in 1 .. Len(l)
    BY <1>1
  <2>3. 1 \in Int /\ m \in Int /\ m - 1 + 1 = m
    BY <1>1
  <2>4. /\ SubSeq(l, 1, m) \in Seq(Nodes)
        /\ Len(SubSeq(l, 1, m)) = IF 1 <= m THEN m - 1 + 1 ELSE 0
        /\ \A k \in 1 .. m - 1 + 1 : SubSeq(l, 1, m)[k] = l[1 + k - 1]
    BY <2>2, <2>3, SubSeqProperties
  <2>5. /\ kept \in Seq(Nodes)
        /\ Len(kept) = IF 1 <= m THEN m - 1 + 1 ELSE 0
        /\ \A k \in 1 .. m - 1 + 1 : kept[k] = l[1 + k - 1]
    BY <2>1, <2>4
  <2>6. Len(kept) = m
    BY <1>1, <2>5
  <2>7. \A k \in 1 .. m : kept[k] = l[k]
    <3> SUFFICES ASSUME NEW k \in 1 .. m PROVE kept[k] = l[k]
      OBVIOUS
    <3>1. k \in 1 .. m - 1 + 1 /\ 1 + k - 1 = k
      BY <1>1
    <3>2. kept[k] = l[1 + k - 1]
      BY <2>5, <3>1
    <3>3. QED  BY <3>1, <3>2
  <2>8. QED  BY <2>1, <2>2, <2>5, <2>6, <2>7
<1>3. DOMAIN kept = 1 .. m /\ DOMAIN l = 1 .. Len(l)
  BY <1>1, <1>2
<1>4. Range(kept) \subseteq Range(l)
  BY <1>2, <1>3 DEF Range
<1>5. QED  BY <1>1, <1>2, <1>4
-----------------------------------------------------------------------------
(* Every node of the search is reached, and so is the plan it returns.     *)

Statuses == {"new", "invalid_assignment", "search", "collect", "infeasible", "limit",
             "optimal", "feasible_limit"}

ListsTyped ==
  /\ instance \in Instances /\ search \in Searches /\ assignment \in AssignmentChoices
  /\ frontier \in Seq(Nodes) /\ queue \in Seq(Nodes) /\ candidates \in Seq(Nodes)
  /\ seen \subseteq Nodes /\ nodes \in Nat /\ cut \in BOOLEAN /\ status \in Statuses

\* Nothing has been done before the arguments are checked.
Fresh ==
  /\ status = "new" =>
       /\ frontier = <<EmptyPlan>> /\ queue = <<>> /\ candidates = <<>> /\ seen = {}
       /\ cut = FALSE /\ best = EmptyPlan
  /\ status \notin {"new", "invalid_assignment"} => Accepted

AllReached ==
  Accepted => \A n \in Range(frontier) \cup Range(queue) \cup Range(candidates) \cup seen :
                Reached(n)

BestReached == best = EmptyPlan \/ (Accepted /\ Complete(best) /\ Reached(best))

SearchSound == ListsTyped /\ Fresh /\ AllReached /\ BestReached

LEMMA AcceptedTypes ==
  ASSUME assignment \in AssignmentChoices, Accepted
  PROVE  assignment \in [Segments -> Robots]
<1>1. assignment = [s \in DOMAIN assignment |-> assignment[s]]
  BY AssignmentsAssumption
<1>2. QED  BY <1>1 DEF Accepted

LEMMA InitSound == SearchInit => SearchSound
<1> SUFFICES ASSUME SearchInit PROVE SearchSound
  OBVIOUS
<1>1. ListsTyped
  BY Lists, RootIsNode DEF SearchInit, ListsTyped, Statuses
<1>2. Fresh /\ BestReached
  BY DEF SearchInit, Fresh, BestReached
<1>3. AllReached
  <2> SUFFICES ASSUME Accepted PROVE \A n \in {EmptyPlan} : Reached(n)
    BY Lists, RootIsNode DEF SearchInit, AllReached
  <2>1. QED  BY RootReached, AcceptedTypes DEF SearchInit
<1>4. QED  BY <1>1, <1>2, <1>3 DEF SearchSound

\* Only the check of the arguments and the end of the search change the status.
LEMMA StepArguments ==
  ASSUME SearchSound, [SearchNext]_searchVars
  PROVE  /\ UNCHANGED args /\ (Accepted' <=> Accepted)
         /\ \A n : Reached(n)' <=> Reached(n)
<1>1. UNCHANGED args
  BY DEF SearchNext, searchVars, args, Reject, Start, ExactStop, Skip, Leaf, Grow, Pop, Exhaust,
         BeamExpand, BeamStop, BeamDry, BeamKeep, BeamCollect, Conclude
<1>2. Accepted' <=> Accepted
  BY <1>1 DEF args, Accepted
<1>3. \A n : Reached(n)' <=> Reached(n)
  BY <1>1 DEF args, Reached, NodeOf, LastEnd, LastExit
<1>4. QED  BY <1>1, <1>2, <1>3

\* The children of the node that is expanded.
LEMMA Expanded ==
  ASSUME SearchSound, Accepted, NEW n \in Range(frontier) \cup Range(queue)
  PROVE  /\ Reached(n) /\ Children(n) \in Seq(Nodes)
         /\ \A c \in Range(Children(n)) : Reached(c)
         /\ \A s \in Segments : Survives(n, s) => Child(n, s) \in Range(Children(n))
<1>1. Reached(n)
  BY DEF SearchSound, AllReached
<1>2. QED  BY <1>1, ChildrenReached

LEMMA StepSearchSound == SearchSound /\ [SearchNext]_searchVars => SearchSound'
<1> SUFFICES ASSUME SearchSound, [SearchNext]_searchVars PROVE SearchSound'
  OBVIOUS
<1>1. /\ UNCHANGED args /\ (Accepted' <=> Accepted)
      /\ \A n : Reached(n)' <=> Reached(n)
  BY StepArguments
<1>2. /\ instance' \in Instances /\ search' \in Searches /\ assignment' \in AssignmentChoices
      /\ search' = search
  BY <1>1 DEF SearchSound, ListsTyped, args
<1>3. ListsTyped /\ Fresh /\ AllReached /\ BestReached
  BY DEF SearchSound
<1>4. status \notin {"new", "invalid_assignment"} => Accepted
  BY <1>3 DEF Fresh
<1>5. ASSUME UNCHANGED <<frontier, seen, queue, candidates, nodes, best>>,
             cut' \in BOOLEAN, status' \in Statuses \ {"new"},
             status' # "invalid_assignment" => Accepted
      PROVE  SearchSound'
  <2>1. ListsTyped'
    BY <1>2, <1>3, <1>5 DEF ListsTyped
  <2>2. Fresh'
    BY <1>1, <1>5 DEF Fresh
  <2>3. AllReached'
    BY <1>1, <1>3, <1>5 DEF AllReached
  <2>4. BestReached'
    <3>1. Reached(best)' <=> Reached(best)
      BY <1>1, <1>5 DEF args, Reached, NodeOf, LastEnd, LastExit
    <3>2. QED  BY <3>1, <1>1, <1>3, <1>5 DEF BestReached, Complete
  <2>5. QED  BY <2>1, <2>2, <2>3, <2>4 DEF SearchSound
<1>6. CASE Reject
  BY <1>3, <1>5, <1>6 DEF Reject, ListsTyped, Statuses, beam
<1>7. CASE ExactStop
  BY <1>3, <1>4, <1>5, <1>7 DEF ExactStop, Exact, ListsTyped, Statuses, beam
<1>8. CASE Exhaust
  BY <1>3, <1>4, <1>5, <1>8 DEF Exhaust, Exact, ListsTyped, Statuses, beam
<1>9. CASE Conclude
  BY <1>3, <1>4, <1>5, <1>9 DEF Conclude, ListsTyped, Statuses, beam
<1>10. CASE UNCHANGED searchVars
  <2>1. Reached(best)' <=> Reached(best)
    BY <1>10 DEF searchVars, Reached, NodeOf, LastEnd, LastExit
  <2>2. BestReached' /\ AllReached'
    BY <2>1, <1>1, <1>3, <1>10 DEF BestReached, Complete, AllReached, searchVars
  <2>3. QED
    BY <2>2, <1>1, <1>3, <1>10 DEF searchVars, SearchSound, ListsTyped, Fresh
<1>11. ASSUME status' \in {"search", "collect"}, Accepted, cut' \in BOOLEAN,
              frontier' \in Seq(Nodes), queue' \in Seq(Nodes), candidates' \in Seq(Nodes),
              seen' \subseteq Nodes, nodes' \in Nat,
              \A n \in Range(frontier') \cup Range(queue') \cup Range(candidates') \cup seen' :
                Reached(n),
              best' = best \/ (Complete(best') /\ Reached(best'))
       PROVE  SearchSound'
  <2>1. ListsTyped'
    BY <1>2, <1>11 DEF ListsTyped, Statuses
  <2>2. Fresh'
    BY <1>1, <1>11 DEF Fresh
  <2>3. AllReached'
    BY <1>1, <1>11 DEF AllReached
  <2>4. BestReached'
    <3>1. PICK b : b = best'
      OBVIOUS
    <3>2. b = EmptyPlan \/ (Complete(b) /\ Reached(b))
      BY <3>1, <1>3, <1>11 DEF BestReached
    <3>3. Reached(best)' <=> Reached(b)
      BY <3>1, <1>1 DEF args, Reached, NodeOf, LastEnd, LastExit
    <3>4. QED  BY <3>1, <3>2, <3>3, <1>1, <1>11 DEF BestReached, Complete
  <2>5. QED  BY <2>1, <2>2, <2>3, <2>4 DEF SearchSound
<1>12. /\ frontier \in Seq(Nodes) /\ queue \in Seq(Nodes) /\ candidates \in Seq(Nodes)
       /\ seen \subseteq Nodes /\ nodes \in Nat /\ cut \in BOOLEAN
  BY <1>3 DEF ListsTyped
<1>13. Accepted => \A n \in Range(frontier) \cup Range(queue) \cup Range(candidates) \cup seen :
                     Reached(n)
  BY <1>3 DEF AllReached
<1>14. frontier # <<>> => /\ frontier[1] \in Range(frontier) /\ Tail(frontier) \in Seq(Nodes)
                          /\ Range(Tail(frontier)) \subseteq Range(frontier)
  BY <1>12, Lists
<1>15. queue # <<>> => /\ queue[1] \in Range(queue) /\ Tail(queue) \in Seq(Nodes)
                       /\ Range(Tail(queue)) \subseteq Range(queue)
  BY <1>12, Lists
<1>16. /\ <<>> \in Seq(Nodes) /\ Range(<<>>) = {}
       /\ \A n \in Range(frontier) : n \in Nodes
  <2>1. \A n \in Range(frontier) : n \in Nodes
    BY <1>12 DEF Range
  <2>2. QED  BY <2>1, Lists
<1>17. CASE Start
  BY <1>11, <1>12, <1>13, <1>16, <1>17 DEF Start
<1>18. CASE Skip
  BY <1>4, <1>11, <1>12, <1>13, <1>14, <1>18 DEF Skip, Pop, Exact, beam
<1>19. CASE Leaf
  <2>1. Accepted /\ Reached(frontier[1]) /\ Complete(frontier[1]) /\ frontier # <<>>
    BY <1>4, <1>13, <1>14, <1>19 DEF Leaf, Pop, Exact
  <2>2. QED  BY <2>1, <1>11, <1>12, <1>13, <1>14, <1>16, <1>19 DEF Leaf, Pop, Exact, beam
<1>20. CASE Grow
  <2> DEFINE kids == Children(frontier[1])
  <2>1. frontier # <<>> /\ Accepted
    BY <1>4, <1>20 DEF Grow, Pop, Exact
  <2>2. /\ kids \in Seq(Nodes) /\ \A c \in Range(kids) : Reached(c)
        /\ Reached(frontier[1])
    BY <2>1, <1>14, Expanded
  <2>3. /\ frontier' = kids \o Tail(frontier) /\ nodes' = nodes + Len(kids)
        /\ seen' = seen \cup {frontier[1]}
        /\ UNCHANGED <<queue, candidates, cut, status, best>> /\ status = "search"
    BY <1>20 DEF Grow, Pop, Exact, beam
  <2> HIDE DEF kids
  <2>4. frontier' \in Seq(Nodes) /\ Range(frontier') = Range(kids) \cup Range(Tail(frontier))
    BY <2>1, <2>2, <2>3, <1>14, Lists
  <2>5. nodes' \in Nat
    BY <2>2, <2>3, <1>12
  <2>6. QED  BY <2>1, <2>2, <2>3, <2>4, <2>5, <1>11, <1>12, <1>13, <1>14, <1>16
<1>21. CASE BeamExpand
  <2> DEFINE kids == Children(queue[1])
             kept == SubSeq(kids, 1, Min({Len(kids), search.node_limit - nodes}))
  <2>1. queue # <<>> /\ Accepted /\ ~ OverBudget
    BY <1>4, <1>21 DEF BeamExpand, Beam
  <2>2. kids \in Seq(Nodes) /\ \A c \in Range(kids) : Reached(c)
    BY <2>1, <1>15, Expanded
  <2>3. /\ candidates' = candidates \o kept /\ nodes' = nodes + Len(kept)
        /\ cut' = (cut \/ Len(kept) < Len(kids)) /\ queue' = Tail(queue)
        /\ UNCHANGED <<frontier, seen, best, status>> /\ status = "search"
    BY <1>21 DEF BeamExpand, Beam
  <2> HIDE DEF kids
  <2>4. search.node_limit \in Int
    BY <1>3, SearchesAssumption DEF ListsTyped
  <2>5. nodes < search.node_limit
    BY <2>1, <2>4, <1>12 DEF OverBudget
  <2>6. kept \in Seq(Nodes) /\ Range(kept) \subseteq Range(kids) /\ Len(kept) \in Nat
    BY <2>2, <2>4, <2>5, <1>12, KeptReached
  <2> HIDE DEF kept
  <2>7. candidates' \in Seq(Nodes) /\ Range(candidates') = Range(candidates) \cup Range(kept)
    BY <2>3, <2>6, <1>12, Lists
  <2>8. nodes' \in Nat /\ cut' \in BOOLEAN
    BY <2>3, <2>6, <1>12
  <2>9. QED  BY <2>1, <2>2, <2>3, <2>6, <2>7, <2>8, <1>11, <1>12, <1>13, <1>15
<1>22. CASE BeamStop
  BY <1>4, <1>11, <1>12, <1>13, <1>16, <1>22 DEF BeamStop, Beam
<1>23. CASE BeamDry
  BY <1>4, <1>11, <1>12, <1>13, <1>16, <1>23 DEF BeamDry, Beam, beam
<1>24. CASE BeamKeep
  <2> DEFINE unique == Range(candidates)
             width == Min({search.beam_width, Cardinality(unique)})
  <2>1. status = "search" /\ Accepted
    BY <1>4, <1>24 DEF BeamKeep, Beam
  <2>2. PICK kept \in kSubset(width, unique) : \E ranked \in Rankings(kept) :
          frontier' = ranked /\ queue' = ranked
    BY <1>24 DEF BeamKeep
  <2>3. PICK ranked \in Rankings(kept) : frontier' = ranked /\ queue' = ranked
    BY <2>2
  <2>4. kept \subseteq unique
    BY DEF kSubset
  <2>5. IsFiniteSet(unique)
    <3>1. Len(candidates) \in Nat /\ DOMAIN candidates = 1 .. Len(candidates)
      BY <1>12
    <3>2. IsFiniteSet(DOMAIN candidates)
      BY <3>1, FS_Interval
    <3>3. QED  BY <3>2, FiniteImage DEF Range
  <2>6. Cardinality(kept) \in Nat
    BY <2>4, <2>5, FS_Subset, FS_CardinalityType
  <2>7. ranked \in [1 .. Cardinality(kept) -> kept]
    BY DEF Rankings, SetToSeqs
  <2>8. \A n \in unique : n \in Nodes /\ Reached(n)
    <3>1. \A n \in Range(candidates) : n \in Nodes
      BY <1>12 DEF Range
    <3>2. QED  BY <3>1, <2>1, <1>13
  <2>9. ranked \in Seq(Nodes) /\ Range(ranked) \subseteq unique
    <3>1. ranked \in [1 .. Cardinality(kept) -> Nodes]
      BY <2>4, <2>7, <2>8
    <3>2. ranked \in Seq(Nodes)
      BY <3>1, <2>6
    <3>3. QED  BY <3>2, <2>4, <2>7 DEF Range
  <2>10. /\ candidates' = <<>> /\ UNCHANGED <<seen, nodes, best, status>>
         /\ cut' = (cut \/ width < Cardinality(unique))
    BY <1>24 DEF BeamKeep
  <2> HIDE DEF unique, width
  <2>11. cut' \in BOOLEAN
    BY <2>10, <1>12
  <2>12. QED  BY <2>1, <2>3, <2>8, <2>9, <2>10, <2>11, <1>11, <1>12, <1>13, <1>16
<1>25. CASE BeamCollect
  <2>1. status = "search" /\ Accepted /\ UNCHANGED <<seen, queue, candidates, nodes, cut>>
    BY <1>4, <1>25 DEF BeamCollect, beam
  <2>2. CASE frontier = <<>>
    BY <2>1, <2>2, <1>11, <1>12, <1>13, <1>25 DEF BeamCollect
  <2>3. CASE frontier # <<>>
    <3>1. /\ frontier' = Tail(frontier) /\ status' = status
          /\ best' = best \/ (best' = frontier[1] /\ Complete(frontier[1]))
      BY <2>3, <1>25 DEF BeamCollect
    <3>2. Reached(frontier[1])
      BY <2>1, <2>3, <1>13, <1>14
    <3>3. QED  BY <2>1, <2>3, <3>1, <3>2, <1>11, <1>12, <1>13, <1>14
  <2>4. QED  BY <2>2, <2>3
<1>26. QED
  BY <1>6, <1>7, <1>8, <1>9, <1>10, <1>17, <1>18, <1>19, <1>20, <1>21, <1>22, <1>23, <1>24, <1>25
     DEF SearchNext

LEMMA SearchInvariance == SearchSpec => []SearchSound
<1>1. SearchInit => SearchSound
  BY InitSound
<1>2. SearchSound /\ [SearchNext]_searchVars => SearchSound'
  BY StepSearchSound
<1>3. QED  BY <1>1, <1>2, PTL DEF SearchSpec

\* The independent verifier accepts a returned plan.
THEOREM ReturnedPlanVerifiesHolds == SearchSpec => []ReturnedPlanVerifies
<1>1. SearchSound => ReturnedPlanVerifies
  <2> SUFFICES ASSUME SearchSound, best # EmptyPlan, SameRobotHandoff(instance, best)
               PROVE  VerifiedFeasible(instance, best)
    BY DEF ReturnedPlanVerifies
  <2>1. Accepted /\ Complete(best) /\ Reached(best)
    BY DEF SearchSound, BestReached
  <2>2. TimingClean(instance, best)
    BY <2>1, SoundClean, NodeOfFields DEF Reached
  <2>3. SegmentCoverage(best)
    BY <2>1 DEF Complete, SegmentCoverage
  <2>4. EdgesFeasible(instance, best)
    BY <2>1, ReachedFacts DEF EdgesFeasible, Accepted, Complete
  <2>5. QED  BY <2>2, <2>3, <2>4 DEF VerifiedFeasible, AssignmentClean
<1>2. QED  BY <1>1, SearchInvariance, PTL
-----------------------------------------------------------------------------
(* Sums.  The fold of the community modules is a recursive function; it is *)
(* shown to exist by counting: f[x] elements are put aside for each x.     *)

Summing(f) ==
  LET iter[s \in SUBSET DOMAIN f] ==
        IF s = {} THEN 0
        ELSE f[CHOOSE x \in s : TRUE] + iter[s \ {CHOOSE x \in s : TRUE}]
  IN  iter

\* f[x] elements for each x in s.
Pile(f, s) == UNION {{x} \X (1 .. f[x]) : x \in s}

LEMMA PileGrows ==
  ASSUME NEW f, IsFiniteSet(DOMAIN f), \A x \in DOMAIN f : f[x] \in Nat,
         NEW s \in SUBSET DOMAIN f
  PROVE  /\ Cardinality(Pile(f, s)) \in Nat
         /\ \A x \in s : Cardinality(Pile(f, s)) = f[x] + Cardinality(Pile(f, s \ {x}))
<1>1. ASSUME NEW x \in DOMAIN f
      PROVE  IsFiniteSet({x} \X (1 .. f[x])) /\ Cardinality({x} \X (1 .. f[x])) = f[x]
  <2>1. f[x] \in Nat /\ IsFiniteSet(1 .. f[x]) /\ Cardinality(1 .. f[x]) = f[x]
    <3>1. f[x] \in Nat /\ 1 \in Int /\ f[x] \in Int /\ (1 > f[x] => f[x] = 0)
      OBVIOUS
    <3>2. IsFiniteSet(1 .. f[x])
          /\ Cardinality(1 .. f[x]) = IF 1 > f[x] THEN 0 ELSE f[x] - 1 + 1
      BY <3>1, FS_Interval
    <3>3. QED  BY <3>1, <3>2
  <2>2. IsFiniteSet({x}) /\ Cardinality({x}) = 1
    BY FS_Singleton
  <2>3. IsFiniteSet({x} \X (1 .. f[x]))
        /\ Cardinality({x} \X (1 .. f[x])) = 1 * f[x]
    BY <2>1, <2>2, FS_Product
  <2>4. QED  BY <2>1, <2>3
<1>2. ASSUME NEW t \in SUBSET DOMAIN f
      PROVE  IsFiniteSet(Pile(f, t)) /\ Cardinality(Pile(f, t)) \in Nat
  <2> DEFINE g == [x \in t |-> {x} \X (1 .. f[x])]
             T == {g[x] : x \in DOMAIN g}
  <2>1. IsFiniteSet(t)
    BY FS_Subset
  <2>2. IsFiniteSet(T)
    BY <2>1, FiniteImage
  <2>3. \A u \in T : IsFiniteSet(u)
    BY <1>1
  <2>4. IsFiniteSet(UNION T)
    BY <2>2, <2>3, FS_UNION
  <2>5. UNION T = Pile(f, t)
    BY DEF Pile
  <2>6. QED  BY <2>4, <2>5, FS_CardinalityType
<1>3. ASSUME NEW x \in s
      PROVE  Cardinality(Pile(f, s)) = f[x] + Cardinality(Pile(f, s \ {x}))
  <2> DEFINE A == {x} \X (1 .. f[x])
             B == Pile(f, s \ {x})
  <2>1. Pile(f, s) = A \cup B
    BY DEF Pile
  <2>2. A \cap B = {}
    BY DEF Pile
  <2>3. /\ IsFiniteSet(A) /\ IsFiniteSet(B) /\ Cardinality(B) \in Nat /\ Cardinality(A) = f[x]
        /\ f[x] \in Nat
    BY <1>1, <1>2
  <2> HIDE DEF A, B
  <2>4. Cardinality(A \cup B) = Cardinality(A) + Cardinality(B) - Cardinality(A \cap B)
    BY <2>3, FS_Union
  <2>5. Cardinality(A \cap B) = 0
    BY <2>2, FS_EmptySet
  <2>6. QED  BY <2>1, <2>3, <2>4, <2>5 DEF B
<1>4. QED  BY <1>2, <1>3

\* A sum of finitely many naturals is a natural.
LEMMA SumIsNatural ==
  ASSUME NEW f, IsFiniteSet(DOMAIN f), \A x \in DOMAIN f : f[x] \in Nat
  PROVE  SumFunction(f) \in Nat
<1> DEFINE pick(s) == CHOOSE x \in s : TRUE
           g == [s \in SUBSET DOMAIN f |-> Cardinality(Pile(f, s))]
           sum == Summing(f)
<1>1. SumFunction(f) = sum[DOMAIN f]
  BY DEF SumFunction, SumFunctionOnSet, FoldFunctionOnSet, MapThenFoldSet, Summing
<1>2. \A s : s # {} => pick(s) \in s
  OBVIOUS
<1>3. Pile(f, {}) = {} /\ Cardinality(Pile(f, {})) = 0
  <2>1. Pile(f, {}) = {}
    BY DEF Pile
  <2>2. QED  BY <2>1, FS_EmptySet
<1>4. \A s \in SUBSET DOMAIN f :
        g[s] = IF s = {} THEN 0 ELSE f[pick(s)] + g[s \ {pick(s)}]
  <2> SUFFICES ASSUME NEW s \in SUBSET DOMAIN f
               PROVE  g[s] = IF s = {} THEN 0 ELSE f[pick(s)] + g[s \ {pick(s)}]
    OBVIOUS
  <2>1. CASE s = {}
    BY <2>1, <1>3
  <2>2. CASE s # {}
    <3>1. pick(s) \in s /\ s \ {pick(s)} \in SUBSET DOMAIN f
      BY <2>2, <1>2
    <3> HIDE DEF pick
    <3>2. Cardinality(Pile(f, s)) = f[pick(s)] + Cardinality(Pile(f, s \ {pick(s)}))
      BY <3>1, PileGrows
    <3>3. QED  BY <2>2, <3>1, <3>2
  <2>3. QED  BY <2>1, <2>2
<1>5. g = [s \in SUBSET DOMAIN f |->
             IF s = {} THEN 0 ELSE f[pick(s)] + g[s \ {pick(s)}]]
  <2> HIDE DEF pick
  <2>1. g = [s \in SUBSET DOMAIN f |-> g[s]]
    OBVIOUS
  <2> HIDE DEF g
  <2>2. QED  BY <2>1, <1>4
<1> HIDE DEF g
<1>6. sum = [s \in SUBSET DOMAIN f |->
               IF s = {} THEN 0 ELSE f[pick(s)] + sum[s \ {pick(s)}]]
  BY <1>5 DEF Summing
<1> HIDE DEF sum, pick
<1>7. \A s \in SUBSET DOMAIN f :
        sum[s] = IF s = {} THEN 0 ELSE f[pick(s)] + sum[s \ {pick(s)}]
  BY <1>6
<1> DEFINE bad == {s \in SUBSET DOMAIN f : sum[s] \notin Nat}
<1>8. ASSUME NEW s \in bad PROVE \E u \in bad : Cardinality(u) < Cardinality(s)
  <2>1. s # {} /\ sum[s] = f[pick(s)] + sum[s \ {pick(s)}]
    <3>1. sum[s] = IF s = {} THEN 0 ELSE f[pick(s)] + sum[s \ {pick(s)}]
      BY <1>7
    <3>2. QED  BY <3>1
  <2>2. pick(s) \in s /\ f[pick(s)] \in Nat
    BY <2>1, <1>2
  <2>3. s \ {pick(s)} \in bad
    BY <2>1, <2>2
  <2>4. IsFiniteSet(s) /\ Cardinality(s) \in Nat
    BY FS_Subset, FS_CardinalityType
  <2>5. Cardinality(s \ {pick(s)}) = Cardinality(s) - 1
    BY <2>2, <2>4, FS_RemoveElement
  <2>6. QED  BY <2>3, <2>4, <2>5
<1>9. bad = {}
  <2> DEFINE sizes == {Cardinality(s) : s \in bad}
  <2>1. \A s \in bad : Cardinality(s) \in Nat
    BY FS_Subset, FS_CardinalityType
  <2>2. SUFFICES ASSUME bad # {} PROVE FALSE
    OBVIOUS
  <2> HIDE DEF bad
  <2>3. sizes \in SUBSET Nat /\ sizes # {}
    BY <2>1, <2>2
  <2>4. PICK m \in sizes : \A n \in sizes : m <= n
    BY <2>3, LeastNatural
  <2>5. PICK s \in bad : m = Cardinality(s)
    OBVIOUS
  <2>6. PICK u \in bad : Cardinality(u) < Cardinality(s)
    BY <1>8
  <2>7. m <= Cardinality(u)
    BY <2>4
  <2>8. QED  BY <2>1, <2>5, <2>6, <2>7
<1>10. sum[DOMAIN f] \in Nat
  BY <1>9
<1>11. QED  BY <1>1, <1>10
-----------------------------------------------------------------------------
(* The score of a plan is an integer, and starting every segment earlier   *)
(* does not raise it while the windows hold.                               *)

\* What the score looks at.
Scored(p) ==
  /\ DOMAIN p \subseteq Segments
  /\ \A x \in DOMAIN p : p[x].robot \in Robots /\ p[x].end \in Nat

LEMMA LateTypes ==
  ASSUME NEW i \in Int
  PROVE  Max({0, i}) \in Nat /\ (i <= 0 => Max({0, i}) = 0)
<1>1. \E x \in {0, i} : \A y \in {0, i} : x >= y
  OBVIOUS
<1>2. Max({0, i}) \in {0, i} /\ \A y \in {0, i} : Max({0, i}) >= y
  BY <1>1 DEF Max
<1>3. QED  BY <1>2

LEMMA MakespanIs ==
  ASSUME NEW p, Scored(p)
  PROVE  /\ Makespan(p) \in Nat
         /\ \A x \in DOMAIN p : p[x].end <= Makespan(p)
         /\ Makespan(p) = 0 \/ \E x \in DOMAIN p : Makespan(p) = p[x].end
<1> DEFINE f == [x \in DOMAIN p |-> p[x].end]
           ends == {0} \cup {p[x].end : x \in DOMAIN p}
<1>1. IsFiniteSet(ends)
  <2>1. IsFiniteSet(DOMAIN f)
    BY SegmentsAssumption, FS_Subset DEF Scored
  <2>2. IsFiniteSet({f[x] : x \in DOMAIN f})
    BY <2>1, FiniteImage
  <2>3. ends = {f[x] : x \in DOMAIN f} \cup {0}
    OBVIOUS
  <2>4. QED  BY <2>2, <2>3, FS_AddElement
<1>2. ends \in SUBSET Nat /\ ends # {} /\ 0 \in ends /\ \A x \in DOMAIN p : p[x].end \in ends
  BY DEF Scored
<1>3. ASSUME NEW m \in ends PROVE m = 0 \/ \E x \in DOMAIN p : m = p[x].end
  OBVIOUS
<1>4. Makespan(p) = Max(ends)
  BY DEF Makespan
<1> HIDE DEF ends
<1>5. Max(ends) \in ends /\ \A x \in ends : x <= Max(ends)
  BY <1>1, <1>2, FiniteGreatest
<1>6. QED  BY <1>2, <1>3, <1>4, <1>5

LEMMA SquareIsNatural == \A i \in Int : i * i \in Nat
<1> SUFFICES ASSUME NEW i \in Int PROVE i * i >= 0
  OBVIOUS
<1>1. CASE i >= 0
  BY <1>1
<1>2. CASE i < 0
  BY <1>2
<1>3. QED  BY <1>1, <1>2

LEMMA LoadVarianceType ==
  ASSUME instance \in Instances, NEW p, Scored(p)
  PROVE  LoadVariance(instance, p) \in Nat
<1> DEFINE loads == [r \in Robots |-> Load(instance, p, r)]
           n == Cardinality(Robots)
           total == SumFunction(loads)
           gap(r) == n * Load(instance, p, r) - total
           squares == [r \in Robots |-> gap(r) * gap(r)]
<1>1. ASSUME NEW r \in Robots PROVE Load(instance, p, r) \in Nat
  <2> DEFINE own == {x \in DOMAIN p : p[x].robot = r}
             durs == [x \in own |-> instance.dur[x]]
  <2>1. own \in SUBSET Segments
    BY DEF Scored
  <2>2. IsFiniteSet(DOMAIN durs) /\ \A x \in DOMAIN durs : durs[x] \in Nat
    BY <2>1, SegmentsAssumption, FS_Subset, InstanceTypes
  <2>3. SumFunction(durs) \in Nat
    BY <2>2, SumIsNatural
  <2>4. QED  BY <2>3 DEF Load
<1>2. IsFiniteSet(DOMAIN loads) /\ \A r \in DOMAIN loads : loads[r] \in Nat
  BY <1>1, RobotsAssumption
<1>3. total \in Nat
  BY <1>2, SumIsNatural
<1>4. n \in Nat
  BY RobotsAssumption, FS_CardinalityType
<1> HIDE DEF n, total
<1>5. \A r \in Robots : gap(r) \in Int
  BY <1>1, <1>3, <1>4
<1> HIDE DEF gap
<1>6. IsFiniteSet(DOMAIN squares) /\ \A r \in DOMAIN squares : squares[r] \in Nat
  BY <1>5, RobotsAssumption, SquareIsNatural
<1> HIDE DEF squares
<1>7. SumFunction(squares) \in Nat
  BY <1>6, SumIsNatural
<1>8. LoadVariance(instance, p) = SumFunction(squares)
  BY DEF LoadVariance, squares, gap, total, n
<1>9. QED  BY <1>7, <1>8

LEMMA TravelType ==
  ASSUME instance \in Instances, NEW p, Scored(p)
  PROVE  Travel(instance, p) \in Nat
<1> DEFINE f == [s \in DOMAIN p |-> Transition(instance, p, s)]
<1>1. ASSUME NEW s \in DOMAIN p PROVE Transition(instance, p, s) \in Nat
  <2> DEFINE r == p[s].robot
             before == CHOOSE x \in Previous(p, s) : TRUE
  <2>1. s \in Segments /\ r \in Robots /\ instance.base[r] \in Points
    BY InstanceTypes DEF Scored
  <2>2. Approach(instance, r, s, instance.base[r]) \in Nat
    BY <2>1, MotionTypes
  <2>3. CASE Previous(p, s) = {}
    BY <2>2, <2>3 DEF Transition
  <2>4. CASE Previous(p, s) # {}
    <3>1. before \in Previous(p, s)
      BY <2>4
    <3>2. before \in Segments
      BY <3>1 DEF Previous, Scored
    <3>3. ExitPoint(instance, before, instance.base[r]) \in Points
      BY <2>1, <3>2, MotionTypes
    <3>4. Approach(instance, r, s, ExitPoint(instance, before, instance.base[r])) \in Nat
      BY <2>1, <3>3, MotionTypes
    <3>5. QED  BY <2>4, <3>4 DEF Transition
  <2>5. QED  BY <2>3, <2>4
<1>2. IsFiniteSet(DOMAIN f) /\ \A s \in DOMAIN f : f[s] \in Nat
  BY <1>1, SegmentsAssumption, FS_Subset DEF Scored
<1>3. SumFunction(f) \in Nat
  BY <1>2, SumIsNatural
<1>4. QED  BY <1>3 DEF Travel

LEMMA TardinessType ==
  ASSUME instance \in Instances, NEW p, Scored(p)
  PROVE  Tardiness(instance, p) \in Nat
<1> DEFINE f == [s \in DOMAIN p |->
                   instance.prio[s] * Max({0, p[s].end - instance.closes[s]})]
<1>1. ASSUME NEW s \in DOMAIN p
      PROVE  instance.prio[s] * Max({0, p[s].end - instance.closes[s]}) \in Nat
  <2>1. s \in Segments /\ p[s].end \in Nat
    BY DEF Scored
  <2>2. instance.closes[s] \in Nat /\ instance.prio[s] \in Nat
    BY <2>1, InstancesAssumption DEF InstanceType
  <2>3. p[s].end - instance.closes[s] \in Int
    BY <2>1, <2>2
  <2>4. Max({0, p[s].end - instance.closes[s]}) \in Nat
    BY <2>3, LateTypes
  <2>5. QED  BY <2>2, <2>4
<1>2. IsFiniteSet(DOMAIN f) /\ \A s \in DOMAIN f : f[s] \in Nat
  BY <1>1, SegmentsAssumption, FS_Subset DEF Scored
<1>3. SumFunction(f) \in Nat
  BY <1>2, SumIsNatural
<1>4. QED  BY <1>3 DEF Tardiness

LEMMA ScoreType ==
  ASSUME instance \in Instances, NEW p, Scored(p)
  PROVE  ScoreOf(p) \in Int
<1>1. /\ Makespan(p) \in Nat /\ LoadVariance(instance, p) \in Nat
      /\ Travel(instance, p) \in Nat /\ Tardiness(instance, p) \in Nat
  BY MakespanIs, LoadVarianceType, TravelType, TardinessType
<1>2. /\ Weights.makespan \in Nat /\ Weights.load_variance \in Int
      /\ Weights.travel_setup_time \in Int /\ Weights.priority_tardiness \in Int
  BY WeightsAssumption
<1>3. QED  BY <1>1, <1>2 DEF ScoreOf, Score

\* A plan with the robots and the order of p that ends no segment later scores no
\* worse, when p keeps the windows.
LEMMA EarlierScoresLess ==
  ASSUME instance \in Instances, NEW p, NEW n, Scored(p), Scored(n), DOMAIN n = DOMAIN p,
         \A x \in DOMAIN p : /\ n[x].robot = p[x].robot /\ n[x].index = p[x].index
                             /\ n[x].end <= p[x].end /\ p[x].end <= instance.closes[x]
  PROVE  ScoreOf(n) <= ScoreOf(p)
<1>1. LoadVariance(instance, n) = LoadVariance(instance, p)
  <2>1. \A r \in Robots : Load(instance, n, r) = Load(instance, p, r)
    <3> SUFFICES ASSUME NEW r \in Robots PROVE Load(instance, n, r) = Load(instance, p, r)
      OBVIOUS
    <3>1. {x \in DOMAIN n : n[x].robot = r} = {x \in DOMAIN p : p[x].robot = r}
      OBVIOUS
    <3>2. QED  BY <3>1 DEF Load
  <2>2. [r \in Robots |-> Load(instance, n, r)] = [r \in Robots |-> Load(instance, p, r)]
    BY <2>1
  <2> DEFINE total == SumFunction([r \in Robots |-> Load(instance, n, r)])
             k == Cardinality(Robots)
             gap(q, r) == k * Load(instance, q, r) - total
  <2> HIDE DEF k
  <2>3. [r \in Robots |-> gap(n, r) * gap(n, r)] = [r \in Robots |-> gap(p, r) * gap(p, r)]
    BY <2>1
  <2>4. LoadVariance(instance, n) = SumFunction([r \in Robots |-> gap(n, r) * gap(n, r)])
    BY DEF LoadVariance, k
  <2>5. LoadVariance(instance, p) = SumFunction([r \in Robots |-> gap(p, r) * gap(p, r)])
    BY <2>2 DEF LoadVariance, k
  <2>6. QED  BY <2>3, <2>4, <2>5
<1>2. Travel(instance, n) = Travel(instance, p)
  <2>1. \A s \in DOMAIN p : Transition(instance, n, s) = Transition(instance, p, s)
    <3> SUFFICES ASSUME NEW s \in DOMAIN p
                 PROVE  Transition(instance, n, s) = Transition(instance, p, s)
      OBVIOUS
    <3>1. Previous(n, s) = Previous(p, s)
      BY DEF Previous
    <3>2. QED  BY <3>1 DEF Transition
  <2>2. [s \in DOMAIN n |-> Transition(instance, n, s)]
          = [s \in DOMAIN p |-> Transition(instance, p, s)]
    BY <2>1
  <2>3. QED  BY <2>2 DEF Travel
<1>3. Tardiness(instance, n) = Tardiness(instance, p)
  <2> DEFINE late(q, s) == instance.prio[s] * Max({0, q[s].end - instance.closes[s]})
  <2>1. \A s \in DOMAIN p : late(n, s) = late(p, s)
    <3> SUFFICES ASSUME NEW s \in DOMAIN p PROVE late(n, s) = late(p, s)
      OBVIOUS
    <3>1. /\ n[s].end \in Nat /\ p[s].end \in Nat /\ s \in Segments
          /\ n[s].end <= p[s].end /\ p[s].end <= instance.closes[s]
      BY DEF Scored
    <3>2. instance.closes[s] \in Nat
      BY <3>1, InstanceTypes
    <3>3. /\ n[s].end - instance.closes[s] \in Int /\ n[s].end - instance.closes[s] <= 0
          /\ p[s].end - instance.closes[s] \in Int /\ p[s].end - instance.closes[s] <= 0
      BY <3>1, <3>2
    <3>4. Max({0, n[s].end - instance.closes[s]}) = 0 /\ Max({0, p[s].end - instance.closes[s]}) = 0
      BY <3>3, LateTypes
    <3>5. QED  BY <3>4
  <2> HIDE DEF late
  <2>2. [s \in DOMAIN n |-> late(n, s)] = [s \in DOMAIN p |-> late(p, s)]
    BY <2>1
  <2>3. QED  BY <2>2 DEF Tardiness, late
<1>4. /\ Makespan(n) \in Nat /\ Makespan(p) \in Nat /\ Makespan(n) <= Makespan(p)
  <2>1. /\ Makespan(n) \in Nat /\ Makespan(p) \in Nat
        /\ \A x \in DOMAIN p : p[x].end <= Makespan(p)
        /\ Makespan(n) = 0 \/ \E x \in DOMAIN n : Makespan(n) = n[x].end
    BY MakespanIs
  <2>2. CASE Makespan(n) = 0
    BY <2>1, <2>2
  <2>3. CASE \E x \in DOMAIN n : Makespan(n) = n[x].end
    <3>1. PICK x \in DOMAIN n : Makespan(n) = n[x].end
      BY <2>3
    <3>2. n[x].end <= p[x].end /\ p[x].end <= Makespan(p) /\ p[x].end \in Nat
      BY <2>1 DEF Scored
    <3>3. QED  BY <2>1, <3>1, <3>2
  <2>4. QED  BY <2>1, <2>2, <2>3
<1>5. /\ LoadVariance(instance, p) \in Nat
      /\ Travel(instance, p) \in Nat /\ Tardiness(instance, p) \in Nat
  BY LoadVarianceType, TravelType, TardinessType
<1>6. /\ Weights.makespan \in Nat /\ Weights.load_variance \in Int
      /\ Weights.travel_setup_time \in Int /\ Weights.priority_tardiness \in Int
  BY WeightsAssumption
<1>7. Weights.makespan * Makespan(n) <= Weights.makespan * Makespan(p)
  BY <1>4, <1>6
<1>8. QED  BY <1>1, <1>2, <1>3, <1>4, <1>5, <1>6, <1>7 DEF ScoreOf, Score
-----------------------------------------------------------------------------
(* Dispatching in the order of a timed plan, each segment as early as it  *)
(* has room, never falls behind that plan.                               *)

Sooner(p, y, x) == p[y].start < p[x].start \/ (p[y].start = p[x].start /\ y < x)

\* path is a tool path of p that leaves time for every approach.
Walks(p, path) ==
  /\ path \in [DOMAIN p -> Points]
  /\ ToolPath(instance, p, path)
  /\ \A b \in DOMAIN p :
       LET r == p[b].robot
       IN  /\ First(p, b) =>
                instance.on[r] + Approach(instance, r, b, instance.base[r]) <= p[b].start
           /\ \A a \in DOMAIN p : Follows(p, a, b) =>
                p[a].end + Approach(instance, r, b, path[a]) <= p[b].start

\* The node n has placed the segments p starts first, each as p does or earlier.
Ahead(n, p, path) ==
  /\ \A x \in DOMAIN n : \A y \in Segments : Sooner(p, y, x) => y \in DOMAIN n
  /\ \A x \in DOMAIN n :
       /\ n[x].robot = p[x].robot /\ n[x].index = p[x].index
       /\ n[x].start <= p[x].start /\ n[x].end <= p[x].end
       /\ n[x].exit = path[x]

LEMMA TimedFacts ==
  ASSUME instance \in Instances, assignment \in [Segments -> Robots],
         NEW p \in TimedPlans(instance, assignment)
  PROVE  /\ DOMAIN p = Segments /\ TimingClean(instance, p) /\ Scored(p)
         /\ \A x \in Segments :
              /\ p[x].robot = assignment[x] /\ p[x].robot \in Robots
              /\ p[x].start \in Nat /\ p[x].end \in Nat
              /\ p[x].end = p[x].start + instance.dur[x]
              /\ p[x].index = Cardinality({y \in Segments :
                   assignment[y] = assignment[x] /\ Sooner(p, y, x)})
<1>1. PICK f \in StartTimes(instance) : p = Timed(instance, f, assignment, ByTime(f, assignment))
  BY DEF TimedPlans
<1>2. TimingClean(instance, p)
  BY DEF TimedPlans
<1>3. /\ DOMAIN p = Segments
      /\ \A x \in Segments :
           /\ p[x].robot = assignment[x] /\ p[x].start = f[x]
           /\ p[x].end = f[x] + instance.dur[x]
           /\ p[x].index = ByTime(f, assignment)[x]
  BY <1>1 DEF Timed
<1>4. ASSUME NEW x \in Segments PROVE f[x] \in Nat /\ f[x] + instance.dur[x] \in Nat
  <2>1. f[x] \in instance.opens[x] .. instance.closes[x] - instance.dur[x]
    BY DEF StartTimes
  <2>2. instance.opens[x] \in Nat /\ instance.closes[x] \in Nat /\ instance.dur[x] \in Nat
    BY InstanceTypes
  <2>3. QED  BY <2>1, <2>2
<1>5. ASSUME NEW x \in Segments
      PROVE  p[x].index = Cardinality({y \in Segments :
               assignment[y] = assignment[x] /\ Sooner(p, y, x)})
  <2>1. ByTime(f, assignment)[x] = Cardinality({y \in Segments :
          assignment[y] = assignment[x] /\ (f[y] < f[x] \/ (f[y] = f[x] /\ y < x))})
    BY DEF ByTime
  <2>2. {y \in Segments : assignment[y] = assignment[x] /\ (f[y] < f[x] \/ (f[y] = f[x] /\ y < x))}
          = {y \in Segments : assignment[y] = assignment[x] /\ Sooner(p, y, x)}
    BY <1>3 DEF Sooner
  <2>3. QED  BY <1>3, <2>1, <2>2
<1>6. Scored(p)
  BY <1>3, <1>4 DEF Scored
<1>7. QED  BY <1>2, <1>3, <1>4, <1>5, <1>6

\* Some segment outside D starts first.
LEMMA FirstMissing ==
  ASSUME NEW p, \A x \in Segments : p[x].start \in Nat, NEW D, ~ (Segments \subseteq D)
  PROVE  \E s \in Segments \ D : \A y \in Segments : Sooner(p, y, s) => y \in D
<1> DEFINE rest == Segments \ D
           starts == {p[x].start : x \in rest}
<1>1. starts \in SUBSET Nat /\ starts # {}
  OBVIOUS
<1>2. PICK m \in starts : \A k \in starts : m <= k
  BY <1>1, LeastNatural
<1> DEFINE tied == {x \in rest : p[x].start = m}
<1>3. tied \in SUBSET Nat /\ tied # {}
  BY SegmentsAssumption
<1>4. PICK s \in tied : \A x \in tied : s <= x
  BY <1>3, LeastNatural
<1>5. ASSUME NEW y \in Segments, Sooner(p, y, s), y \notin D PROVE FALSE
  <2>1. y \in rest /\ m <= p[y].start /\ p[y].start \in Nat /\ m \in Nat /\ p[s].start = m
    BY <1>1, <1>2, <1>5
  <2>2. p[y].start = m /\ y < s
    BY <2>1, <1>5 DEF Sooner
  <2>3. y \in tied /\ y \in Nat /\ s \in Nat
    BY <2>1, <2>2, SegmentsAssumption
  <2>4. QED  BY <2>2, <2>3, <1>4
<1>6. QED  BY <1>5

\* The position of s on its robot, and what comes right before it there.
LEMMA PlaceInOrder ==
  ASSUME NEW n, Reached(n), NEW p \in TimedPlans(instance, assignment), NEW path,
         Walks(p, path), Ahead(n, p, path), NEW s \in Segments \ DOMAIN n,
         \A y \in Segments : Sooner(p, y, s) => y \in DOMAIN n,
         NEW r, r = assignment[s]
  PROVE  /\ \A x \in DOMAIN n : Sooner(p, x, s)
         /\ Cardinality(On(n, r)) = p[s].index
         /\ LastEnd(n, r) + Approach(instance, r, s, LastExit(n, r)) <= p[s].start
         /\ ExitPoint(instance, s, LastExit(n, r)) = path[s]
<1>1. /\ instance \in Instances /\ assignment \in [Segments -> Robots] /\ DOMAIN n \subseteq Segments
      /\ \A x \in DOMAIN n : n[x].robot = assignment[x] /\ n[x].end \in Nat /\ n[x].exit \in Points
      /\ LastEnd(n, r) \in Nat /\ LastExit(n, r) \in Points
  BY ReachedFacts
<1>2. /\ DOMAIN p = Segments /\ TimingClean(instance, p)
      /\ \A x \in Segments :
           /\ p[x].robot = assignment[x] /\ p[x].robot \in Robots
           /\ p[x].start \in Nat /\ p[x].end \in Nat
           /\ p[x].index = Cardinality({y \in Segments :
                assignment[y] = assignment[x] /\ Sooner(p, y, x)})
  BY <1>1, TimedFacts
<1>3. ASSUME NEW x \in DOMAIN n PROVE Sooner(p, x, s)
  <2>1. x \in Segments /\ s \in Segments /\ x # s /\ ~ Sooner(p, s, x)
    BY <1>1 DEF Ahead
  <2>2. x \in Nat /\ s \in Nat /\ p[x].start \in Nat /\ p[s].start \in Nat
    BY <2>1, <1>2, SegmentsAssumption
  <2>3. QED  BY <2>1, <2>2 DEF Sooner
<1>4. On(n, r) = {y \in Segments : assignment[y] = assignment[s] /\ Sooner(p, y, s)}
  BY <1>1, <1>3 DEF On
<1>5. Cardinality(On(n, r)) = p[s].index
  BY <1>2, <1>4
<1>6. \A x, y \in Segments : p[x].robot = p[y].robot /\ p[x].index = p[y].index => x = y
  BY <1>2 DEF TimingClean, RobotOrderIndex
<1>7. \A x \in Segments : p[x].index \in Nat
  BY <1>2 DEF TimingClean, RobotOrderIndex
<1>8. \A x, y \in Segments :
        OrderedBefore(p, x, y) <=> (p[x].robot = p[y].robot /\ p[x].index < p[y].index)
  <2> SUFFICES ASSUME NEW x \in Segments, NEW y \in Segments
               PROVE  OrderedBefore(p, x, y) <=>
                        (p[x].robot = p[y].robot /\ p[x].index < p[y].index)
    OBVIOUS
  <2>1. p[x].robot = p[y].robot /\ p[x].index = p[y].index => ~ (x < y)
    BY <1>6, SegmentsAssumption
  <2>2. QED  BY <2>1 DEF OrderedBefore
<1>9. CASE On(n, r) = {}
  <2>1. p[s].index = 0
    BY <1>5, <1>9, FS_EmptySet
  <2>2. First(p, s)
    <3> SUFFICES ASSUME NEW a \in Segments, OrderedBefore(p, a, s) PROVE FALSE
      BY <1>2 DEF First
    <3>1. p[a].index < 0 /\ p[a].index \in Nat
      BY <2>1, <1>7, <1>8
    <3>2. QED  BY <3>1
  <2>3. LastEnd(n, r) = instance.on[r] /\ LastExit(n, r) = instance.base[r]
    BY <1>9 DEF LastEnd, LastExit
  <2>4. /\ instance.on[r] + Approach(instance, r, s, instance.base[r]) <= p[s].start
        /\ path[s] = ExitPoint(instance, s, instance.base[r])
    BY <2>2, <1>2 DEF Walks, ToolPath
  <2>5. QED  BY <1>3, <1>5, <2>3, <2>4
<1>10. CASE On(n, r) # {}
  <2> DEFINE l == Latest(n, r)
  <2>1. l \in On(n, r) /\ n[l].index = Cardinality(On(n, r)) - 1
    BY <1>1, <1>10, LatestIs
  <2>2. l \in DOMAIN n /\ n[l].robot = r /\ l \in Segments /\ p[l].robot = r
    BY <2>1, <1>1, <1>2 DEF On
  <2>3. LastEnd(n, r) = n[l].end /\ LastExit(n, r) = n[l].exit
    BY <1>10 DEF LastEnd, LastExit
  <2> HIDE DEF l
  <2>4. p[l].index = p[s].index - 1 /\ n[l].end <= p[l].end /\ n[l].exit = path[l]
    BY <2>1, <2>2, <1>5 DEF Ahead
  <2>5. Follows(p, l, s)
    <3>1. OrderedBefore(p, l, s)
      <4>1. s \in Segments /\ p[s].index \in Nat
        BY <1>7
      <4>2. p[s].robot = r
        BY <1>2
      <4>3. p[l].index < p[s].index
        BY <2>4, <4>1
      <4>4. QED  BY <4>1, <4>2, <4>3, <2>2, <1>8
    <3>2. ASSUME NEW c \in Segments, OrderedBefore(p, l, c), OrderedBefore(p, c, s)
          PROVE  FALSE
      <4>1. p[l].index < p[c].index /\ p[c].index < p[s].index
        BY <3>2, <2>2, <1>8
      <4>2. p[l].index \in Nat /\ p[c].index \in Nat /\ p[s].index \in Nat
        BY <2>2, <1>7
      <4>3. QED  BY <4>1, <4>2, <2>4
    <3>3. QED  BY <3>1, <3>2, <1>2 DEF Follows
  <2>6. /\ p[l].end + Approach(instance, r, s, path[l]) <= p[s].start
        /\ path[s] = ExitPoint(instance, s, path[l])
    BY <2>2, <2>5, <1>2 DEF Walks, ToolPath
  <2>7. Approach(instance, r, s, path[l]) \in Nat
    <3>1. path[l] \in Points /\ r \in Robots
      BY <2>2, <2>4, <1>1, <1>2
    <3>2. QED  BY <3>1, <1>1, MotionTypes
  <2>8. n[l].end \in Nat /\ p[l].end \in Nat /\ p[s].start \in Nat
    BY <2>2, <1>1, <1>2
  <2>9. n[l].end + Approach(instance, r, s, path[l]) <= p[s].start
    BY <2>4, <2>6, <2>7, <2>8
  <2>10. QED  BY <1>3, <1>5, <2>3, <2>4, <2>6, <2>9
<1>11. QED  BY <1>9, <1>10

\* Where p starts s, a node ahead of p has room for it.
LEMMA RoomAhead ==
  ASSUME NEW n, Reached(n), NEW p \in TimedPlans(instance, assignment), NEW path,
         Ahead(n, p, path), NEW s \in Segments \ DOMAIN n,
         \A x \in DOMAIN n : Sooner(p, x, s)
  PROVE  Fits(instance, n, s, p[s].start)
<1> DEFINE u == p[s].start
<1> SUFFICES ASSUME NEW q \in instance.uses[s],
                    NEW e \in EventTimes(instance, n, q, u, instance.dur[s])
             PROVE  ~ (Cardinality(ActiveAt(instance, n, q, e)) + 1 > instance.cap[q])
  BY DEF Fits, Overloaded
<1>1. /\ instance \in Instances /\ assignment \in [Segments -> Robots] /\ Spanned(n)
      /\ DOMAIN n \subseteq Segments
      /\ \A x \in DOMAIN n : n[x].start \in Nat /\ n[x].end \in Nat
  BY ReachedFacts
<1>2. /\ DOMAIN p = Segments /\ TimingClean(instance, p)
      /\ \A x \in Segments :
           /\ p[x].start \in Nat /\ p[x].end \in Nat
           /\ p[x].end = p[x].start + instance.dur[x]
  BY <1>1, TimedFacts
<1>3. /\ q \in Resources /\ instance.cap[q] \in Nat
      /\ instance.dur[s] \in Nat /\ instance.dur[s] > 0
  BY <1>1, InstanceTypes
<1>4. \A x \in DOMAIN n : p[x].start <= u /\ n[x].start <= p[x].start /\ n[x].end <= p[x].end
  BY <1>1, <1>2 DEF Sooner, Ahead
<1>5. e = u
  <2>1. e = u \/ \E x \in DOMAIN n : e = n[x].start /\ u < e
    BY DEF EventTimes, Holders
  <2>2. \A x \in DOMAIN n : ~ (u < n[x].start)
    <3> SUFFICES ASSUME NEW x \in DOMAIN n PROVE ~ (u < n[x].start)
      OBVIOUS
    <3>1. n[x].start \in Nat /\ p[x].start \in Nat /\ u \in Nat
      BY <1>1, <1>2
    <3>2. QED  BY <3>1, <1>4
  <2>3. QED  BY <2>1, <2>2
<1>6. Spanned(p)
  BY <1>2 DEF Spanned
<1>7. ActiveAt(instance, n, q, u) \cup {s} \subseteq ActiveAt(instance, p, q, u)
  <2>1. s \in ActiveAt(instance, p, q, u)
    BY <1>2, <1>3 DEF ActiveAt, Holders
  <2>2. ASSUME NEW x \in ActiveAt(instance, n, q, u) PROVE x \in ActiveAt(instance, p, q, u)
    <3>1. x \in DOMAIN n /\ q \in instance.uses[x] /\ u < n[x].end
      BY DEF ActiveAt, Holders
    <3>2. n[x].end \in Nat /\ p[x].end \in Nat /\ u \in Nat /\ n[x].end <= p[x].end
      BY <3>1, <1>1, <1>2, <1>4
    <3>3. u < p[x].end
      BY <3>1, <3>2
    <3>4. QED  BY <3>1, <3>3, <1>1, <1>2, <1>4 DEF ActiveAt, Holders
  <2>3. QED  BY <2>1, <2>2
<1>8. s \notin ActiveAt(instance, n, q, u)
  BY DEF ActiveAt, Holders
<1>9. Cardinality(ActiveAt(instance, p, q, u)) <= instance.cap[q]
  <2>1. s \in Holders(instance, p, q) /\ u \in {p[s].start, p[s].end}
    BY <1>2 DEF Holders
  <2>2. QED  BY <2>1, <1>2, <1>3 DEF TimingClean, ResourceCapacity
<1>10. /\ IsFiniteSet(ActiveAt(instance, n, q, u)) /\ Cardinality(ActiveAt(instance, n, q, u)) \in Nat
       /\ Cardinality(ActiveAt(instance, n, q, u) \cup {s}) <= Cardinality(ActiveAt(instance, p, q, u))
       /\ Cardinality(ActiveAt(instance, p, q, u)) \in Nat
  BY <1>1, <1>6, <1>7, ActiveCount
<1>11. Cardinality(ActiveAt(instance, n, q, u) \cup {s}) = Cardinality(ActiveAt(instance, n, q, u)) + 1
  BY <1>8, <1>10, FS_AddElement
<1>12. QED  BY <1>3, <1>5, <1>9, <1>10, <1>11

\* A node ahead of p that misses a segment has a child ahead of p.
LEMMA ChildAhead ==
  ASSUME NEW n, Reached(n), NEW p \in TimedPlans(instance, assignment), NEW path,
         Walks(p, path), Ahead(n, p, path), ~ Complete(n)
  PROVE  \E s \in Segments \ DOMAIN n : Survives(n, s) /\ Ahead(Child(n, s), p, path)
<1>1. /\ instance \in Instances /\ assignment \in [Segments -> Robots] /\ Spanned(n)
      /\ DOMAIN n \subseteq Segments
      /\ \A x \in DOMAIN n : n[x].start \in Nat /\ n[x].end \in Nat
      /\ \A r \in Robots : LastEnd(n, r) \in Nat /\ LastExit(n, r) \in Points
  BY ReachedFacts
<1>2. /\ DOMAIN p = Segments /\ TimingClean(instance, p)
      /\ \A x \in Segments :
           /\ p[x].robot = assignment[x] /\ p[x].robot \in Robots
           /\ p[x].start \in Nat /\ p[x].end \in Nat
           /\ p[x].end = p[x].start + instance.dur[x]
  BY <1>1, TimedFacts
<1>3. PICK s \in Segments \ DOMAIN n : \A y \in Segments : Sooner(p, y, s) => y \in DOMAIN n
  <2>1. ~ (Segments \subseteq DOMAIN n)
    BY <1>1 DEF Complete
  <2>2. QED  BY <2>1, <1>2, FirstMissing
<1> DEFINE r == assignment[s]
           t == StartOf(n, s)
           u == p[s].start
           LB == LowerBounds(instance, n, s, r, LastEnd(n, r), LastExit(n, r))
<1>4. /\ \A x \in DOMAIN n : Sooner(p, x, s)
      /\ Cardinality(On(n, r)) = p[s].index
      /\ LastEnd(n, r) + Approach(instance, r, s, LastExit(n, r)) <= u
      /\ ExitPoint(instance, s, LastExit(n, r)) = path[s]
  BY <1>3, PlaceInOrder
<1>5. Fits(instance, n, s, u)
  BY <1>4, RoomAhead
<1>6. ASSUME NEW d \in Deps(instance, s) PROVE d \in DOMAIN n /\ n[d].end <= u
  <2>1. d \in Segments
    BY <1>1, DepsTypes
  <2>2. p[d].end <= u
    BY <2>1, <1>2 DEF Deps, TimingClean, Precedence, ParentSegmentOrder
  <2>3. instance.dur[d] \in Nat /\ instance.dur[d] > 0
    BY <2>1, <1>1, InstanceTypes
  <2>4. p[d].start < u
    BY <2>1, <2>2, <2>3, <1>2
  <2>5. d \in DOMAIN n
    BY <2>1, <2>4, <1>3 DEF Sooner
  <2>6. n[d].end <= p[d].end /\ n[d].end \in Nat /\ p[d].end \in Nat /\ u \in Nat
    BY <2>1, <2>5, <1>1, <1>2 DEF Ahead
  <2>7. QED  BY <2>2, <2>5, <2>6
<1>7. Ready(instance, n, s)
  BY <1>6 DEF Ready
<1>8. /\ t \in StartChoices(instance, n, s, r, LastEnd(n, r), LastExit(n, r))
      /\ EarliestOn(instance, n, s, r, LastEnd(n, r), LastExit(n, r), t)
  BY <1>7, StartExists
<1>9. r \in Robots /\ LastEnd(n, r) \in Nat /\ LastExit(n, r) \in Points
      /\ (\A x \in DOMAIN n : n[x].end \in Nat) /\ Deps(instance, s) \subseteq DOMAIN n
  BY <1>1, <1>6
<1>10. LB \in SUBSET Nat /\ LB # {}
  BY <1>1, <1>9, NaturalBounds
<1>11. t \in Nat
  BY <1>1, <1>8, <1>9, NaturalStart
<1>12. \A b \in LB : b <= u
  <2>1. instance.opens[s] <= u /\ instance.on[r] <= u
    BY <1>2 DEF TimingClean, SegmentTimeWindow, RobotAvailability
  <2>2. \A q \in instance.uses[s] : instance.free[q] <= u
    BY <1>2 DEF TimingClean, ResourceAvailability
  <2>3. QED  BY <2>1, <2>2, <1>4, <1>6 DEF LowerBounds
<1>13. t <= u
  <2>1. IsEarliest(instance, n, s, LB, t)
    BY <1>8 DEF EarliestOn
  <2> HIDE DEF LB, t
  <2>2. u \in Nat
    BY <1>2
  <2>3. QED  BY <2>1, <2>2, <1>1, <1>5, <1>10, <1>12, EarliestOfAll
<1>14. instance.dur[s] \in Nat /\ t + instance.dur[s] <= p[s].end
  <2>1. instance.dur[s] \in Nat /\ u \in Nat /\ p[s].end = u + instance.dur[s]
    BY <1>1, <1>2, InstanceTypes
  <2>2. QED  BY <2>1, <1>11, <1>13
<1>15. InTime(instance, s, r, t + instance.dur[s])
  <2>1. /\ p[s].end <= instance.closes[s] /\ p[s].end <= instance.off[r]
        /\ \A q \in instance.uses[s] : p[s].end <= instance.shut[q]
    BY <1>2 DEF TimingClean, SegmentTimeWindow, RobotAvailability, ResourceAvailability
  <2>2. /\ instance.closes[s] \in Nat /\ instance.off[r] \in Nat
        /\ \A q \in instance.uses[s] : instance.shut[q] \in Nat
    BY <1>1, <1>9, InstanceTypes
  <2>3. t + instance.dur[s] \in Nat /\ p[s].end \in Nat
    BY <1>2, <1>11, <1>14
  <2> HIDE DEF t
  <2>4. QED  BY <2>1, <2>2, <2>3, <1>14 DEF InTime, Deadlines
<1>16. Survives(n, s)
  BY <1>7, <1>15 DEF Survives
<1>17. Ahead(Child(n, s), p, path)
  <2> DEFINE c == Child(n, s)
  <2>1. /\ DOMAIN c = DOMAIN n \cup {s} /\ \A x \in DOMAIN n : c[x] = n[x]
        /\ c[s] = Item(instance, s, r, Cardinality(On(n, r)), t, LastExit(n, r))
    BY ChildItems
  <2>2. /\ c[s].robot = r /\ c[s].index = Cardinality(On(n, r)) /\ c[s].start = t
        /\ c[s].end = t + instance.dur[s]
        /\ c[s].exit = ExitPoint(instance, s, LastExit(n, r))
    BY <2>1 DEF Item
  <2> HIDE DEF c, t
  <2>3. \A x \in DOMAIN c : \A y \in Segments : Sooner(p, y, x) => y \in DOMAIN c
    BY <2>1, <1>3 DEF Ahead
  <2>4. /\ c[s].robot = p[s].robot /\ c[s].index = p[s].index
        /\ c[s].start <= p[s].start /\ c[s].end <= p[s].end /\ c[s].exit = path[s]
    BY <2>2, <1>2, <1>4, <1>13, <1>14
  <2>5. \A x \in DOMAIN n :
          /\ c[x].robot = p[x].robot /\ c[x].index = p[x].index
          /\ c[x].start <= p[x].start /\ c[x].end <= p[x].end /\ c[x].exit = path[x]
    BY <2>1 DEF Ahead
  <2>6. QED  BY <2>1, <2>3, <2>4, <2>5, <1>1 DEF Ahead, c
<1>18. QED  BY <1>16, <1>17

\* Some node the search has taken is complete and ahead of p, when every surviving
\* child of a partial node taken has been taken as well.
LEMMA SeenCovers ==
  ASSUME EmptyPlan \in seen, \A n \in seen : Reached(n),
         \A n \in seen : ~ Complete(n) =>
           \A s \in Segments : Survives(n, s) => Child(n, s) \in seen,
         NEW p \in TimedPlans(instance, assignment), NEW path, Walks(p, path)
  PROVE  \E n \in seen : Complete(n) /\ Ahead(n, p, path)
<1> DEFINE ahead == {n \in seen : Ahead(n, p, path)}
           sizes == {Cardinality(DOMAIN n) : n \in ahead}
<1>1. EmptyPlan \in ahead
  BY DEF Ahead, EmptyPlan
<1>2. ASSUME NEW n \in ahead
      PROVE  /\ IsFiniteSet(DOMAIN n) /\ Cardinality(DOMAIN n) \in Nat
             /\ Cardinality(DOMAIN n) <= Cardinality(Segments)
  BY ReachedFacts, SegmentsAssumption, FS_Subset, FS_CardinalityType
<1>3. Cardinality(Segments) \in Nat
  BY SegmentsAssumption, FS_CardinalityType
<1>4. \A n \in ahead : n \in seen /\ Ahead(n, p, path)
  OBVIOUS
<1>5. \A n \in seen : Ahead(n, p, path) => n \in ahead
  OBVIOUS
<1> HIDE DEF ahead
<1>6. sizes \in SUBSET Nat /\ sizes # {} /\ \A k \in sizes : k <= Cardinality(Segments)
  BY <1>1, <1>2
<1>7. PICK m \in sizes : \A k \in sizes : k <= m
  BY <1>3, <1>6, GreatestNatural
<1>8. PICK n \in ahead : m = Cardinality(DOMAIN n)
  OBVIOUS
<1>9. Complete(n)
  <2> SUFFICES ASSUME ~ Complete(n) PROVE FALSE
    OBVIOUS
  <2>1. Reached(n) /\ Ahead(n, p, path)
    BY <1>4
  <2>2. PICK s \in Segments \ DOMAIN n : Survives(n, s) /\ Ahead(Child(n, s), p, path)
    BY <2>1, ChildAhead
  <2>3. Child(n, s) \in ahead
    BY <2>2, <1>4, <1>5
  <2>4. DOMAIN Child(n, s) = DOMAIN n \cup {s}
    BY ChildItems
  <2>5. Cardinality(DOMAIN n \cup {s}) = Cardinality(DOMAIN n) + 1 /\ Cardinality(DOMAIN n) \in Nat
    BY <1>2, FS_AddElement
  <2>6. Cardinality(DOMAIN Child(n, s)) <= m
    BY <2>3, <1>7
  <2>7. QED  BY <2>4, <2>5, <2>6, <1>8
<1>10. QED  BY <1>4, <1>9
-----------------------------------------------------------------------------
(* Exact mode loses no node while it is not cut short.                     *)

Known == seen \cup Range(frontier)

ExactSound ==
  search.mode = "exact" /\ ~ cut /\ Accepted =>
    /\ EmptyPlan \in Known
    /\ \A n \in seen : ~ Complete(n) =>
         \A s \in Segments : Survives(n, s) => Child(n, s) \in Known
    /\ \A n \in seen : Complete(n) => best # EmptyPlan /\ ScoreOf(best) <= ScoreOf(n)
    /\ status \in {"collect", "infeasible", "optimal"} => frontier = <<>>

VerdictSound ==
  /\ status = "infeasible" => SearchComplete /\ best = EmptyPlan
  /\ status = "optimal" => SearchComplete

LEMMA ReachedScores ==
  ASSUME NEW n, Reached(n)
  PROVE  Scored(n) /\ ScoreOf(n) \in Int
<1>1. Scored(n) /\ instance \in Instances
  BY ReachedFacts DEF Scored
<1>2. QED  BY <1>1, ScoreType

LEMMA CompleteIsNotRoot == ASSUME NEW n, Complete(n) PROVE n # EmptyPlan
BY SegmentsAssumption DEF Complete, EmptyPlan

LEMMA InitExact == SearchInit => ExactSound /\ VerdictSound
<1> SUFFICES ASSUME SearchInit PROVE ExactSound /\ VerdictSound
  OBVIOUS
<1>1. EmptyPlan \in Known /\ seen = {} /\ status = "new"
  BY Lists, RootIsNode DEF SearchInit, Known
<1>2. QED  BY <1>1 DEF ExactSound, VerdictSound

LEMMA StepExact ==
  SearchSound /\ ExactSound /\ VerdictSound /\ [SearchNext]_searchVars
    => ExactSound' /\ VerdictSound'
<1> SUFFICES ASSUME SearchSound, ExactSound, VerdictSound, [SearchNext]_searchVars
             PROVE  ExactSound' /\ VerdictSound'
  OBVIOUS
<1>1. /\ UNCHANGED args /\ (Accepted' <=> Accepted)
      /\ search' = search
  BY StepArguments DEF args
<1>2. /\ \A n, s : Child(n, s)' = Child(n, s)
      /\ \A n, s : Survives(n, s)' <=> Survives(n, s)
      /\ \A n : ScoreOf(n)' = ScoreOf(n)
  BY <1>1 DEF args, Child, Survives, StartOf, LastEnd, LastExit, ScoreOf
<1>3. /\ frontier \in Seq(Nodes) /\ seen \subseteq Nodes /\ cut \in BOOLEAN
      /\ status \notin {"new", "invalid_assignment"} => Accepted
  BY DEF SearchSound, ListsTyped, Fresh
<1>4. frontier # <<>> => /\ frontier[1] \in Range(frontier) /\ Tail(frontier) \in Seq(Nodes)
                         /\ Range(frontier) = {frontier[1]} \cup Range(Tail(frontier))
  BY <1>3, Lists
<1>5. Accepted => \A n \in Known : Reached(n)
  BY DEF SearchSound, AllReached, Known
<1>6. Accepted /\ best # EmptyPlan => Reached(best)
  BY DEF SearchSound, BestReached
<1>7. ScoreOf(best)' = ScoreOf(best')
  BY <1>1 DEF args, ScoreOf
<1>8. VerdictSound'
  <2>1. CASE Conclude
    BY <2>1, <1>1 DEF Conclude, VerdictSound, SearchComplete
  <2>2. CASE UNCHANGED <<search, cut, best, status>>
    BY <2>2 DEF VerdictSound, SearchComplete
  <2>3. CASE status' \notin {"infeasible", "optimal"}
    BY <2>3 DEF VerdictSound
  <2>4. QED
    BY <2>1, <2>2, <2>3 DEF SearchNext, searchVars, Reject, Start, ExactStop, Skip, Leaf, Grow,
       Pop, Exact, Exhaust, BeamExpand, BeamStop, BeamDry, BeamKeep, BeamCollect, Beam
<1>9. SUFFICES ASSUME search.mode = "exact", ~ cut', Accepted
               PROVE  /\ EmptyPlan \in Known'
                      /\ \A n \in seen' : ~ Complete(n) =>
                           \A s \in Segments : Survives(n, s) => Child(n, s) \in Known'
                      /\ \A n \in seen' : Complete(n) =>
                           best' # EmptyPlan /\ ScoreOf(best') <= ScoreOf(n)
                      /\ status' \in {"collect", "infeasible", "optimal"} => frontier' = <<>>
  BY <1>1, <1>2, <1>7, <1>8 DEF ExactSound, Complete
<1>10. CASE ~ cut /\ UNCHANGED <<frontier, seen, best>>
            /\ (status' \in {"collect", "infeasible", "optimal"} => frontier = <<>>)
  BY <1>9, <1>10 DEF ExactSound, Known
<1>11. CASE Reject \/ Start
  BY <1>9, <1>10, <1>11 DEF Reject, Start
<1>12. CASE ExactStop
  BY <1>9, <1>12 DEF ExactStop
<1>13. CASE Exhaust
  BY <1>9, <1>10, <1>13 DEF Exhaust
<1>14. CASE Conclude
  <2>1. frontier = <<>>
    BY <1>9, <1>14 DEF Conclude, ExactSound
  <2>2. QED  BY <2>1, <1>9, <1>10, <1>14 DEF Conclude
<1>15. CASE UNCHANGED searchVars
  BY <1>9, <1>10, <1>15 DEF searchVars, ExactSound
<1>16. CASE Skip
  <2>1. /\ ~ cut /\ frontier # <<>> /\ frontier[1] \in seen /\ frontier' = Tail(frontier)
        /\ UNCHANGED <<seen, best, status>> /\ status = "search"
    BY <1>9, <1>16 DEF Skip, Pop, Exact
  <2>2. Known' = Known
    BY <2>1, <1>4 DEF Known
  <2>3. QED  BY <2>1, <2>2, <1>9 DEF ExactSound
<1>17. CASE Leaf
  <2> DEFINE f == frontier[1]
  <2>1. /\ ~ cut /\ frontier # <<>> /\ Complete(f) /\ frontier' = Tail(frontier)
        /\ seen' = seen \cup {f} /\ best' = (IF Improves(f) THEN f ELSE best)
        /\ UNCHANGED status /\ status = "search"
    BY <1>9, <1>17 DEF Leaf, Pop, Exact
  <2>2. Known' = Known /\ f \in Known
    BY <2>1, <1>4 DEF Known
  <2> HIDE DEF f
  <2>3. Reached(f) /\ ScoreOf(f) \in Int /\ f # EmptyPlan
    BY <2>1, <2>2, <1>5, <1>9, ReachedScores, CompleteIsNotRoot
  <2>4. /\ \A n \in seen : Complete(n) =>
             best # EmptyPlan /\ ScoreOf(best) <= ScoreOf(n)
        /\ \A n \in seen : ScoreOf(n) \in Int
        /\ best # EmptyPlan => ScoreOf(best) \in Int
    BY <2>1, <1>5, <1>6, <1>9, ReachedScores DEF ExactSound, Known
  <2>5. \A n \in seen \cup {f} : Complete(n) =>
          best' # EmptyPlan /\ ScoreOf(best') <= ScoreOf(n)
    <3> SUFFICES ASSUME NEW n \in seen \cup {f}, Complete(n)
                 PROVE  best' # EmptyPlan /\ ScoreOf(best') <= ScoreOf(n)
      OBVIOUS
    <3>1. n = f \/ (n \in seen /\ best # EmptyPlan /\ ScoreOf(best) <= ScoreOf(n))
      BY <2>4
    <3>2. CASE Improves(f)
      BY <3>1, <3>2, <2>1, <2>3, <2>4 DEF Improves
    <3>3. CASE ~ Improves(f)
      <4>1. best' = best /\ best # EmptyPlan /\ ~ (ScoreOf(f) < ScoreOf(best))
        BY <3>3, <2>1 DEF Improves
      <4>2. QED  BY <4>1, <3>1, <2>3, <2>4
    <3>4. QED  BY <3>2, <3>3
  <2>6. QED  BY <2>1, <2>2, <2>5, <1>9 DEF ExactSound
<1>18. CASE Grow
  <2> DEFINE f == frontier[1]
             kids == Children(f)
  <2>1. /\ ~ cut /\ frontier # <<>> /\ ~ Complete(f) /\ frontier' = kids \o Tail(frontier)
        /\ seen' = seen \cup {f} /\ UNCHANGED <<best, status>> /\ status = "search"
    BY <1>9, <1>18 DEF Grow, Pop, Exact
  <2>2. f \in Known
    BY <2>1, <1>4 DEF Known
  <2>3. Reached(f)
    BY <2>2, <1>5, <1>9
  <2> HIDE DEF f
  <2>4. kids \in Seq(Nodes) /\ \A s \in Segments : Survives(f, s) => Child(f, s) \in Range(kids)
    BY <2>3, ChildrenReached
  <2> HIDE DEF kids
  <2>5. Range(frontier') = Range(kids) \cup Range(Tail(frontier))
    BY <2>1, <2>4, <1>4, Lists
  <2>6. Known' = Known \cup Range(kids)
    BY <2>1, <2>5, <1>4 DEF Known, f
  <2>7. QED  BY <2>1, <2>4, <2>6, <1>9 DEF ExactSound
<1>19. CASE BeamExpand \/ BeamStop \/ BeamDry \/ BeamKeep \/ BeamCollect
  BY <1>9, <1>19 DEF BeamExpand, BeamStop, BeamDry, BeamKeep, BeamCollect, Beam
<1>20. QED
  BY <1>11, <1>12, <1>13, <1>14, <1>15, <1>16, <1>17, <1>18, <1>19 DEF SearchNext

LEMMA ExactInvariance == SearchSpec => [](SearchSound /\ ExactSound /\ VerdictSound)
<1>1. SearchInit => SearchSound /\ ExactSound /\ VerdictSound
  BY InitSound, InitExact
<1>2. SearchSound /\ ExactSound /\ VerdictSound /\ [SearchNext]_searchVars
        => (SearchSound /\ ExactSound /\ VerdictSound)'
  BY StepSearchSound, StepExact
<1>3. QED  BY <1>1, <1>2, PTL DEF SearchSpec

\* A finished exact search has taken a complete node ahead of each timed plan.
LEMMA FinishedCovers ==
  ASSUME SearchSound, ExactSound, SearchComplete, status \in {"infeasible", "optimal"},
         NEW p \in TimedPlans(instance, assignment)
  PROVE  \E n \in seen : /\ Complete(n) /\ Reached(n) /\ ScoreOf(n) <= ScoreOf(p)
                         /\ best # EmptyPlan /\ ScoreOf(best) <= ScoreOf(n)
<1>1. /\ Accepted /\ instance \in Instances /\ assignment \in [Segments -> Robots]
      /\ seen \subseteq Nodes
  BY AcceptedTypes DEF SearchSound, Fresh, ListsTyped
<1>2. /\ frontier = <<>> /\ EmptyPlan \in Known
      /\ \A n \in seen : ~ Complete(n) =>
           \A s \in Segments : Survives(n, s) => Child(n, s) \in Known
      /\ \A n \in seen : Complete(n) => best # EmptyPlan /\ ScoreOf(best) <= ScoreOf(n)
  BY <1>1 DEF ExactSound, SearchComplete
<1>3. Known = seen
  BY <1>2, Lists DEF Known
<1>4. \A n \in seen : Reached(n)
  BY <1>1 DEF SearchSound, AllReached
<1>5. /\ DOMAIN p = Segments /\ TimingClean(instance, p) /\ Scored(p)
  BY <1>1, TimedFacts
<1>6. PICK path : Walks(p, path)
  BY <1>5 DEF TimingClean, RobotTransitionTime, Walks
<1>7. PICK n \in seen : Complete(n) /\ Ahead(n, p, path)
  BY <1>2, <1>3, <1>4, <1>6, SeenCovers
<1>8. ScoreOf(n) <= ScoreOf(p)
  <2>1. Scored(n) /\ DOMAIN n = DOMAIN p
    BY <1>4, <1>5, <1>7, ReachedScores DEF Complete
  <2>2. \A x \in DOMAIN p : /\ n[x].robot = p[x].robot /\ n[x].index = p[x].index
                            /\ n[x].end <= p[x].end /\ p[x].end <= instance.closes[x]
    BY <2>1, <1>5, <1>7 DEF Ahead, TimingClean, SegmentTimeWindow
  <2>3. QED  BY <2>1, <2>2, <1>1, <1>5, EarlierScoresLess
<1>9. QED  BY <1>2, <1>4, <1>7, <1>8

\* "infeasible" is only said when no start times at all pass the timing checks.
THEOREM InfeasibleIsProvedHolds == SearchSpec => []InfeasibleIsProved
<1>1. SearchSound /\ ExactSound /\ VerdictSound => InfeasibleIsProved
  <2> SUFFICES ASSUME SearchSound, ExactSound, VerdictSound, status = "infeasible",
                      NEW p \in TimedPlans(instance, assignment)
               PROVE  FALSE
    BY DEF InfeasibleIsProved
  <2>1. SearchComplete /\ best = EmptyPlan
    BY DEF VerdictSound
  <2>2. QED  BY <2>1, FinishedCovers
<1>2. QED  BY <1>1, ExactInvariance, PTL

\* "optimal" is only said of a plan no timed plan of the assignment beats.
THEOREM OptimalIsOptimalHolds == SearchSpec => []OptimalIsOptimal
<1>1. SearchSound /\ ExactSound /\ VerdictSound => OptimalIsOptimal
  <2> SUFFICES ASSUME SearchSound, ExactSound, VerdictSound, status = "optimal",
                      NEW p \in TimedPlans(instance, assignment)
               PROVE  ScoreOf(best) <= ScoreOf(p)
    BY DEF OptimalIsOptimal
  <2>1. SearchComplete
    BY DEF VerdictSound
  <2>2. PICK n \in seen : /\ Complete(n) /\ Reached(n) /\ ScoreOf(n) <= ScoreOf(p)
                          /\ best # EmptyPlan /\ ScoreOf(best) <= ScoreOf(n)
    BY <2>1, FinishedCovers
  <2>3. Reached(best) /\ Accepted /\ instance \in Instances
        /\ assignment \in [Segments -> Robots]
    BY <2>2, AcceptedTypes DEF SearchSound, BestReached, ListsTyped
  <2>4. ScoreOf(best) \in Int /\ ScoreOf(n) \in Int /\ ScoreOf(p) \in Int
    BY <2>2, <2>3, ReachedScores, TimedFacts, ScoreType
  <2>5. QED  BY <2>2, <2>4
<1>2. QED  BY <1>1, ExactInvariance, PTL
=============================================================================
