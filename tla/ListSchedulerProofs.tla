-------------------------- MODULE ListSchedulerProofs --------------------------
(***************************************************************************)
(* The list scheduler implements the dispatch tree: each dispatch is an    *)
(* edge and keeps what AllocationLemmas calls Sound.  Its deadlock verdict *)
(* is exact, and it dispatches in order of time.  The link is that         *)
(* next_index and the plan agree: the placed segments are the first        *)
(* next[n] of every order, at those indices (Facts).                       *)
(***************************************************************************)
EXTENDS ListScheduler, AllocationLemmas

\* The search state the scheduler has reached.
Node == [plan |-> plan, lastEnd |-> Ends, lastExit |-> Exits, count |-> Count]

\* What the items satisfied when they were placed.
TreeInv == Sound(inst, Assigned, Node)

LEMMA NodeFields ==
  /\ Node.plan = plan /\ Node.lastEnd = Ends /\ Node.lastExit = Exits
  /\ Node.count = Count
BY DEF Node

\* The operators of the tree are those of this module.
LEMMA SameModel ==
  ASSUME NEW I, NEW p, NEW s, NEW r, NEW a, NEW b, NEW t, NEW k, NEW i
  PROVE  /\ Tree!Ready(I, p, s) <=> Ready(I, p, s)
         /\ Tree!StartChoices(I, p, s, r, a, b) = StartChoices(I, p, s, r, a, b)
         /\ Tree!EarliestOn(I, p, s, r, a, b, t) <=> EarliestOn(I, p, s, r, a, b, t)
         /\ Tree!InTime(I, s, r, t) <=> InTime(I, s, r, t)
         /\ Tree!Item(I, s, r, k, t, b) = Item(I, s, r, k, t, b)
         /\ Tree!Extend(p, s, i) = Extend(p, s, i)
<1>1. Tree!Ready(I, p, s) <=> Ready(I, p, s)
  BY DEF Tree!Ready, Ready, Tree!Deps, Deps, Tree!ParentPrevious, ParentPrevious,
         Tree!SameCurve, SameCurve
<1>2. Tree!LowerBounds(I, p, s, r, a, b) = LowerBounds(I, p, s, r, a, b)
  BY DEF Tree!LowerBounds, LowerBounds, Tree!Deps, Deps, Tree!ParentPrevious, ParentPrevious,
         Tree!SameCurve, SameCurve, Tree!Approach, Approach, Tree!Entry, Entry,
         Tree!RunsForward, RunsForward
<1>3. Tree!StartChoices(I, p, s, r, a, b) = StartChoices(I, p, s, r, a, b)
  BY <1>2 DEF Tree!StartChoices, StartChoices
<1>4. \A S : Tree!Cardinality(S) = Cardinality(S)
  BY DEF Tree!Cardinality, Cardinality
<1>5. \A u : Tree!Fits(I, p, s, u) <=> Fits(I, p, s, u)
  BY <1>4 DEF Tree!Fits, Fits, Tree!Overloaded, Overloaded, Tree!EventTimes, EventTimes,
         Tree!ActiveAt, ActiveAt, Tree!Holders, Holders
<1>6. Tree!EarliestOn(I, p, s, r, a, b, t) <=> EarliestOn(I, p, s, r, a, b, t)
  BY <1>2, <1>5 DEF Tree!EarliestOn, EarliestOn, Tree!IsEarliest, IsEarliest
<1>7. Tree!InTime(I, s, r, t) <=> InTime(I, s, r, t)
  BY DEF Tree!InTime, InTime, Tree!Deadlines, Deadlines
<1>8. Tree!Item(I, s, r, k, t, b) = Item(I, s, r, k, t, b)
  BY DEF Tree!Item, Item, Tree!ExitPoint, ExitPoint, Tree!RunsForward, RunsForward
<1>9. Tree!Extend(p, s, i) = Extend(p, s, i)
  BY DEF Tree!Extend, Extend
<1>10. QED  BY <1>1, <1>3, <1>6, <1>7, <1>8, <1>9

-----------------------------------------------------------------------------
\* An edge of the tree, in the operators of this module.
Edge(s) ==
  LET r == Assigned[s]
  IN  /\ Ready(inst, plan, s)
      /\ \E t \in StartChoices(inst, plan, s, r, Ends[r], Exits[r]) :
           LET item == Item(inst, s, r, Count[r], t, Exits[r])
           IN  /\ EarliestOn(inst, plan, s, r, Ends[r], Exits[r], t)
               /\ InTime(inst, s, r, t + inst.dur[s])
               /\ plan' = Extend(plan, s, item)
               /\ Ends' = [Ends EXCEPT ![r] = item.end]
               /\ Exits' = [Exits EXCEPT ![r] = item.exit]
               /\ Count' = [Count EXCEPT ![r] = @ + 1]
      /\ UNCHANGED <<inst, Assigned>>

tree == <<inst, Assigned, plan, Ends, Exits, Count>>

LEMMA EdgeIsTree ==
  ASSUME NEW s, Edge(s)
  PROVE  Tree!Dispatch(s)
<1> DEFINE r == Assigned[s]
           item(t) == Item(inst, s, r, Count[r], t, Exits[r])
<1>1. PICK t \in StartChoices(inst, plan, s, r, Ends[r], Exits[r]) :
        /\ EarliestOn(inst, plan, s, r, Ends[r], Exits[r], t)
        /\ InTime(inst, s, r, t + inst.dur[s])
        /\ plan' = Extend(plan, s, item(t))
        /\ Ends' = [Ends EXCEPT ![r] = item(t).end]
        /\ Exits' = [Exits EXCEPT ![r] = item(t).exit]
        /\ Count' = [Count EXCEPT ![r] = @ + 1]
  BY DEF Edge
<1>2. Ready(inst, plan, s) /\ UNCHANGED <<inst, Assigned>>
  BY DEF Edge
<1>3. Tree!Item(inst, s, r, Count[r], t, Exits[r]) = item(t)
  BY SameModel
<1>4. Tree!Extend(plan, s, item(t)) = Extend(plan, s, item(t))
  BY SameModel
<1>5. Tree!Place(s, t)
  BY <1>1, <1>3, <1>4 DEF Tree!Place
<1>6. QED  BY <1>1, <1>2, <1>5, SameModel DEF Tree!Dispatch

\* An edge keeps what the items satisfied.
LEMMA EdgeSound ==
  ASSUME TreeInv, NEW s \in Segments, Edge(s)
  PROVE  TreeInv'
<1> DEFINE r == Assigned[s]
<1>1. PICK t \in StartChoices(inst, plan, s, r, Ends[r], Exits[r]) :
        /\ EarliestOn(inst, plan, s, r, Ends[r], Exits[r], t)
        /\ InTime(inst, s, r, t + inst.dur[s])
        /\ plan' = Extend(plan, s, Item(inst, s, r, Count[r], t, Exits[r]))
        /\ Ends' = [Ends EXCEPT ![r] = t + inst.dur[s]]
        /\ Exits' = [Exits EXCEPT ![r] = ExitPoint(inst, s, Exits[r])]
        /\ Count' = [Count EXCEPT ![r] = @ + 1]
  BY DEF Edge, Item
<1>2. Ready(inst, plan, s) /\ inst' = inst /\ Assigned' = Assigned
  BY DEF Edge
<1>3. t \in Nat /\ Placed(inst, Assigned, Node, s, t, Node')
  BY <1>1, <1>2, DispatchPlaces DEF Node, TreeInv
<1>4. QED  BY <1>2, <1>3, StepSound DEF TreeInv

\* The placed segments are the first next[n] of each order, in that order.
Agrees ==
  /\ \A x \in DOMAIN plan : \E n \in DOMAIN orders : \E k \in 1 .. next[n] : orders[n][k] = x
  /\ \A n \in DOMAIN orders : \A k \in 1 .. next[n] :
       /\ orders[n][k] \in DOMAIN plan
       /\ plan[orders[n][k]].robot = n /\ plan[orders[n][k]].index = k - 1

\* What the verdicts remember about the call.
Facts ==
  /\ inst \in Instances
  /\ \A n \in DOMAIN orders : orders[n] \in Seq(Nat)
  /\ next \in [DOMAIN orders -> Nat]
  /\ \A n \in DOMAIN orders : next[n] <= Len(orders[n])
  /\ DOMAIN plan \subseteq Segments
  /\ Agrees
  /\ verdict \in {"new", "running", "feasible"} \cup Failures
  /\ verdict \in {"running", "feasible", "DEADLOCK"} =>
       Covers(orders) /\ DOMAIN orders \subseteq Robots
  /\ verdict = "new" => DOMAIN plan = {}
  /\ verdict = "feasible" => Complete(plan)
  /\ verdict = "DEADLOCK" =>
       blamed = Segments \ DOMAIN plan /\ blamed # {} /\ Heads = {}
  /\ blamed \subseteq Segments

LEMMA InitTree == Init => Tree!Init /\ TreeInv /\ Facts
<1> SUFFICES ASSUME Init PROVE Tree!Init /\ TreeInv /\ Facts
  OBVIOUS
<1>1. inst \in Instances /\ orders \in OrderChoices /\ next = [n \in DOMAIN orders |-> 0]
  BY DEF Init
<1>2. Assigned \in [Segments -> Robots]
  <2>1. \A s \in Segments : Assigned[s] \in Robots
    BY RobotsAssumption DEF Assigned
  <2>2. QED  BY <2>1 DEF Assigned
<1>3. Tree!EmptyPlan = EmptyPlan
  BY DEF Tree!EmptyPlan, EmptyPlan
<1>4. Ends = inst.on /\ Exits = inst.base /\ Count = [r \in Robots |-> 0]
  <2>1. inst.on \in [Robots -> Nat] /\ inst.base \in [Robots -> Points]
    BY <1>1, InstanceTypes
  <2>2. QED  BY <1>1, <2>1 DEF Ends, Exits, Count, LastEnd, LastExit
<1>5. Tree!Init /\ TreeInv
  <2>1. plan = EmptyPlan
    BY DEF Init
  <2>2. TreeInv
    BY <1>1, <1>2, <1>4, <2>1, NodeFields, StartSound DEF TreeInv
  <2>3. QED  BY <1>2, <1>3, <1>4, <2>2 DEF Init, Tree!Init
<1>6. \A n \in DOMAIN orders : orders[n] \in Seq(Nat) /\ next[n] = 0 /\ Len(orders[n]) \in Nat
  BY <1>1, OrdersAssumption
<1>7. Facts
  BY <1>1, <1>6 DEF Init, Facts, Agrees, EmptyPlan
<1>8. QED  BY <1>5, <1>7

LEMMA Types ==
  ASSUME TreeInv
  PROVE  /\ Ends \in [Robots -> Nat] /\ Exits \in [Robots -> Points]
         /\ Count \in [Robots -> Nat]
         /\ plan \in [DOMAIN plan -> ItemType]
         /\ \A x \in DOMAIN plan : plan[x].start \in Nat /\ plan[x].end \in Nat
BY NodeFields DEF TreeInv, Sound, Typed, ItemType

\* An accepted segment is assigned to the robot whose order holds it.
LEMMA AssignedIs ==
  ASSUME Covers(orders), DOMAIN orders \subseteq Robots,
         NEW n \in DOMAIN orders, NEW k \in DOMAIN orders[n]
  PROVE  orders[n][k] \in Segments /\ Assigned[orders[n][k]] = n
<1> DEFINE s == orders[n][k]
<1>1. s \in Segments /\ n \in Robots /\ Names(n, s)
  BY DEF Covers, Names
<1>2. \A r \in Robots : Names(r, s) => r = n
  BY DEF Covers, Names
<1>3. (CHOOSE r \in Robots : Names(r, s)) = n
  BY <1>1, <1>2
<1>4. QED  BY <1>1, <1>3 DEF Assigned

\* What dispatching the head of n does.
Moved(n, t) ==
  LET s == Cursor(n)
  IN  /\ n \in DOMAIN orders /\ next[n] \in Nat /\ next[n] + 1 <= Len(orders[n])
      /\ s = orders[n][next[n] + 1]
      /\ s \in Segments /\ s \notin DOMAIN plan
      /\ inst' = inst /\ orders' = orders /\ verdict' = verdict /\ blamed' = blamed
      /\ next' = [next EXCEPT ![n] = @ + 1]
      /\ DOMAIN plan' = DOMAIN plan \cup {s}
      /\ \A x \in DOMAIN plan : plan'[x] = plan[x]
      /\ plan'[s] = Item(inst, s, n, next[n], t, LastExit(n))

LEMMA MovedTotals ==
  ASSUME Facts, DOMAIN orders \subseteq Robots, NEW n, NEW t, Moved(n, t)
  PROVE  LET item == Item(inst, Cursor(n), n, next[n], t, LastExit(n))
         IN  /\ Ends' = [Ends EXCEPT ![n] = item.end]
             /\ Exits' = [Exits EXCEPT ![n] = item.exit]
             /\ Count' = [Count EXCEPT ![n] = @ + 1]
<1> DEFINE s == Cursor(n)
           item == Item(inst, s, n, next[n], t, LastExit(n))
<1>1. /\ n \in DOMAIN orders /\ n \in Robots /\ next[n] \in Nat
      /\ s = orders[n][next[n] + 1] /\ s \notin DOMAIN plan
      /\ inst' = inst /\ orders' = orders /\ next' = [next EXCEPT ![n] = @ + 1]
      /\ \A x \in DOMAIN plan : plan'[x] = plan[x]
      /\ plan'[s] = item
  BY DEF Moved
<1>2. next \in [DOMAIN orders -> Nat] /\ Agrees
  BY DEF Facts
<1> HIDE DEF item
<1>3. LastEnd(n)' = item.end /\ LastExit(n)' = item.exit
  <2>1. next'[n] = next[n] + 1 /\ next'[n] # 0
    BY <1>1, <1>2
  <2>2. orders'[n][next'[n]] = s
    BY <1>1, <2>1
  <2>3. QED  BY <1>1, <2>1, <2>2 DEF LastEnd, LastExit
<1>4. ASSUME NEW m \in DOMAIN orders, m # n
      PROVE  LastEnd(m)' = LastEnd(m) /\ LastExit(m)' = LastExit(m) /\ next'[m] = next[m]
  <2>1. next'[m] = next[m] /\ next[m] \in Nat
    BY <1>1, <1>2, <1>4
  <2>2. next[m] # 0 => orders[m][next[m]] \in DOMAIN plan
    <3>1. next[m] # 0 => next[m] \in 1 .. next[m]
      BY <2>1
    <3>2. QED  BY <3>1, <1>2 DEF Agrees
  <2>3. QED  BY <1>1, <2>1, <2>2 DEF LastEnd, LastExit
<1>5. Ends' = [Ends EXCEPT ![n] = item.end]
  BY <1>1, <1>3, <1>4 DEF Ends
<1>6. Exits' = [Exits EXCEPT ![n] = item.exit]
  BY <1>1, <1>3, <1>4 DEF Exits
<1>7. Count' = [Count EXCEPT ![n] = @ + 1]
  BY <1>1, <1>2, <1>4 DEF Count
<1>8. QED  BY <1>5, <1>6, <1>7 DEF item

LEMMA MovedFacts ==
  ASSUME Facts, verdict = "running", NEW n, NEW t, Moved(n, t)
  PROVE  Facts'
<1> DEFINE s == Cursor(n)
<1>1. /\ n \in DOMAIN orders /\ next[n] \in Nat /\ next[n] + 1 <= Len(orders[n])
      /\ s = orders[n][next[n] + 1]
      /\ s \in Segments /\ s \notin DOMAIN plan
      /\ inst' = inst /\ orders' = orders /\ verdict' = verdict /\ blamed' = blamed
      /\ next' = [next EXCEPT ![n] = @ + 1]
      /\ DOMAIN plan' = DOMAIN plan \cup {s}
      /\ \A x \in DOMAIN plan : plan'[x] = plan[x]
      /\ plan'[s].robot = n /\ plan'[s].index = next[n]
  BY DEF Moved, Item
<1>2. /\ next \in [DOMAIN orders -> Nat] /\ Agrees
      /\ \A m \in DOMAIN orders : next[m] <= Len(orders[m])
  BY DEF Facts
<1> HIDE DEF s
<1>3. next'[n] = next[n] + 1 /\ \A m \in DOMAIN orders : m # n => next'[m] = next[m]
  BY <1>1, <1>2
<1>4. \A x \in DOMAIN plan' : \E m \in DOMAIN orders : \E k \in 1 .. next'[m] : orders[m][k] = x
  <2> SUFFICES ASSUME NEW x \in DOMAIN plan'
               PROVE  \E m \in DOMAIN orders : \E k \in 1 .. next'[m] : orders[m][k] = x
    OBVIOUS
  <2>1. CASE x = s
    <3>1. next[n] + 1 \in 1 .. next'[n] /\ orders[n][next[n] + 1] = x
      BY <2>1, <1>1, <1>3
    <3>2. QED  BY <3>1, <1>1
  <2>2. CASE x \in DOMAIN plan
    <3>1. PICK m \in DOMAIN orders : \E k \in 1 .. next[m] : orders[m][k] = x
      BY <2>2, <1>2 DEF Agrees
    <3>2. 1 .. next[m] \subseteq 1 .. next'[m]
      BY <1>1, <1>2, <1>3
    <3>3. QED  BY <3>1, <3>2
  <2>3. QED  BY <2>1, <2>2, <1>1
<1>5. ASSUME NEW m \in DOMAIN orders, NEW k \in 1 .. next'[m]
      PROVE  /\ orders[m][k] \in DOMAIN plan'
             /\ plan'[orders[m][k]].robot = m /\ plan'[orders[m][k]].index = k - 1
  <2>1. CASE k \in 1 .. next[m]
    <3>1. /\ orders[m][k] \in DOMAIN plan
          /\ plan[orders[m][k]].robot = m /\ plan[orders[m][k]].index = k - 1
      BY <2>1, <1>2 DEF Agrees
    <3>2. QED  BY <3>1, <1>1
  <2>2. CASE k \notin 1 .. next[m]
    <3>1. m = n /\ k = next[n] + 1
      BY <2>2, <1>1, <1>2, <1>3
    <3>2. orders[m][k] = s /\ k - 1 = next[n]
      BY <3>1, <1>1
    <3>3. QED  BY <3>1, <3>2, <1>1
  <2>3. QED  BY <2>1, <2>2
<1>6. Agrees'
  BY <1>1, <1>4, <1>5 DEF Agrees
<1>7. next' \in [DOMAIN orders' -> Nat] /\ \A m \in DOMAIN orders' : next'[m] <= Len(orders'[m])
  BY <1>1, <1>2, <1>3
<1>8. DOMAIN plan' \subseteq Segments
  BY <1>1 DEF Facts
<1>9. QED  BY <1>1, <1>6, <1>7, <1>8 DEF Facts, Covers

\* A dispatch of the head of n moves it, and is an edge of the tree.
LEMMA HeadMoves ==
  ASSUME Facts, TreeInv, NEW n \in DOMAIN orders, DispatchHead(n)
  PROVE  (\E t \in Nat : Moved(n, t) /\ Chosen(n, t)) /\ Edge(Cursor(n))
<1> DEFINE s == Cursor(n)
           item(t) == Item(inst, s, n, next[n], t, LastExit(n))
<1>1. verdict = "running" /\ n \in Heads
  BY DEF DispatchHead
<1>2. Covers(orders) /\ DOMAIN orders \subseteq Robots
  BY <1>1 DEF Facts
<1>3. /\ inst \in Instances /\ next \in [DOMAIN orders -> Nat] /\ orders[n] \in Seq(Nat)
      /\ next[n] <= Len(orders[n])
  BY DEF Facts
<1>4. next[n] < Len(orders[n]) /\ Ready(inst, plan, s)
  BY <1>1 DEF Heads, Unfinished
<1>5. next[n] \in Nat /\ next[n] + 1 \in DOMAIN orders[n]
  BY <1>3, <1>4
<1>6. s \in Segments /\ Assigned[s] = n /\ n \in Robots
  BY <1>2, <1>5, AssignedIs DEF Cursor
<1>7. Ends[n] = LastEnd(n) /\ Exits[n] = LastExit(n) /\ Count[n] = next[n]
  BY <1>6 DEF Ends, Exits, Count
<1>8. PICK t \in HeadStarts(n) :
        /\ Chosen(n, t)
        /\ InTime(inst, s, n, t + inst.dur[s])
        /\ plan' = Extend(plan, s, item(t))
  BY DEF DispatchHead
<1>9. /\ t \in StartChoices(inst, plan, s, n, Ends[n], Exits[n])
      /\ EarliestOn(inst, plan, s, n, Ends[n], Exits[n], t)
  BY <1>7, <1>8 DEF HeadStarts, Chosen, EarliestHead
<1>10. s \notin DOMAIN plan /\ Deps(inst, s) \subseteq DOMAIN plan
  BY <1>4 DEF Ready
<1>11. t \in Nat
  <2>1. Ends[n] \in Nat /\ Exits[n] \in Points
    BY <1>6, Types
  <2>2. QED  BY <1>3, <1>6, <1>9, <1>10, <2>1, Types, NaturalStart
<1>12. /\ inst' = inst /\ orders' = orders /\ verdict' = verdict /\ blamed' = blamed
       /\ next' = [next EXCEPT ![n] = @ + 1]
  BY DEF DispatchHead, args
<1>13. Moved(n, t)
  <2>1. /\ DOMAIN plan' = DOMAIN plan \cup {s} /\ plan'[s] = item(t)
        /\ \A x \in DOMAIN plan : plan'[x] = plan[x]
    BY <1>8, <1>10 DEF Extend
  <2>2. next[n] + 1 <= Len(orders[n])
    BY <1>3, <1>4, <1>5
  <2>3. QED  BY <1>5, <1>6, <1>10, <1>12, <2>1, <2>2 DEF Moved, Cursor
<1>14. Assigned' = Assigned
  BY <1>12 DEF Assigned, Names
<1>15. Edge(s)
  <2>1. /\ Ends' = [Ends EXCEPT ![n] = item(t).end]
        /\ Exits' = [Exits EXCEPT ![n] = item(t).exit]
        /\ Count' = [Count EXCEPT ![n] = @ + 1]
    BY <1>2, <1>13, MovedTotals
  <2>2. Item(inst, s, n, Count[n], t, Exits[n]) = item(t)
    BY <1>7
  <2>3. QED  BY <1>4, <1>6, <1>8, <1>9, <1>12, <1>14, <2>1, <2>2 DEF Edge
<1>16. QED  BY <1>8, <1>11, <1>13, <1>15

LEMMA StepTree ==
  ASSUME Facts, TreeInv, [Next]_vars
  PROVE  /\ (\E s \in Segments : Edge(s)) \/ UNCHANGED tree
         /\ Facts'
<1>1. ASSUME NEW n \in DOMAIN orders, DispatchHead(n)
      PROVE  (\E s \in Segments : Edge(s)) /\ Facts'
  <2>1. PICK t \in Nat : Moved(n, t)
    BY <1>1, HeadMoves
  <2>2. Facts'
    BY <1>1, <2>1, MovedFacts DEF DispatchHead
  <2>3. Edge(Cursor(n)) /\ Cursor(n) \in Segments
    BY <1>1, <2>1, HeadMoves DEF Moved
  <2>4. QED  BY <2>2, <2>3
<1>2. ASSUME NEW v, NEW B, End(v, B)
      PROVE  /\ UNCHANGED <<inst, orders, plan, next, tree>>
             /\ Heads' = Heads /\ Agrees' /\ (Covers(orders) => Covers(orders)')
             /\ verdict' = v /\ blamed' = B
  <2>1. UNCHANGED <<inst, orders, plan, next>> /\ verdict' = v /\ blamed' = B
    BY <1>2 DEF End, args
  <2>2. UNCHANGED tree
    BY <2>1 DEF tree, Assigned, Names, Ends, Exits, Count, LastEnd, LastExit
  <2>3. Heads' = Heads
    BY <2>1 DEF Heads, Unfinished, Cursor
  <2>4. Agrees'
    BY <2>1 DEF Facts, Agrees
  <2>5. Covers(orders) => Covers(orders)'
    BY <2>1 DEF Covers
  <2>6. QED  BY <2>1, <2>2, <2>3, <2>4, <2>5
<1>3. CASE RejectCoverage
  BY <1>3, <1>2 DEF RejectCoverage, Facts, Failures
<1>4. CASE RejectRobot
  BY <1>4, <1>2 DEF RejectRobot, Facts, Failures
<1>5. CASE Admit
  BY <1>5, <1>2 DEF Admit, Facts
<1>6. ASSUME NEW n \in DOMAIN orders, MissWindow(n)
      PROVE  UNCHANGED tree /\ Facts'
  <2>1. End("WINDOW", {Cursor(n)}) /\ n \in Heads /\ verdict = "running"
    BY <1>6 DEF MissWindow
  <2>2. Cursor(n) \in Segments
    BY <2>1 DEF Heads, Ready
  <2>3. QED  BY <2>1, <2>2, <1>2 DEF Facts, Failures
<1>7. CASE Deadlock
  <2>1. Segments \ DOMAIN plan # {}
    <3>1. DOMAIN plan \subseteq Segments
      BY DEF Facts
    <3>2. DOMAIN plan # Segments
      BY <1>7 DEF Deadlock, Complete
    <3>3. QED  BY <3>1, <3>2
  <2>2. End("DEADLOCK", Segments \ DOMAIN plan) /\ Heads = {} /\ verdict = "running"
    BY <1>7 DEF Deadlock
  <2>3. QED  BY <2>1, <2>2, <1>2 DEF Facts, Failures
<1>8. CASE Finish
  BY <1>8, <1>2 DEF Finish, Facts, Complete
<1>9. CASE UNCHANGED vars
  <2>1. UNCHANGED <<inst, orders, plan, next, verdict, blamed>>
    BY <1>9 DEF vars
  <2>2. UNCHANGED tree
    BY <2>1 DEF tree, Assigned, Names, Ends, Exits, Count, LastEnd, LastExit
  <2>3. Heads' = Heads /\ (Agrees <=> Agrees')
    BY <2>1 DEF Heads, Unfinished, Cursor, Agrees
  <2>4. QED  BY <2>1, <2>2, <2>3 DEF Facts, Covers, Complete
<1>10. QED
  BY <1>1, <1>3, <1>4, <1>5, <1>6, <1>7, <1>8, <1>9 DEF Next

Inv == TreeInv /\ Facts

LEMMA InitInv == Init => Inv
BY InitTree DEF Inv

LEMMA StepInv == Inv /\ [Next]_vars => Inv'
<1> SUFFICES ASSUME Inv, [Next]_vars PROVE Inv'
  OBVIOUS
<1>1. ((\E s \in Segments : Edge(s)) \/ UNCHANGED tree) /\ Facts'
  BY StepTree DEF Inv
<1>2. CASE UNCHANGED tree
  BY <1>1, <1>2 DEF tree, Inv, TreeInv, Node
<1>3. QED  BY <1>1, <1>2, EdgeSound DEF Inv

LEMMA Invariance == Spec => []Inv
BY InitInv, StepInv, PTL DEF Spec
-----------------------------------------------------------------------------
\* Every run of the scheduler is a path of the dispatch tree.
THEOREM RefinesTreeHolds == Spec => RefinesTree
<1>1. Init => Tree!Init
  BY InitTree
<1>2. Inv /\ [Next]_vars => [Tree!Next]_Tree!vars
  <2> SUFFICES ASSUME Inv, [Next]_vars PROVE [Tree!Next]_Tree!vars
    OBVIOUS
  <2>1. (\E s \in Segments : Edge(s)) \/ UNCHANGED tree
    BY StepTree DEF Inv
  <2>2. QED  BY <2>1, EdgeIsTree DEF tree, Tree!Next, Tree!vars
<1>3. QED  BY <1>1, <1>2, Invariance, PTL DEF Spec, RefinesTree, Tree!Spec

\* The variables keep their types.
THEOREM TypeCorrect == Spec => []TypeOK
<1>1. Inv => TypeOK
  <2> SUFFICES ASSUME Inv PROVE TypeOK
    OBVIOUS
  <2>1. inst \in InstanceType
    BY InstancesAssumption DEF Inv, Facts
  <2>2. QED  BY <2>1, Types DEF Inv, Facts, TypeOK
<1>2. QED  BY <1>1, Invariance, PTL

\* A position is filled exactly when next_index has passed it.
LEMMA Positions ==
  ASSUME Facts, Covers(orders), NEW n \in DOMAIN orders, NEW k \in DOMAIN orders[n],
         orders[n][k] \in DOMAIN plan
  PROVE  /\ k \in 1 .. next[n]
         /\ plan[orders[n][k]].robot = n /\ plan[orders[n][k]].index = k - 1
<1>1. PICK m \in DOMAIN orders : \E j \in 1 .. next[m] : orders[m][j] = orders[n][k]
  BY DEF Facts, Agrees
<1>2. PICK j \in 1 .. next[m] : orders[m][j] = orders[n][k]
  BY <1>1
<1>3. j \in DOMAIN orders[m]
  <2>1. orders[m] \in Seq(Nat) /\ next[m] \in Nat /\ next[m] <= Len(orders[m])
    BY DEF Facts
  <2>2. QED  BY <2>1, <1>2
<1>4. m = n /\ j = k
  BY <1>2, <1>3 DEF Covers
<1>5. QED  BY <1>2, <1>4 DEF Facts, Agrees

\* A feasible plan covers the segments as ordered and passes the verifier.
THEOREM FeasibleVerifiesHolds == Spec => []FeasibleVerifies
<1>1. Inv => FeasibleVerifies
  <2> SUFFICES ASSUME Inv, verdict = "feasible"
               PROVE  /\ SegmentCoverage(plan)
                      /\ TimingClean(inst, plan)
                      /\ \A n \in DOMAIN orders : \A k \in DOMAIN orders[n] :
                           plan[orders[n][k]].robot = n /\ plan[orders[n][k]].index = k - 1
    BY DEF FeasibleVerifies
  <2>1. Facts /\ Covers(orders) /\ Complete(plan)
    BY DEF Inv, Facts
  <2>2. \A n \in DOMAIN orders : \A k \in DOMAIN orders[n] : orders[n][k] \in DOMAIN plan
    BY <2>1 DEF Covers, Complete
  <2>3. TimingClean(inst, plan)
    BY SoundClean, NodeFields DEF Inv, TreeInv
  <2>4. QED  BY <2>1, <2>2, <2>3, Positions DEF SegmentCoverage, Complete
<1>2. QED  BY <1>1, Invariance, PTL

\* Each blamed segment waits for another blamed one.
LEMMA BlamedWait ==
  ASSUME Inv, verdict = "DEADLOCK", NEW s \in blamed
  PROVE  Waits[s] \cap blamed # {}
<1>1. /\ blamed = Segments \ DOMAIN plan /\ Heads = {}
      /\ Facts /\ Covers(orders) /\ inst \in Instances
  BY DEF Inv, Facts
<1>2. PICK n \in DOMAIN orders : \E k \in DOMAIN orders[n] : orders[n][k] = s
  BY <1>1 DEF Covers
<1>3. PICK k \in DOMAIN orders[n] : orders[n][k] = s
  BY <1>2
<1>4. /\ orders[n] \in Seq(Nat) /\ next[n] \in Nat /\ next[n] <= Len(orders[n])
      /\ k \in 1 .. Len(orders[n])
  BY <1>1, <1>3 DEF Facts
<1>5. k \notin 1 .. next[n]
  BY <1>1, <1>3 DEF Facts, Agrees
<1>6. CASE k = next[n] + 1
  <2>1. Unfinished(n) /\ Cursor(n) = s
    BY <1>3, <1>4, <1>6 DEF Unfinished, Cursor
  <2>2. ~ Ready(inst, plan, s) /\ s \in Segments \ DOMAIN plan
    BY <2>1, <1>1 DEF Heads
  <2>3. PICK d \in Deps(inst, s) : d \notin DOMAIN plan
    BY <2>2 DEF Ready
  <2>4. d \in Segments
    BY <2>2, <2>3, <1>1, DepsTypes
  <2>5. d \in Waits[s]
    BY <2>2, <2>3 DEF Waits
  <2>6. QED  BY <2>3, <2>4, <2>5, <1>1
<1>7. CASE k # next[n] + 1
  <2> DEFINE x == orders[n][k - 1]
  <2>1. k - 1 \in DOMAIN orders[n] /\ k \in 2 .. Len(orders[n]) /\ k - 1 \notin 1 .. next[n]
    BY <1>4, <1>5, <1>7
  <2>2. x \in Segments
    BY <2>1, <1>1 DEF Covers
  <2>3. x \notin DOMAIN plan
    BY <2>1, <1>1, Positions
  <2>4. x \in Waits[s]
    BY <2>1, <2>2, <1>1, <1>3 DEF Waits
  <2>5. QED  BY <2>2, <2>3, <2>4, <1>1
<1>8. QED  BY <1>6, <1>7

\* In a finished plan, what a segment waits for ends before it starts.
LEMMA WaitsBefore ==
  ASSUME Inv, verdict = "feasible", NEW s \in Segments, NEW d \in Waits[s] \cap Segments
  PROVE  plan[d].end <= plan[s].start
<1>1. Facts /\ Covers(orders) /\ DOMAIN plan = Segments
  BY DEF Inv, Facts, Complete
<1>2. CASE d \in Deps(inst, s)
  <2>1. DepsSound(inst, Node)
    BY DEF Inv, TreeInv, Sound
  <2>2. QED  BY <1>1, <1>2, <2>1, NodeFields DEF DepsSound
<1>3. CASE d \notin Deps(inst, s)
  <2>1. PICK n \in DOMAIN orders :
          \E k \in 2 .. Len(orders[n]) : orders[n][k] = s /\ orders[n][k - 1] = d
    BY <1>3 DEF Waits
  <2>2. PICK k \in 2 .. Len(orders[n]) : orders[n][k] = s /\ orders[n][k - 1] = d
    BY <2>1
  <2>3. k \in DOMAIN orders[n] /\ k - 1 \in DOMAIN orders[n]
    <3>1. orders[n] \in Seq(Nat)
      BY <1>1 DEF Facts
    <3>2. QED  BY <3>1, <2>2
  <2>4. plan[s].robot = n /\ plan[s].index = k - 1
    BY <2>2, <2>3, <1>1, Positions
  <2>5. plan[d].robot = n /\ plan[d].index = (k - 1) - 1
    BY <2>2, <2>3, <1>1, Positions
  <2>6. plan[d].index < plan[s].index
    BY <2>2, <2>4, <2>5
  <2>7. OrderSound(Node)
    BY DEF Inv, TreeInv, Sound
  <2>8. QED  BY <2>4, <2>5, <2>6, <2>7, <1>1, NodeFields DEF OrderSound
<1>4. QED  BY <1>2, <1>3

\* A deadlock is a circular wait, and a circular wait rules out a feasible plan.
THEOREM DeadlockExactHolds == Spec => []DeadlockExact
<1>1. Inv => DeadlockExact
  <2> SUFFICES ASSUME Inv PROVE DeadlockExact
    OBVIOUS
  <2>1. ASSUME verdict = "DEADLOCK" PROVE Circular(blamed, Waits)
    BY <2>1, BlamedWait DEF Circular, Inv, Facts
  <2>2. ASSUME verdict = "feasible", NEW S \in SUBSET Segments, Circular(S, Waits)
        PROVE  FALSE
    <3>1. S # {} /\ \A s \in S : s \in DOMAIN plan
      BY <2>2 DEF Inv, Facts, Complete, Circular
    <3>2. \A s \in S : plan[s].start \in Nat /\ plan[s].end \in Nat
      BY <3>1, Types DEF Inv
    <3> DEFINE starts == {plan[s].start : s \in S}
    <3>3. starts \in SUBSET Nat /\ starts # {}
      BY <3>1, <3>2
    <3>4. PICK m \in starts : \A n \in starts : m <= n
      BY <3>3, LeastNatural
    <3>5. PICK s \in S : \A x \in S : plan[s].start <= plan[x].start
      BY <3>4
    <3>6. PICK d \in S : d \in Waits[s]
      BY <2>2 DEF Circular
    <3>7. plan[d].end <= plan[s].start
      BY <2>2, <3>6, WaitsBefore
    <3>8. plan[d].end = plan[d].start + inst.dur[d]
      <4>1. ItemsSound(inst, Assigned, Node)
        BY DEF Inv, TreeInv, Sound
      <4>2. QED  BY <3>1, <4>1, NodeFields DEF ItemsSound
    <3>9. inst.dur[d] \in Nat /\ inst.dur[d] > 0
      BY InstanceTypes DEF Inv, Facts
    <3>10. plan[s].start <= plan[d].start
      BY <3>5
    <3>11. QED  BY <3>2, <3>7, <3>8, <3>9, <3>10
  <2>3. QED  BY <2>1, <2>2 DEF DeadlockExact
<1>2. QED  BY <1>1, Invariance, PTL

-----------------------------------------------------------------------------
\* No head can start before an interval that is already reserved.
Ordered ==
  verdict = "running" =>
    \A n \in Heads : \A t \in HeadStarts(n) :
      EarliestHead(n, t) => \A x \in DOMAIN plan : plan[x].start <= t

HeadsTyped ==
  verdict = "running" => \A n \in Heads :
    /\ n \in DOMAIN orders /\ n \in Robots /\ Cursor(n) \in Segments \ DOMAIN plan
    /\ Deps(inst, Cursor(n)) \subseteq DOMAIN plan
    /\ LastEnd(n) \in Nat /\ LastExit(n) \in Points
    /\ HeadStarts(n) \subseteq Nat

LEMMA HeadTypes == Inv => HeadsTyped
<1> SUFFICES ASSUME Inv, verdict = "running", NEW n \in Heads
             PROVE  /\ n \in DOMAIN orders /\ n \in Robots
                    /\ Cursor(n) \in Segments \ DOMAIN plan
                    /\ Deps(inst, Cursor(n)) \subseteq DOMAIN plan
                    /\ LastEnd(n) \in Nat /\ LastExit(n) \in Points
                    /\ HeadStarts(n) \subseteq Nat
  BY DEF HeadsTyped
<1>1. n \in DOMAIN orders /\ n \in Robots /\ Ready(inst, plan, Cursor(n))
  BY DEF Heads, Facts, Inv
<1>2. Cursor(n) \in Segments \ DOMAIN plan /\ Deps(inst, Cursor(n)) \subseteq DOMAIN plan
  BY <1>1 DEF Ready
<1>3. Ends[n] \in Nat /\ Exits[n] \in Points
  BY <1>1, Types DEF Inv
<1>4. LastEnd(n) \in Nat /\ LastExit(n) \in Points
  BY <1>1, <1>3 DEF Ends, Exits
<1>5. inst \in Instances /\ \A x \in DOMAIN plan : plan[x].end \in Nat
  BY Types DEF Facts, Inv
<1>6. HeadStarts(n) \subseteq Nat
  BY <1>1, <1>2, <1>4, <1>5, NaturalStart DEF HeadStarts
<1>7. QED  BY <1>1, <1>2, <1>4, <1>6

LEMMA HeadTypesNext == Inv' => HeadsTyped'
BY HeadTypes, PTL

\* The chosen start is no later than any start open to any head.
LEMMA ChosenFirst ==
  ASSUME Inv, verdict = "running", NEW n \in Heads, NEW t \in Nat, Chosen(n, t),
         NEW m \in Heads, NEW u \in HeadStarts(m),
         Fits(inst, plan, Cursor(m), u),
         \A b \in LowerBounds(inst, plan, Cursor(m), m, LastEnd(m), LastExit(m)) : b <= u
  PROVE  t <= u
<1> DEFINE LB == LowerBounds(inst, plan, Cursor(m), m, LastEnd(m), LastExit(m))
           open(v) == (\A b \in LB : b <= v) /\ Fits(inst, plan, Cursor(m), v)
           S == {v \in HeadStarts(m) : open(v)}
<1>1. S \in SUBSET Nat /\ u \in S
  BY HeadTypes DEF HeadsTyped
<1>2. PICK w \in S : \A v \in S : w <= v
  BY <1>1, LeastNatural
<1>3. EarliestHead(m, w)
  BY <1>2 DEF EarliestHead, EarliestOn, IsEarliest, HeadStarts, StartChoices
<1>4. Beats(Cursor(n), t, Cursor(m), w)
  BY <1>2, <1>3 DEF Chosen
<1>5. t <= w /\ w <= u
  BY <1>1, <1>2, <1>4 DEF Beats
<1>6. QED  BY <1>1, <1>2, <1>5

\* After a dispatch at t no head can start before t.
LEMMA LaterHeads ==
  ASSUME Inv, Inv', verdict = "running",
         NEW n \in Heads, NEW t \in Nat, Moved(n, t), Chosen(n, t),
         NEW m \in Heads', NEW u \in HeadStarts(m)', EarliestHead(m, u)',
         NEW c, c = Cursor(m)'
  PROVE  t <= u
<1> DEFINE s == Cursor(n)
           LB == LowerBounds(inst, plan, c, m, LastEnd(m), LastExit(m))
           LBnew == LowerBounds(inst', plan', c, m, LastEnd(m)', LastExit(m)')
<1>1. /\ n \in DOMAIN orders /\ next[n] \in Nat
      /\ s \in Segments /\ s \notin DOMAIN plan
      /\ inst' = inst /\ orders' = orders /\ verdict' = verdict
      /\ next' = [next EXCEPT ![n] = @ + 1] /\ s = orders[n][next[n] + 1]
      /\ DOMAIN plan' = DOMAIN plan \cup {s}
      /\ \A x \in DOMAIN plan : plan'[x] = plan[x]
      /\ plan'[s].start = t /\ plan'[s].end = t + inst.dur[s]
  BY DEF Moved, Item
<1>2. inst \in Instances /\ next \in [DOMAIN orders -> Nat] /\ Agrees
  BY DEF Inv, Facts
<1>3. inst.dur[s] \in Nat /\ inst.dur[s] > 0
  BY <1>1, <1>2, InstanceTypes
<1>4. /\ m \in DOMAIN orders /\ m \in Robots /\ c \in Segments \ DOMAIN plan'
      /\ Deps(inst, c) \subseteq DOMAIN plan'
      /\ LastEnd(m)' \in Nat /\ LastExit(m)' \in Points /\ u \in Nat
  <2>1. HeadsTyped'
    BY HeadTypesNext
  <2>2. /\ m \in DOMAIN orders' /\ m \in Robots /\ Cursor(m)' \in Segments \ DOMAIN plan'
        /\ Deps(inst, Cursor(m))' \subseteq DOMAIN plan'
        /\ LastEnd(m)' \in Nat /\ LastExit(m)' \in Points
        /\ u \in Nat
    BY <2>1, <1>1 DEF HeadsTyped
  <2>3. Deps(inst, Cursor(m))' = Deps(inst', Cursor(m)')
    BY DEF Deps, ParentPrevious, SameCurve
  <2>4. QED  BY <2>2, <2>3, <1>1
<1>5. /\ \A b \in LBnew : b <= u
      /\ Fits(inst, plan', c, u)
      /\ u \in LBnew \cup {plan'[x].end : x \in DOMAIN plan'}
  <2>1. LowerBounds(inst, plan, Cursor(m), m, LastEnd(m), LastExit(m))' = LBnew
    BY DEF LowerBounds, Deps, ParentPrevious, SameCurve, Approach, Entry, RunsForward
  <2>2. Fits(inst, plan, Cursor(m), u)' <=> Fits(inst', plan', c, u)
    BY DEF Fits, Overloaded, EventTimes, ActiveAt, Holders
  <2>3. EarliestOn(inst, plan, Cursor(m), m, LastEnd(m), LastExit(m), u)'
    BY DEF EarliestHead
  <2>4. QED  BY <2>1, <2>2, <2>3, <1>1 DEF EarliestOn, IsEarliest
<1>6. /\ LastEnd(m)' + Approach(inst, m, c, LastExit(m)') \in LBnew
      /\ \A d \in Deps(inst, c) : plan'[d].end \in LBnew
  BY <1>1 DEF LowerBounds, Deps, ParentPrevious, SameCurve, Approach, Entry, RunsForward
<1>7. t <= plan'[s].end
  BY <1>1, <1>3
<1>8. CASE m = n
  <2>1. LastEnd(n)' = plan'[s].end
    BY <1>1, <1>2 DEF LastEnd
  <2>2. Approach(inst, m, c, LastExit(m)') \in Nat
    BY <1>2, <1>4, MotionTypes
  <2>3. LastEnd(m)' + Approach(inst, m, c, LastExit(m)') <= u
    BY <1>5, <1>6
  <2>4. QED  BY <2>1, <2>2, <2>3, <1>1, <1>3, <1>4, <1>8
<1>9. CASE s \in Deps(inst, c)
  <2>1. plan'[s].end <= u
    BY <1>5, <1>6, <1>9
  <2>2. QED  BY <2>1, <1>1, <1>3, <1>4
<1>10. CASE m # n /\ s \notin Deps(inst, c)
  <2>1. next'[m] = next[m] /\ next[m] \in Nat
    BY <1>1, <1>2, <1>4, <1>10
  <2>2. c = Cursor(m)
    BY <2>1, <1>1 DEF Cursor
  <2>3. LastEnd(m)' = LastEnd(m) /\ LastExit(m)' = LastExit(m)
    <3>1. next[m] # 0 => orders[m][next[m]] \in DOMAIN plan
      BY <2>1, <1>2, <1>4 DEF Agrees
    <3>2. QED  BY <3>1, <2>1, <1>1 DEF LastEnd, LastExit
  <2>4. m \in Heads
    <3>1. Unfinished(m)' <=> Unfinished(m)
      BY <2>1, <1>1 DEF Unfinished
    <3>2. Ready(inst, plan, c)
      BY <1>1, <1>4, <1>10 DEF Ready
    <3>3. Unfinished(m)
      BY <3>1 DEF Heads
    <3>4. QED  BY <3>2, <3>3, <2>2, <1>4 DEF Heads
  <2>5. LBnew = LB
    <3>1. \A d \in Deps(inst, c) : plan'[d].end = plan[d].end
      BY <1>1, <1>4, <1>10
    <3>2. QED
      BY <3>1, <2>3, <1>1
      DEF LowerBounds, Deps, ParentPrevious, SameCurve, Approach, Entry, RunsForward
  <2>6. Fits(inst, plan, c, u)
    <3>1. Spanned(plan')
      <4>1. DOMAIN plan' \subseteq Segments
        BY DEF Inv, Facts
      <4>2. \A x \in DOMAIN plan' : plan'[x].start \in Nat /\ plan'[x].end \in Nat
        <5>1. \A x \in DOMAIN plan : plan[x].start \in Nat /\ plan[x].end \in Nat
          BY Types DEF Inv
        <5>2. QED  BY <5>1, <1>1, <1>3
      <4>3. QED  BY <4>1, <4>2 DEF Spanned
    <3>2. QED  BY <3>1, <1>1, <1>2, <1>4, <1>5, FitsShrinks
  <2>7. CASE u \in HeadStarts(m)
    <3>1. n \in Heads
      OBVIOUS
    <3>2. \A b \in LowerBounds(inst, plan, Cursor(m), m, LastEnd(m), LastExit(m)) : b <= u
      BY <2>2, <2>5, <1>5
    <3>3. Fits(inst, plan, Cursor(m), u)
      BY <2>2, <2>6
    <3>4. QED  BY <3>2, <3>3, <2>4, <2>7, ChosenFirst
  <2>8. CASE u \notin HeadStarts(m)
    <3>1. u \notin LB /\ u \notin {plan[x].end : x \in DOMAIN plan}
      BY <2>2, <2>8 DEF HeadStarts, StartChoices
    <3>2. u = plan'[s].end
      BY <3>1, <2>5, <1>1, <1>5
    <3>3. QED  BY <3>2, <1>7
  <2>9. QED  BY <2>7, <2>8
<1>11. QED  BY <1>8, <1>9, <1>10

LEMMA StepOrdered == Inv /\ Inv' /\ Ordered /\ [Next]_vars => Ordered'
<1> SUFFICES ASSUME Inv, Inv', Ordered, [Next]_vars, verdict' = "running",
                    NEW m \in Heads', NEW u \in HeadStarts(m)', EarliestHead(m, u)',
                    NEW x \in DOMAIN plan'
             PROVE  plan'[x].start <= u
  BY DEF Ordered
<1>1. ASSUME NEW n \in DOMAIN orders, DispatchHead(n)
      PROVE  plan'[x].start <= u
  <2>1. verdict = "running" /\ n \in Heads
    BY <1>1 DEF DispatchHead
  <2>2. PICK t \in Nat : Moved(n, t) /\ Chosen(n, t)
    BY <1>1, HeadMoves DEF Inv
  <2>3. PICK c : c = Cursor(m)'
    OBVIOUS
  <2>4. t <= u
    BY <2>1, <2>2, <2>3, LaterHeads
  <2>5. u \in Nat
    <3>1. HeadsTyped'
      BY HeadTypesNext
    <3>2. QED  BY <3>1 DEF HeadsTyped
  <2>6. CASE x \in DOMAIN plan
    <3>1. plan'[x] = plan[x] /\ plan[x].start \in Nat
      BY <2>2, <2>6, Types DEF Moved, Inv
    <3>2. t \in HeadStarts(n) /\ EarliestHead(n, t)
      BY <2>2 DEF Chosen, EarliestHead, EarliestOn, IsEarliest, HeadStarts, StartChoices
    <3>3. plan[x].start <= t
      BY <2>1, <2>6, <3>2 DEF Ordered
    <3>4. QED  BY <3>1, <3>3, <2>4, <2>5
  <2>7. CASE x \notin DOMAIN plan
    <3>1. x = Cursor(n) /\ plan'[x].start = t
      BY <2>2, <2>7 DEF Moved, Item
    <3>2. QED  BY <3>1, <2>4
  <2>8. QED  BY <2>6, <2>7
<1>2. ASSUME NEW v, NEW B, End(v, B), v # "running"
      PROVE  FALSE
  BY <1>2 DEF End
<1>3. CASE RejectCoverage \/ RejectRobot \/ Deadlock \/ Finish
  BY <1>3, <1>2 DEF RejectCoverage, RejectRobot, Deadlock, Finish
<1>4. ASSUME NEW n \in DOMAIN orders, MissWindow(n)
      PROVE  FALSE
  BY <1>4, <1>2 DEF MissWindow
<1>5. CASE Admit
  BY <1>5 DEF Admit, End, Inv, Facts
<1>6. CASE UNCHANGED vars
  <2>1. UNCHANGED <<inst, orders, plan, next, verdict>>
    BY <1>6 DEF vars
  <2>2. Heads' = Heads
    BY <2>1 DEF Heads, Unfinished, Cursor
  <2>3. HeadStarts(m)' = HeadStarts(m)
    BY <2>1 DEF HeadStarts, Cursor, LastEnd, LastExit
  <2>4. EarliestHead(m, u)' <=> EarliestHead(m, u)
    BY <2>1 DEF EarliestHead, Cursor, LastEnd, LastExit
  <2>5. QED  BY <2>1, <2>2, <2>3, <2>4 DEF Ordered
<1>7. QED  BY <1>1, <1>3, <1>4, <1>5, <1>6 DEF Next

\* Dispatches are made in order of start time.
THEOREM DispatchedInTimeOrderHolds == Spec => DispatchedInTimeOrder
<1>1. Init => Ordered
  BY DEF Init, Ordered
<1>2. Inv /\ Ordered /\ [Next]_vars =>
        [\A s \in DOMAIN plan' \ DOMAIN plan : \A x \in DOMAIN plan :
           plan[x].start <= plan'[s].start]_vars
  <2> SUFFICES ASSUME Inv, Ordered, Next,
                      NEW s \in DOMAIN plan' \ DOMAIN plan, NEW x \in DOMAIN plan
               PROVE  plan[x].start <= plan'[s].start
    OBVIOUS
  <2>1. ASSUME NEW v, NEW B, End(v, B)
        PROVE  FALSE
    BY <2>1 DEF End
  <2>2. PICK n \in DOMAIN orders : DispatchHead(n)
    BY <2>1 DEF Next, RejectCoverage, RejectRobot, Admit, MissWindow, Deadlock, Finish
  <2>3. PICK t \in Nat : Moved(n, t) /\ Chosen(n, t)
    BY <2>2, HeadMoves DEF Inv
  <2>4. verdict = "running" /\ n \in Heads
    BY <2>2 DEF DispatchHead
  <2>5. t \in HeadStarts(n) /\ EarliestHead(n, t)
    BY <2>3 DEF Chosen, EarliestHead, EarliestOn, IsEarliest, HeadStarts, StartChoices
  <2>6. plan[x].start <= t
    BY <2>4, <2>5 DEF Ordered
  <2>7. plan'[s].start = t
    BY <2>3 DEF Moved, Item
  <2>8. QED  BY <2>6, <2>7
<1>3. Inv /\ Inv' /\ Ordered /\ [Next]_vars => Ordered'
  BY StepOrdered
<1>4. QED  BY <1>1, <1>2, <1>3, Invariance, PTL DEF Spec, DispatchedInTimeOrder
=============================================================================
