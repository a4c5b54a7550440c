-------------------------- MODULE AllocationCallsProofs --------------------------
(***************************************************************************)
(* Proofs about the calls of the allocation package that decide alone.     *)
(* The resource loop returns a start that has room for the whole span, and *)
(* no earlier start would have had.  A repair moves only what it took out. *)
(* The mask of the pointer decoders runs empty only where no sequence of   *)
(* pairs completes the instance, and their blocks never deadlock.  The     *)
(* anytime search returns the best plan completed by its deadline, the     *)
(* repair of IdenticalRepair keeps its books, and the joint reference      *)
(* claims only what its enumeration shows.                                 *)
(***************************************************************************)
EXTENDS AllocationCalls, AllocationLemmas

\* Every start from the bounds up to the candidate has been ruled out.
Searched ==
  /\ cand \in Bounds \cup {plan[x].end : x \in DOMAIN plan}
  /\ \A b \in Bounds : b <= cand
  /\ \A u \in 0 .. cand - 1 :
       (\A b \in Bounds : b <= u) => ~ Fits(inst, plan, seg, u)

IInv ==
  /\ TypeOK
  /\ inst \in Instances
  /\ pc = "enter" => cand = base
  /\ pc = "loop" => Searched
  /\ pc = "done" => Searched /\ Fits(inst, plan, seg, cand)

\* The facts about an instance and a plan that typing and validation give.
LEMMA Arguments ==
  ASSUME IInv
  PROVE  /\ Spanned(plan)
         /\ base \in Nat /\ cand \in Nat
         /\ inst.uses[seg] \subseteq Resources
         /\ \A q \in Resources : inst.free[q] \in Nat /\ inst.cap[q] \in Nat /\ inst.cap[q] >= 1
         /\ inst.dur[seg] \in Nat /\ inst.dur[seg] > 0
         /\ Bounds \subseteq Nat
<1>1. inst \in InstanceType /\ ValidInstance(inst)
  BY InstancesAssumption DEF IInv
<1>2. seg \in Segments
  BY DEF IInv, TypeOK
<1>3. /\ inst.uses[seg] \subseteq Resources
      /\ \A q \in Resources : inst.free[q] \in Nat /\ inst.cap[q] \in Nat /\ inst.cap[q] >= 1
      /\ inst.dur[seg] \in Nat /\ inst.dur[seg] > 0
  BY <1>1, <1>2 DEF InstanceType, ValidInstance
<1>4. Spanned(plan) /\ base \in Nat /\ cand \in Nat
  BY DEF IInv, TypeOK, SpanType, Spanned
<1>5. Bounds \subseteq Nat
  BY <1>3, <1>4 DEF Bounds, Openings
<1>6. QED  BY <1>3, <1>4, <1>5

\* The jump is safe: when a resource is full around the candidate, no start
\* before the first end of the overlapping spans fits.
LEMMA JumpSkipsNothing ==
  ASSUME IInv, NEW q \in inst.uses[seg],
         Overloaded(inst, plan, q, cand, inst.dur[seg]),
         NEW u \in Nat, cand <= u, \A e \in BlockedEnds : u < e
  PROVE  ~ Fits(inst, plan, seg, u)
<1> DEFINE d == inst.dur[seg]
<1>1. /\ Spanned(plan) /\ cand \in Nat /\ d \in Nat /\ d > 0
      /\ q \in Resources /\ inst.cap[q] \in Nat /\ inst.cap[q] >= 1
  BY Arguments
<1>2. PICK e \in EventTimes(inst, plan, q, cand, d) :
        Cardinality(ActiveAt(inst, plan, q, e)) + 1 > inst.cap[q]
  BY DEF Overloaded
<1>3. e \in Nat /\ cand <= e /\ e < cand + d
  BY <1>1 DEF EventTimes, Holders, Spanned
<1>4. ASSUME NEW x \in ActiveAt(inst, plan, q, e)
      PROVE  /\ plan[x].start \in Nat /\ plan[x].end \in Nat
             /\ x \in Holders(inst, plan, q)
             /\ plan[x].start <= e /\ u < plan[x].end
  <2>1. x \in Holders(inst, plan, q) /\ plan[x].start <= e /\ e < plan[x].end
    BY DEF ActiveAt
  <2>2. plan[x].start \in Nat /\ plan[x].end \in Nat
    BY <2>1, <1>1 DEF Holders, Spanned
  <2>3. plan[x].start < cand + d /\ cand < plan[x].end
    BY <2>1, <2>2, <1>1, <1>3
  <2>4. plan[x].end \in BlockedEnds
    BY <2>1, <2>3 DEF BlockedEnds
  <2>5. QED  BY <2>1, <2>2, <2>4
<1>5. SUFFICES \E f \in EventTimes(inst, plan, q, u, d) :
                 Cardinality(ActiveAt(inst, plan, q, f)) + 1 > inst.cap[q]
  BY DEF Fits, Overloaded
<1>6. CASE u < e
  <2>1. e \in EventTimes(inst, plan, q, cand, d) /\ e # cand
    BY <1>2, <1>3, <1>6, <1>1
  <2>2. e \in {plan[x].start : x \in Holders(inst, plan, q)} /\ e < u + d
    BY <2>1, <1>3, <1>1 DEF EventTimes
  <2>3. e \in EventTimes(inst, plan, q, u, d)
    BY <2>2, <1>6 DEF EventTimes
  <2>4. QED  BY <2>3, <1>2
<1>7. CASE e <= u
  <2>1. ActiveAt(inst, plan, q, e) \subseteq ActiveAt(inst, plan, q, u)
    BY <1>4, <1>3, <1>7 DEF ActiveAt
  <2>2. /\ Cardinality(ActiveAt(inst, plan, q, e)) \in Nat
        /\ Cardinality(ActiveAt(inst, plan, q, u)) \in Nat
        /\ Cardinality(ActiveAt(inst, plan, q, e)) <= Cardinality(ActiveAt(inst, plan, q, u))
    BY <2>1, <1>1, ActiveCount
  <2>3. Cardinality(ActiveAt(inst, plan, q, u)) + 1 > inst.cap[q]
    BY <2>2, <1>1, <1>2
  <2>4. u \in EventTimes(inst, plan, q, u, d)
    BY DEF EventTimes
  <2>5. QED  BY <2>3, <2>4
<1>8. QED  BY <1>6, <1>7, <1>3

\* A full resource always leaves an end to jump to, so an empty blocked_ends
\* means that the candidate fits.
LEMMA NothingBlocks ==
  ASSUME IInv, BlockedEnds = {}
  PROVE  Fits(inst, plan, seg, cand)
<1> SUFFICES ASSUME NEW q \in inst.uses[seg],
                    Overloaded(inst, plan, q, cand, inst.dur[seg])
             PROVE  FALSE
  BY DEF Fits
<1>1. /\ Spanned(plan) /\ cand \in Nat /\ inst.dur[seg] \in Nat
      /\ q \in Resources /\ inst.cap[q] \in Nat /\ inst.cap[q] >= 1
  BY Arguments
<1>2. PICK e \in EventTimes(inst, plan, q, cand, inst.dur[seg]) :
        Cardinality(ActiveAt(inst, plan, q, e)) + 1 > inst.cap[q]
  BY DEF Overloaded
<1>3. Cardinality(ActiveAt(inst, plan, q, e)) # 0
  BY <1>2, <1>1, ActiveCount
<1>4. PICK x : x \in ActiveAt(inst, plan, q, e)
  BY <1>3, FS_EmptySet
<1>5. e \in Nat /\ cand <= e /\ (e < cand + inst.dur[seg] \/ e = cand)
  BY <1>1 DEF EventTimes, Holders, Spanned
<1>6. inst.dur[seg] > 0
  BY Arguments
<1>7. x \in Holders(inst, plan, q) /\ plan[x].start <= e /\ e < plan[x].end
  BY <1>4 DEF ActiveAt
<1>8. plan[x].start \in Nat /\ plan[x].end \in Nat
  BY <1>7, <1>1 DEF Holders, Spanned
<1>9. plan[x].start < cand + inst.dur[seg] /\ cand < plan[x].end
  BY <1>1, <1>5, <1>6, <1>7, <1>8
<1>10. plan[x].end \in BlockedEnds
  BY <1>7, <1>9 DEF BlockedEnds
<1>11. QED  BY <1>10
-----------------------------------------------------------------------------
LEMMA InitIInv == Init => IInv
<1> SUFFICES ASSUME Init PROVE IInv
  OBVIOUS
<1>1. PICK c \in Calls : plan = c[1] /\ base = c[2]
  BY DEF Init
<1>2. DOMAIN plan \subseteq Segments /\ plan \in [DOMAIN plan -> SpanType] /\ base \in Nat
  BY <1>1, CallsAssumption
<1>3. QED
  BY <1>2, InstancesAssumption DEF Init, IInv, TypeOK

LEMMA StepIInv == IInv /\ [Next]_vars => IInv'
<1> SUFFICES ASSUME IInv, [Next]_vars PROVE IInv'
  OBVIOUS
<1>a. /\ Spanned(plan) /\ base \in Nat /\ cand \in Nat
      /\ inst.uses[seg] \subseteq Resources
      /\ \A q \in Resources : inst.free[q] \in Nat
      /\ Bounds \subseteq Nat
  BY Arguments
<1>1. CASE NoResources
  <2>1. UNCHANGED <<args, cand>> /\ pc' = "done" /\ inst.uses[seg] = {} /\ cand = base
    BY <1>1 DEF NoResources, IInv
  <2>2. Searched /\ Fits(inst, plan, seg, cand)
    BY <2>1, <1>a DEF Searched, Bounds, Openings, Fits
  <2>3. QED
    BY <2>1, <2>2 DEF IInv, TypeOK, args, Searched, Bounds, Openings
<1>2. CASE Align
  <2>1. /\ UNCHANGED args /\ pc' = "loop" /\ cand = base
        /\ cand' \in Bounds /\ \A b \in Bounds : b <= cand'
    BY <1>2 DEF Align, IInv, Bounds
  <2>2. Bounds' = Bounds /\ cand' \in Nat
    BY <2>1, <1>a DEF args, Bounds, Openings
  <2>3. \A u \in 0 .. cand' - 1 : ~ (\A b \in Bounds : b <= u)
    <3>1. \A u \in 0 .. cand' - 1 : ~ (cand' <= u)
      BY <2>2, Before
    <3>2. QED  BY <3>1, <2>1
  <2>4. Searched'
    BY <2>1, <2>2, <2>3 DEF Searched, args
  <2>5. QED
    BY <2>1, <2>2, <2>4 DEF IInv, TypeOK, args
<1>3. CASE Advance
  <2>1. /\ UNCHANGED <<args, pc>> /\ pc = "loop"
        /\ cand' \in BlockedEnds /\ \A e \in BlockedEnds : cand' <= e
    BY <1>3 DEF Advance
  <2>2. PICK q \in inst.uses[seg] :
          /\ Overloaded(inst, plan, q, cand, inst.dur[seg])
          /\ \E x \in Holders(inst, plan, q) : cand' = plan[x].end /\ cand < plan[x].end
    BY <2>1 DEF BlockedEnds
  <2>3. /\ cand' \in {plan[x].end : x \in DOMAIN plan}
        /\ cand' \in Nat /\ cand < cand'
    BY <2>2, <1>a DEF Holders, Spanned
  <2>4. Bounds' = Bounds
    BY <2>1 DEF args, Bounds, Openings
  <2>5. Searched
    BY <2>1 DEF IInv
  <2>6. BlockedEnds \subseteq Nat
    BY <1>a DEF BlockedEnds, Holders, Spanned
  <2>7. ASSUME NEW u \in 0 .. cand' - 1, \A b \in Bounds : b <= u
        PROVE  ~ Fits(inst, plan, seg, u)
    <3>1. u \in Nat /\ u < cand'
      BY <2>3, Before
    <3>2. CASE u < cand
      BY <3>1, <3>2, <2>5, <2>7, <1>a DEF Searched
    <3>3. CASE cand <= u
      <4>1. \A e \in BlockedEnds : u < e
        BY <3>1, <2>1, <2>3, <2>6
      <4>2. QED  BY <4>1, <3>1, <3>3, <2>2, JumpSkipsNothing
    <3>4. QED  BY <3>1, <3>2, <3>3, <1>a
  <2>8. Searched'
    <3>a. cand \in Nat /\ cand' \in Nat /\ cand < cand'
      BY <2>3, <1>a
    <3>b. \A b \in Bounds : b \in Nat /\ b <= cand
      BY <2>5, <1>a DEF Searched
    <3>1. \A b \in Bounds : b <= cand'
      BY <3>a, <3>b
    <3>2. inst' = inst /\ plan' = plan /\ seg' = seg
      BY <2>1 DEF args
    <3>3. \A u \in 0 .. cand' - 1 :
            (\A b \in Bounds : b <= u) => ~ Fits(inst, plan, seg, u)
      BY <2>7
    <3>4. QED  BY <3>1, <3>2, <3>3, <2>3, <2>4 DEF Searched
  <2>9. QED
    BY <2>1, <2>3, <2>8 DEF IInv, TypeOK, args
<1>4. CASE Return
  <2>1. UNCHANGED <<args, cand>> /\ pc = "loop" /\ pc' = "done" /\ BlockedEnds = {}
    BY <1>4 DEF Return
  <2>2. Searched /\ Fits(inst, plan, seg, cand)
    BY <2>1, NothingBlocks DEF IInv
  <2>3. QED
    BY <2>1, <2>2 DEF IInv, TypeOK, args, Searched, Bounds, Openings
<1>5. CASE UNCHANGED vars
  BY <1>5 DEF vars, IInv, TypeOK, Searched, Bounds, Openings
<1>6. QED  BY <1>1, <1>2, <1>3, <1>4, <1>5 DEF Next

LEMMA Invariance == Spec => []IInv
<1>1. Init => IInv
  BY InitIInv
<1>2. IInv /\ [Next]_vars => IInv'
  BY StepIInv
<1>3. QED  BY <1>1, <1>2, PTL DEF Spec
-----------------------------------------------------------------------------
\* The variables keep their types in every call.
THEOREM TypeCorrect == Spec => []TypeOK
<1>1. IInv => TypeOK
  BY DEF IInv
<1>2. QED  BY <1>1, Invariance, PTL

\* No matter which spans are already placed, the start the loop returns leaves
\* room for the segment on each of its resources at every instant of its span.
THEOREM RoomForWholeSpanHolds == Spec => []RoomForWholeSpan
<1>1. IInv => RoomForWholeSpan
  <2> SUFFICES ASSUME IInv, pc = "done",
                      NEW q \in inst.uses[seg],
                      NEW u \in cand .. cand + inst.dur[seg] - 1
               PROVE  Cardinality(ActiveAt(inst, plan, q, u)) + 1 <= inst.cap[q]
    BY DEF RoomForWholeSpan
  <2>1. /\ Spanned(plan) /\ cand \in Nat /\ inst.dur[seg] \in Nat
        /\ q \in Resources /\ inst.cap[q] \in Nat
    BY Arguments
  <2>2. ~ Overloaded(inst, plan, q, cand, inst.dur[seg])
    BY DEF IInv, Fits
  <2>3. u \in Nat /\ cand <= u /\ u < cand + inst.dur[seg]
    BY <2>1
  <2>4. QED  BY <2>1, <2>2, <2>3, SampledRoom
<1>2. QED  BY <1>1, Invariance, PTL

\* The loop skips no start: every instant from the bounds up to the returned
\* start has a full resource somewhere in the span.
THEOREM NoEarlierStartHolds == Spec => []NoEarlierStart
<1>1. IInv => NoEarlierStart
  BY DEF IInv, Searched, NoEarlierStart
<1>2. QED  BY <1>1, Invariance, PTL

\* The returned start is the one IsEarliest denotes, which the dispatch modules
\* use in place of the call.
THEOREM ReturnsEarliestHolds == Spec => []ReturnsEarliest
<1>1. IInv => ReturnsEarliest
  <2> SUFFICES ASSUME IInv, pc = "done"
               PROVE  IsEarliest(inst, plan, seg, Bounds, cand)
    BY DEF ReturnsEarliest
  <2>1. Searched /\ Fits(inst, plan, seg, cand)
    BY DEF IInv
  <2>2. ASSUME NEW u \in Bounds \cup {plan[x].end : x \in DOMAIN plan},
               \A b \in Bounds : b <= u, Fits(inst, plan, seg, u)
        PROVE  cand <= u
    <3>1. u \in Nat /\ cand \in Nat
      BY Arguments DEF Spanned
    <3>2. u \notin 0 .. cand - 1
      BY <2>1, <2>2 DEF Searched
    <3>3. QED  BY <3>1, <3>2
  <2>3. QED
    BY <2>1, <2>2 DEF IsEarliest, Searched
<1>2. QED  BY <1>1, Invariance, PTL
-----------------------------------------------------------------------------
(* The pointer decoders.                                                    *)

\* A unit of the instance is that of any of its members, and what its members
\* wait for lies in the units it depends on.
LEMMA UnitsOfMembers ==
  ASSUME NEW I \in PointerInstances
  PROVE  /\ \A s \in Segments : s \in Pointer!Unit(I, s) /\ Pointer!Unit(I, s) \subseteq Segments
         /\ \A s \in Segments : Pointer!Deps(I, s) \subseteq Segments
<1>1. Pointer!ValidInstance(I) /\ I \in Pointer!InstanceType
  BY PointerConstants DEF Pointer!InstancesAssumption
<1>2. \A s \in Segments : I.pred[s] \subseteq Segments
  BY <1>1 DEF Pointer!InstanceType
<1>3. QED
  BY <1>2 DEF Pointer!Unit, Pointer!SameCurve, Pointer!Deps, Pointer!ParentPrevious

\* Units that are not assigned and of which none is ready wait for each other.
LEMMA NoneReady ==
  ASSUME inst \in PointerInstances, Pointer!TakenAreUnits, mode \in {"pointer", "teacher"},
         Pointer!Assigned # Pointer!allocation_units(inst), Pointer!ReadyUnits = {}
  PROVE  Pointer!UnitsCircular
<1> DEFINE S == Pointer!allocation_units(inst) \ Pointer!Assigned
<1>1. S # {} /\ S \in SUBSET Pointer!allocation_units(inst)
  BY DEF Pointer!TakenAreUnits
<1>2. ASSUME NEW U \in S
      PROVE  \E V \in S \ {U} : \E s \in U : Pointer!Deps(inst, s) \cap V # {}
  <2>1. ~ (Pointer!unit_dependencies(inst, U) \subseteq Pointer!Assigned)
    BY DEF Pointer!ReadyUnits
  <2>2. PICK V \in Pointer!unit_dependencies(inst, U) : V \notin Pointer!Assigned
    BY <2>1
  <2>3. PICK x \in UNION {Pointer!Deps(inst, s) : s \in U} : V = Pointer!Unit(inst, x)
    BY <2>2 DEF Pointer!unit_dependencies
  <2>4. PICK s \in U : x \in Pointer!Deps(inst, s)
    BY <2>3
  <2>5. s \in Segments
    BY UnitsOfMembers DEF Pointer!allocation_units
  <2>6. x \in Segments /\ x \in V
    BY <2>3, <2>4, <2>5, UnitsOfMembers
  <2>7. V \in Pointer!allocation_units(inst) /\ V # U
    BY <2>2, <2>3, <2>6 DEF Pointer!allocation_units, Pointer!unit_dependencies
  <2>8. QED  BY <2>2, <2>4, <2>6, <2>7
<1>3. QED  BY <1>1, <1>2 DEF Pointer!UnitsCircular

\* What Append makes of the assigned units.
LEMMA TakeAssigns ==
  ASSUME NEW U, NEW r, actions' = Append(actions, <<U, r>>), NEW S, actions \in Seq(S)
  PROVE  Pointer!Assigned' = Pointer!Assigned \cup {U}
<1>1. /\ Len(actions) \in Nat /\ DOMAIN actions = 1 .. Len(actions)
      /\ DOMAIN actions' = 1 .. Len(actions) + 1
      /\ \A n \in DOMAIN actions : actions'[n] = actions[n]
      /\ actions'[Len(actions) + 1] = <<U, r>>
  OBVIOUS
<1>2. DOMAIN actions' = DOMAIN actions \cup {Len(actions) + 1}
  BY <1>1
<1>3. \A x : x \in Pointer!Assigned' <=> x \in Pointer!Assigned \cup {U}
  BY <1>1, <1>2 DEF Pointer!Assigned
<1>4. QED  BY <1>3
\* The pairs are a sequence, of units when the mask or the teacher chose them.
PairsTaken ==
  /\ mode \in {"pointer", "teacher"} => \E R : actions \in Seq(Pointer!allocation_units(inst) \X R)

LEMMA PointerInit == Pointer!Init => Pointer!IInv /\ PairsTaken
<1> SUFFICES ASSUME Pointer!Init PROVE Pointer!IInv /\ PairsTaken
  OBVIOUS
<1>1. inst \in PointerInstances /\ actions = <<>> /\ status = "open"
  BY DEF Pointer!Init
<1>2. Pointer!Assigned = {}
  BY <1>1 DEF Pointer!Assigned
<1>3. actions \in Seq(Pointer!allocation_units(inst) \X {})
  BY <1>1
<1>4. PairsTaken
  BY <1>3 DEF PairsTaken
<1>5. QED
  BY <1>1, <1>2, <1>4 DEF Pointer!IInv, Pointer!TakenAreUnits, Pointer!DeadEndExact

\* A step that takes no unit ends the call well, or for a reason.
LEMMA PointerEnds ==
  ASSUME Pointer!IInv, PairsTaken, UNCHANGED <<inst, mode, actions>>,
         status' = "dead_end" =>
           \/ Pointer!UnitsCircular
           \/ mode = "pointer" /\ \E s \in Segments :
                \A r \in Robots : \E x \in Pointer!Unit(inst, s) : ~ Pointer!EdgeFeasible(inst, x, r)
  PROVE  Pointer!IInv' /\ PairsTaken'
<1>1. inst' = inst /\ mode' = mode /\ actions' = actions
  OBVIOUS
<1>2. Pointer!TakenAreUnits' /\ PairsTaken' /\ inst' \in PointerInstances
  BY <1>1 DEF Pointer!IInv, Pointer!TakenAreUnits, Pointer!Assigned, PairsTaken
<1>3. Pointer!UnitsCircular => Pointer!UnitsCircular'
  BY <1>1 DEF Pointer!UnitsCircular
<1>4. Pointer!DeadEndExact'
  BY <1>1, <1>3 DEF Pointer!DeadEndExact
<1>5. QED  BY <1>2, <1>4 DEF Pointer!IInv

\* A step that takes an unassigned unit of the instance.
LEMMA PointerTakes ==
  ASSUME Pointer!IInv, PairsTaken, Pointer!Open, mode \in {"pointer", "teacher"},
         NEW U \in Pointer!allocation_units(inst), NEW r, Pointer!Take(U, r)
  PROVE  Pointer!IInv' /\ PairsTaken'
<1>1. /\ inst' = inst /\ mode' = mode /\ status' = "open"
      /\ actions' = Append(actions, <<U, r>>)
  BY DEF Pointer!Take, Pointer!args, Pointer!Open
<1>2. PICK R : actions \in Seq(Pointer!allocation_units(inst) \X R)
  BY DEF PairsTaken
<1>3. PairsTaken'
  <2> DEFINE A == Pointer!allocation_units(inst) \X R
  <2> DEFINE B == Pointer!allocation_units(inst) \X (R \cup {r})
  <2>1. A \subseteq B /\ <<U, r>> \in B
    OBVIOUS
  <2>2. actions \in Seq(A)
    BY <1>2
  <2> HIDE DEF A, B
  <2>3. actions \in Seq(B)
    BY <2>1, <2>2
  <2>4. actions' \in Seq(B)
    BY <1>1, <2>1, <2>3
  <2>5. QED  BY <1>1, <2>4 DEF PairsTaken, B
<1>4. Pointer!Assigned' = Pointer!Assigned \cup {U}
  BY <1>1, <1>2, TakeAssigns
<1>5. Pointer!TakenAreUnits'
  BY <1>1, <1>4 DEF Pointer!IInv, Pointer!TakenAreUnits
<1>6. QED
  BY <1>1, <1>3, <1>5 DEF Pointer!IInv, Pointer!DeadEndExact

\* A step of the decoders that the property says nothing of.
LEMMA PointerOther ==
  ASSUME Pointer!IInv, mode \notin {"pointer", "teacher"}, UNCHANGED <<inst, mode>>,
         status = "open", status' \in {"open", "infeasible"}
  PROVE  Pointer!IInv' /\ PairsTaken'
BY DEF Pointer!IInv, Pointer!TakenAreUnits, PairsTaken, Pointer!DeadEndExact

LEMMA PointerStep ==
  Pointer!IInv /\ PairsTaken /\ [Pointer!Next]_(Pointer!vars) => Pointer!IInv' /\ PairsTaken'
<1> SUFFICES ASSUME Pointer!IInv, PairsTaken, [Pointer!Next]_(Pointer!vars)
             PROVE  Pointer!IInv' /\ PairsTaken'
  OBVIOUS
<1>1. CASE Pointer!UnitsRaise
  BY <1>1, PointerEnds DEF Pointer!UnitsRaise, Pointer!End, Pointer!args
<1>2. CASE Pointer!greedy_rollout
  <2>1. PICK p \in Pointer!feasible_pair_mask : Pointer!Take(p[1], p[2])
    BY <1>2 DEF Pointer!greedy_rollout
  <2>2. p[1] \in Pointer!allocation_units(inst)
    BY DEF Pointer!feasible_pair_mask, Pointer!ReadyUnits
  <2>3. QED  BY <1>2, <2>1, <2>2, PointerTakes DEF Pointer!greedy_rollout
<1>3. CASE Pointer!PointerDeadEnd
  <2>1. /\ mode = "pointer" /\ UNCHANGED <<inst, mode, actions>>
        /\ Pointer!Assigned # Pointer!allocation_units(inst) /\ Pointer!feasible_pair_mask = {}
    BY <1>3 DEF Pointer!PointerDeadEnd, Pointer!End, Pointer!args
  <2>2. CASE Pointer!ReadyUnits = {}
    <3>1. Pointer!UnitsCircular
      BY <2>1, <2>2, NoneReady DEF Pointer!IInv
    <3>2. QED  BY <2>1, <3>1, PointerEnds
  <2>3. CASE Pointer!ReadyUnits # {}
    <3>1. PICK U \in Pointer!ReadyUnits : TRUE
      BY <2>3
    <3>2. PICK s \in Segments : U = Pointer!Unit(inst, s)
      BY DEF Pointer!ReadyUnits, Pointer!allocation_units
    <3>3. ASSUME NEW r \in Robots
          PROVE  \E x \in Pointer!Unit(inst, s) : ~ Pointer!EdgeFeasible(inst, x, r)
      <4>1. <<U, r>> \notin Pointer!feasible_pair_mask
        BY <2>1
      <4>2. r \notin Pointer!AllowedRobots(inst, U)
        BY <4>1 DEF Pointer!feasible_pair_mask
      <4>3. QED  BY <3>2, <4>2 DEF Pointer!AllowedRobots
    <3>4. QED  BY <2>1, <3>3, PointerEnds
  <2>4. QED  BY <2>2, <2>3
<1>4. CASE Pointer!canonical_teacher_actions
  <2>1. PICK U \in Pointer!ReadyUnits :
          Pointer!Take(U, given.robot[given.start[Pointer!StartOf(U)]])
    BY <1>4 DEF Pointer!canonical_teacher_actions
  <2>2. U \in Pointer!allocation_units(inst)
    BY DEF Pointer!ReadyUnits
  <2>3. QED  BY <1>4, <2>1, <2>2, PointerTakes DEF Pointer!canonical_teacher_actions
<1>5. CASE Pointer!TeacherCyclic
  <2>1. /\ mode = "teacher" /\ UNCHANGED <<inst, mode, actions>>
        /\ Pointer!Assigned # Pointer!allocation_units(inst) /\ Pointer!ReadyUnits = {}
    BY <1>5 DEF Pointer!TeacherCyclic, Pointer!End, Pointer!args
  <2>2. Pointer!UnitsCircular
    BY <2>1, NoneReady DEF Pointer!IInv
  <2>3. QED  BY <2>1, <2>2, PointerEnds
<1>6. CASE Pointer!state_from_plan
  BY <1>6, PointerOther DEF Pointer!state_from_plan, Pointer!args, Pointer!Open
<1>7. CASE Pointer!UnitWithoutRobot
  BY <1>7, PointerOther DEF Pointer!UnitWithoutRobot, Pointer!End, Pointer!args, Pointer!Open
<1>8. CASE Pointer!AssignUnits
  BY <1>8, PointerOther DEF Pointer!AssignUnits, Pointer!args, Pointer!Open
<1>9. CASE Pointer!precedence_aware_orders
  BY <1>9, PointerOther DEF Pointer!precedence_aware_orders, Pointer!args, Pointer!Open
<1>10. CASE Pointer!replay_pointer_actions
  <2>1. status' # "dead_end" /\ UNCHANGED <<inst, mode, actions>>
    BY <1>10 DEF Pointer!replay_pointer_actions, Pointer!End, Pointer!args
  <2>2. QED  BY <2>1, PointerEnds
<1>11. CASE UNCHANGED Pointer!vars
  <2>1. UNCHANGED <<inst, mode, actions, status>>
    BY <1>11 DEF Pointer!vars
  <2>2. QED  BY <2>1, PointerEnds DEF Pointer!IInv, Pointer!DeadEndExact
<1>12. QED
  BY <1>1, <1>2, <1>3, <1>4, <1>5, <1>6, <1>7, <1>8, <1>9, <1>10, <1>11 DEF Pointer!Next

\* A rollout of the pair-pointer decoder, or the replay of a teacher, stops
\* short only where the contracted units wait in a circle or one of them has no
\* robot at all; so no other choice of pairs would have gone on to the end.
THEOREM DeadEndExactHolds == CallSpec => []DeadEndExact
<1> DEFINE Inv == part = "pointer_rollout" => Pointer!IInv /\ PairsTaken
<1>1. CallInit => Inv
  BY PointerInit DEF CallInit
<1>2. Inv /\ [CallNext]_everything => Inv'
  <2> SUFFICES ASSUME Inv, [CallNext]_everything, part' = "pointer_rollout"
               PROVE  (Pointer!IInv /\ PairsTaken)'
    OBVIOUS
  <2>1. part = "pointer_rollout"
    BY DEF CallNext, everything
  <2>2. [Pointer!Next]_(Pointer!vars)
    BY <2>1 DEF CallNext, everything, pointerOwn, Pointer!vars
  <2>3. QED  BY <2>1, <2>2, PointerStep
<1>3. Inv => DeadEndExact
  BY DEF DeadEndExact, Pointer!IInv
<1>4. QED  BY <1>1, <1>2, <1>3, PTL DEF CallSpec
-----------------------------------------------------------------------------
(* Why the blocks of a pointer rollout cannot wait for each other: the units *)
(* were taken in an order that the dependencies and every robot follow.      *)

\* The units partition the segments.
LEMMA UnitOfMember ==
  ASSUME NEW I, NEW s \in Segments, NEW x \in Pointer!Unit(I, s)
  PROVE  x \in Segments /\ Pointer!Unit(I, x) = Pointer!Unit(I, s)
<1>1. x \in Segments /\ x \in Pointer!SameCurve(I, s)
  BY DEF Pointer!Unit, Pointer!SameCurve
<1>2. Pointer!SameCurve(I, x) = Pointer!SameCurve(I, s)
  BY <1>1 DEF Pointer!SameCurve
<1>3. Pointer!Coupled(I, x) = Pointer!Coupled(I, s)
  BY <1>2 DEF Pointer!Coupled
<1>4. CASE Pointer!Coupled(I, s)
  BY <1>1, <1>2, <1>3, <1>4 DEF Pointer!Unit
<1>5. CASE ~ Pointer!Coupled(I, s)
  BY <1>1, <1>3, <1>5 DEF Pointer!Unit
<1>6. QED  BY <1>4, <1>5

\* validate_instance: the indexes along a curve are 0, 1, 2, ...
LEMMA CurveIndexes ==
  ASSUME NEW I \in PointerInstances, NEW s \in Segments
  PROVE  LET C == Pointer!SameCurve(I, s)
         IN  /\ IsFiniteSet(C) /\ Cardinality(C) \in Nat /\ s \in C /\ C \subseteq Segments
             /\ \A x \in C : I.index[x] \in 0 .. Cardinality(C) - 1
             /\ \A x, y \in C : I.index[x] = I.index[y] => x = y
             /\ \A k \in 0 .. Cardinality(C) - 1 : \E x \in C : I.index[x] = k
<1> DEFINE C == Pointer!SameCurve(I, s)
<1> DEFINE n == Cardinality(C)
<1>1. Pointer!ValidInstance(I) /\ I \in Pointer!InstanceType
  BY PointerConstants DEF Pointer!InstancesAssumption
<1>2. C \in SUBSET Segments /\ s \in C
  BY DEF Pointer!SameCurve
<1>3. IsFiniteSet(C) /\ n \in Nat
  BY <1>2, SegmentsAssumption, FS_Subset, FS_CardinalityType
<1>4. \A x \in C : Pointer!SameCurve(I, x) = C
  BY DEF Pointer!SameCurve
<1>5. \A S : Pointer!Cardinality(S) = Cardinality(S)
  BY DEF Pointer!Cardinality, Cardinality
<1>6. \A x \in C : I.index[x] \in Nat /\ I.index[x] < n
  <2>1. \A x \in Segments :
          I.index[x] \in Nat /\ I.index[x] < Pointer!Cardinality(Pointer!SameCurve(I, x))
    BY <1>1 DEF Pointer!InstanceType, Pointer!ValidInstance
  <2>2. QED  BY <2>1, <1>2, <1>4, <1>5
<1>7. \A x, y \in C : I.index[x] = I.index[y] => x = y
  <2>1. \A x \in Segments : \A y \in Pointer!SameCurve(I, x) : I.index[y] = I.index[x] => y = x
    BY <1>1 DEF Pointer!ValidInstance
  <2>2. QED  BY <2>1, <1>2, <1>4
<1> DEFINE f == [x \in C |-> I.index[x]]
<1>8. \A x \in C : I.index[x] \in 0 .. n - 1
  BY <1>3, <1>6
<1> HIDE DEF C, n
<1>9. f \in Injection(C, 0 .. n - 1)
  BY <1>7, <1>8 DEF Injection, IsInjective
<1>10. IsFiniteSet(0 .. n - 1) /\ Cardinality(0 .. n - 1) = n
  BY <1>3, FS_Interval
<1>11. f \in Surjection(C, 0 .. n - 1)
  BY <1>9, <1>10, FS_Injection DEF n
<1>12. \A k \in 0 .. n - 1 : \E x \in C : I.index[x] = k
  BY <1>11 DEF Surjection
<1>13. QED  BY <1>2, <1>3, <1>7, <1>8, <1>12 DEF C, n

\* The members of a unit along the curve.
LEMMA MembersInOrder ==
  ASSUME NEW I \in PointerInstances, NEW U \in Pointer!allocation_units(I)
  PROVE  /\ Pointer!Members(I, U) \in Seq(U)
         /\ \A i, j \in DOMAIN Pointer!Members(I, U) :
              i < j => I.index[Pointer!Members(I, U)[i]] < I.index[Pointer!Members(I, U)[j]]
<1> DEFINE Along(m) == \A i, j \in DOMAIN m : i < j => I.index[m[i]] < I.index[m[j]]
<1>1. PICK s \in Segments : U = Pointer!Unit(I, s)
  BY DEF Pointer!allocation_units
<1>2. Pointer!Cardinality(U) = Cardinality(U)
  BY DEF Pointer!Cardinality, Cardinality
<1>3. Cardinality(U) \in Nat /\ \E m \in [1 .. Cardinality(U) -> U] : Along(m)
  <2>1. CASE U = {s}
    <3> DEFINE m == [k \in 1 .. 1 |-> s]
    <3>1. Cardinality({s}) = 1
      BY FS_Singleton
    <3>2. Cardinality(U) = 1
      BY <2>1, <3>1
    <3>3. m \in [1 .. 1 -> U]
      BY <2>1
    <3>4. \A i, j \in 1 .. 1 : ~ (i < j)
      OBVIOUS
    <3>5. Along(m)
      BY <3>4
    <3>6. m \in [1 .. Cardinality(U) -> U] /\ Cardinality(U) \in Nat
      BY <3>2, <3>3
    <3> HIDE DEF m, Along
    <3>7. QED  BY <3>5, <3>6
  <2>2. CASE U = Pointer!SameCurve(I, s)
    <3> DEFINE n == Cardinality(U)
    <3>1. /\ n \in Nat
          /\ \A k \in 0 .. n - 1 : \E x \in U : I.index[x] = k
      BY <2>2, CurveIndexes
    <3> DEFINE m == [k \in 1 .. n |-> CHOOSE x \in U : I.index[x] = k - 1]
    <3> HIDE DEF n
    <3>2. \A k \in 1 .. n : m[k] \in U /\ I.index[m[k]] = k - 1
      <4>1. \A k \in 1 .. n : k - 1 \in 0 .. n - 1
        BY <3>1
      <4>2. \A k \in 1 .. n : \E x \in U : I.index[x] = k - 1
        BY <3>1, <4>1
      <4>3. QED  BY <4>2
    <3>3. m \in [1 .. n -> U] /\ DOMAIN m = 1 .. n
      BY <3>2
    <3>4. Along(m)
      BY <3>1, <3>2, <3>3
    <3>5. QED  BY <3>1, <3>3, <3>4 DEF n
  <2>3. QED  BY <1>1, <2>1, <2>2 DEF Pointer!Unit
<1> DEFINE M == CHOOSE m \in [1 .. Cardinality(U) -> U] : Along(m)
<1>4. M \in [1 .. Cardinality(U) -> U] /\ Along(M)
  BY <1>3
<1>5. Pointer!Members(I, U) = M
  BY <1>2 DEF Pointer!Members
<1> HIDE DEF M
<1>6. M \in Seq(U)
  BY <1>3, <1>4
<1>7. QED  BY <1>4, <1>5, <1>6

\* In an order of the segments the dependencies on one curve follow the curve:
\* one that went against it would close a circle along the curve.
LEMMA CurveFollowed ==
  ASSUME NEW I \in PointerInstances, Pointer!topological_segment_order(I),
         NEW s \in Segments, NEW x \in Pointer!Deps(I, s), x \in Pointer!SameCurve(I, s)
  PROVE  I.index[x] < I.index[s]
<1> DEFINE C == Pointer!SameCurve(I, s)
<1>1. /\ s \in C /\ C \subseteq Segments /\ Cardinality(C) \in Nat
      /\ \A y \in C : I.index[y] \in 0 .. Cardinality(C) - 1
      /\ \A y, z \in C : I.index[y] = I.index[z] => y = z
      /\ \A k \in 0 .. Cardinality(C) - 1 : \E y \in C : I.index[y] = k
  BY CurveIndexes
<1>2. \A y \in C : Pointer!SameCurve(I, y) = C
  BY DEF Pointer!SameCurve
<1> HIDE DEF C
<1>3. ASSUME ~ (I.index[x] < I.index[s])
      PROVE  FALSE
  <2> DEFINE S == {y \in C : I.index[s] <= I.index[y] /\ I.index[y] <= I.index[x]}
  <2>1. x \in C /\ I.index[x] \in Nat /\ I.index[s] \in Nat /\ I.index[s] <= I.index[x]
    BY <1>1, <1>3 DEF C
  <2>2. s \in S /\ x \in S
    BY <1>1, <2>1
  <2>3. ASSUME NEW y \in S
        PROVE  Pointer!Deps(I, y) \cap S # {}
    <3>1. CASE y = s
      BY <2>2, <3>1
    <3>2. CASE y # s
      <4>1. /\ y \in C /\ I.index[y] \in 0 .. Cardinality(C) - 1
            /\ I.index[s] <= I.index[y] /\ I.index[y] <= I.index[x]
            /\ I.index[y] # I.index[s]
        BY <1>1, <3>2
      <4>2. I.index[y] - 1 \in 0 .. Cardinality(C) - 1 /\ I.index[s] <= I.index[y] - 1
        BY <1>1, <2>1, <4>1
      <4>3. PICK z \in C : I.index[z] = I.index[y] - 1
        BY <1>1, <4>2
      <4>4. I.index[z] <= I.index[x] /\ z \in S
        BY <2>1, <4>1, <4>2, <4>3
      <4>5. z \in Pointer!Deps(I, y)
        BY <1>2, <4>1, <4>3 DEF Pointer!Deps, Pointer!ParentPrevious
      <4>6. QED  BY <4>4, <4>5
    <3>3. QED  BY <3>1, <3>2
  <2> HIDE DEF S
  <2>4. S \in SUBSET Segments
    BY <1>1 DEF S
  <2>5. Pointer!Circular(S, [t \in Segments |-> Pointer!Deps(I, t)])
    BY <2>2, <2>3, <2>4 DEF Pointer!Circular
  <2>6. QED  BY <2>4, <2>5 DEF Pointer!topological_segment_order
<1>4. QED  BY <1>3

\* The segments of the units taken so far, and a rank that every one of them
\* takes above what it waits for, on its robot and by dependency.
Taken == UNION Pointer!Assigned

RankedBy(rank, n) ==
  /\ \A s \in Taken : rank[s] < n
  /\ \A s \in Taken : \A x \in Pointer!Deps(inst, s) : x \in Taken /\ rank[x] < rank[s]
  /\ \A r \in Robots : \A k \in 2 .. Len(orders[r]) : rank[orders[r][k - 1]] < rank[orders[r][k]]

Ranked ==
  mode \in {"pointer", "teacher"} =>
    /\ DOMAIN orders = Robots
    /\ \A r \in Robots : orders[r] \in Seq(Taken)
    /\ \E rank \in [Segments -> Nat], n \in Nat : RankedBy(rank, n)

\* Orders that follow a rank do not wait in a circle.
LEMMA RankedNeverStuck ==
  ASSUME inst \in PointerInstances, mode \in {"pointer", "teacher"}, Pointer!TakenAreUnits,
         Ranked, Pointer!Ordered
  PROVE  ~ Pointer!Stuck
<1>1. PICK rank \in [Segments -> Nat], n \in Nat : RankedBy(rank, n)
  BY DEF Ranked
<1>2. Taken \subseteq Segments
  BY UnitsOfMembers DEF Taken, Pointer!TakenAreUnits, Pointer!allocation_units
<1>3. \A r \in Robots : /\ Len(orders[r]) \in Nat /\ DOMAIN orders[r] = 1 .. Len(orders[r])
                        /\ \A k \in DOMAIN orders[r] : orders[r][k] \in Taken
  BY DEF Ranked
<1>4. Segments \subseteq Taken
  BY <1>3 DEF Pointer!Ordered, Pointer!Range
<1>5. ASSUME NEW s \in Segments, NEW x \in Pointer!Before(s)
      PROVE  rank[x] < rank[s]
  <2>1. CASE x \in Pointer!Deps(inst, s)
    BY <1>1, <1>4, <2>1 DEF RankedBy
  <2>2. CASE x \notin Pointer!Deps(inst, s)
    <3>1. PICK r \in Robots :
            x \in {orders[r][k - 1] : k \in {l \in 2 .. Len(orders[r]) : orders[r][l] = s}}
      BY <1>5, <2>2 DEF Pointer!Before
    <3>2. PICK k \in 2 .. Len(orders[r]) : x = orders[r][k - 1] /\ orders[r][k] = s
      BY <3>1
    <3>3. QED  BY <1>1, <3>2 DEF RankedBy
  <2>3. QED  BY <2>1, <2>2
<1>6. ASSUME Pointer!Stuck
      PROVE  FALSE
  <2>1. PICK S \in SUBSET Segments :
          Pointer!Circular(S, [s \in Segments |-> Pointer!Before(s)])
    BY <1>6 DEF Pointer!Stuck
  <2>2. S # {} /\ \A s \in S : Pointer!Before(s) \cap S # {}
    BY <2>1 DEF Pointer!Circular
  <2>3. {rank[s] : s \in S} \in SUBSET Nat /\ {rank[s] : s \in S} # {}
    BY <1>1, <2>1, <2>2
  <2>4. PICK s \in S : \A x \in S : rank[s] <= rank[x]
    <3>1. PICK m \in {rank[s] : s \in S} : \A l \in {rank[s] : s \in S} : m <= l
      BY <2>3, LeastNatural
    <3>2. QED  BY <3>1
  <2>5. PICK x \in S : x \in Pointer!Before(s)
    BY <2>2
  <2>6. rank[x] < rank[s] /\ rank[s] <= rank[x] /\ rank[x] \in Nat /\ rank[s] \in Nat
    BY <1>1, <1>5, <2>1, <2>4, <2>5
  <2>7. QED  BY <2>6
<1>7. QED  BY <1>6

\* A ready unit takes its place above everything taken before.
LEMMA RankedTakes ==
  ASSUME Pointer!IInv, PairsTaken, Ranked, Pointer!Open, mode \in {"pointer", "teacher"},
         NEW U \in Pointer!ReadyUnits, NEW r, Pointer!Take(U, r)
  PROVE  Ranked'
<1>1. /\ inst' = inst /\ mode' = mode /\ inst \in PointerInstances
      /\ actions' = Append(actions, <<U, r>>)
      /\ orders' = [orders EXCEPT ![r] = @ \o Pointer!Members(inst, U)]
      /\ Pointer!topological_segment_order(inst)
  BY DEF Pointer!Take, Pointer!args, Pointer!Open, Pointer!IInv
<1>2. /\ U \in Pointer!allocation_units(inst) /\ U \notin Pointer!Assigned
      /\ Pointer!unit_dependencies(inst, U) \subseteq Pointer!Assigned
  BY DEF Pointer!ReadyUnits
<1>3. PICK rank \in [Segments -> Nat], n \in Nat : RankedBy(rank, n)
  BY DEF Ranked
<1>4. Pointer!Assigned' = Pointer!Assigned \cup {U}
  <2>1. PICK R : actions \in Seq(Pointer!allocation_units(inst) \X R)
    BY DEF PairsTaken
  <2>2. QED  BY <1>1, <2>1, TakeAssigns
<1>5. Taken' = Taken \cup U
  BY <1>4 DEF Taken
<1>6. PICK first \in Segments : U = Pointer!Unit(inst, first)
  BY <1>2 DEF Pointer!allocation_units
<1>7. \A s \in U : s \in Segments /\ Pointer!Unit(inst, s) = U
  BY <1>6, UnitOfMember
<1>8. Pointer!Assigned \subseteq Pointer!allocation_units(inst)
  BY DEF Pointer!IInv, Pointer!TakenAreUnits
<1>9. Taken \subseteq Segments /\ U \cap Taken = {}
  <2>1. ASSUME NEW V \in Pointer!Assigned, NEW s \in V
        PROVE  s \in Segments /\ Pointer!Unit(inst, s) = V
    <3>1. PICK t \in Segments : V = Pointer!Unit(inst, t)
      BY <1>8 DEF Pointer!allocation_units
    <3>2. QED  BY <2>1, <3>1, UnitOfMember
  <2>2. QED  BY <1>2, <1>7, <2>1 DEF Taken
<1>10. PICK c \in Nat : \A s \in U : inst.index[s] \in Nat /\ inst.index[s] < c
  <2>1. /\ Cardinality(Pointer!SameCurve(inst, first)) \in Nat
        /\ \A s \in Pointer!SameCurve(inst, first) :
             inst.index[s] \in 0 .. Cardinality(Pointer!SameCurve(inst, first)) - 1
    BY <1>1, CurveIndexes
  <2>2. U \subseteq Pointer!SameCurve(inst, first)
    BY <1>6 DEF Pointer!Unit, Pointer!SameCurve
  <2>3. QED  BY <2>1, <2>2
<1>11. PICK after \in [Segments -> Nat] :
         \A s \in Segments : after[s] = IF s \in U THEN n + inst.index[s] ELSE rank[s]
  <2> DEFINE f == [s \in Segments |-> IF s \in U THEN n + inst.index[s] ELSE rank[s]]
  <2>1. \A s \in Segments : rank[s] \in Nat
    BY <1>3
  <2>2. \A s \in Segments : s \in U => n + inst.index[s] \in Nat
    BY <1>10
  <2>3. f \in [Segments -> Nat]
    BY <2>1, <2>2
  <2>4. QED  BY <2>3
<1>12. \A s \in U : after[s] = n + inst.index[s]
  BY <1>7, <1>11
<1>13. \A s \in Taken : after[s] = rank[s] /\ rank[s] \in Nat /\ rank[s] < n
  BY <1>3, <1>9, <1>11 DEF RankedBy
<1>14. \A s \in Taken' : after[s] < n + c
  BY <1>5, <1>10, <1>12, <1>13
<1>15. ASSUME NEW s \in Taken', NEW x \in Pointer!Deps(inst, s)
       PROVE  x \in Taken' /\ after[x] < after[s]
  <2>1. CASE s \in Taken
    <3>1. x \in Taken /\ rank[x] < rank[s]
      BY <1>3, <1>15, <2>1 DEF RankedBy
    <3>2. QED  BY <1>5, <1>13, <2>1, <3>1
  <2>2. CASE s \in U
    <3>1. x \in Segments /\ x \in Pointer!Unit(inst, x)
      BY <1>1, <1>7, <2>2, UnitsOfMembers
    <3>2. CASE Pointer!Unit(inst, x) = U
      <4>1. x \in U
        BY <3>1, <3>2
      <4>2. x \in Pointer!SameCurve(inst, s)
        BY <1>7, <2>2, <3>1, <4>1 DEF Pointer!Unit, Pointer!SameCurve
      <4>3. inst.index[x] < inst.index[s]
        BY <1>1, <1>7, <2>2, <4>2, CurveFollowed
      <4>4. QED  BY <1>5, <1>10, <1>12, <2>2, <4>1, <4>3
    <3>3. CASE Pointer!Unit(inst, x) # U
      <4>1. Pointer!Unit(inst, x) \in Pointer!Assigned
        BY <1>2, <2>2, <3>3 DEF Pointer!unit_dependencies
      <4>2. x \in Taken
        BY <3>1, <4>1 DEF Taken
      <4>3. QED  BY <1>5, <1>10, <1>12, <1>13, <2>2, <4>2
    <3>4. QED  BY <3>2, <3>3
  <2>3. QED  BY <1>5, <2>1, <2>2
<1> DEFINE M == Pointer!Members(inst, U)
<1>16. /\ M \in Seq(U)
       /\ \A i, j \in DOMAIN M : i < j => inst.index[M[i]] < inst.index[M[j]]
  BY <1>1, <1>2, MembersInOrder
<1>17. /\ DOMAIN orders' = Robots
       /\ \A q \in Robots : orders'[q] = orders[q] \/ orders'[q] = orders[q] \o M
  BY <1>1 DEF Ranked
<1> HIDE DEF M
<1>18. ASSUME NEW q \in Robots
       PROVE  /\ orders'[q] \in Seq(Taken')
              /\ \A k \in 2 .. Len(orders'[q]) : after[orders'[q][k - 1]] < after[orders'[q][k]]
  <2>1. /\ orders[q] \in Seq(Taken) /\ Len(orders[q]) \in Nat
        /\ \A k \in 1 .. Len(orders[q]) : orders[q][k] \in Taken
        /\ \A k \in 2 .. Len(orders[q]) : rank[orders[q][k - 1]] < rank[orders[q][k]]
    BY <1>3 DEF Ranked, RankedBy
  <2>2. \A k \in 2 .. Len(orders[q]) : after[orders[q][k - 1]] < after[orders[q][k]]
    <3>1. \A k \in 2 .. Len(orders[q]) : k \in 1 .. Len(orders[q]) /\ k - 1 \in 1 .. Len(orders[q])
      BY <2>1
    <3>2. QED  BY <1>13, <2>1, <3>1
  <2>3. orders[q] \in Seq(Taken \cup U) /\ M \in Seq(Taken \cup U)
    BY <1>16, <2>1
  <2>4. CASE orders'[q] = orders[q]
    BY <1>5, <2>2, <2>3, <2>4
  <2>5. CASE orders'[q] = orders[q] \o M
    <3> DEFINE old == Len(orders[q])
    <3> DEFINE all == orders[q] \o M
    <3>1. all \in Seq(Taken \cup U)
      BY <2>3
    <3>2. /\ Len(M) \in Nat /\ Len(all) = old + Len(M) /\ DOMAIN M = 1 .. Len(M)
          /\ \A k \in 1 .. Len(M) : M[k] \in U
          /\ \A k \in 1 .. old : all[k] = orders[q][k]
          /\ \A k \in old + 1 .. Len(all) : all[k] = M[k - old]
      BY <1>16, <2>1
    <3> HIDE DEF all
    <3>3. ASSUME NEW k \in 2 .. Len(all)
          PROVE  after[all[k - 1]] < after[all[k]]
      <4>1. old \in Nat /\ Len(all) \in Nat
        BY <2>1, <3>2
      <4> HIDE DEF old
      <4>2. CASE k <= old
        <5>1. /\ k \in 2 .. old /\ k \in 1 .. old /\ k - 1 \in 1 .. old
          BY <4>1, <4>2
        <5>2. QED  BY <2>2, <3>2, <5>1 DEF old
      <4>3. CASE k = old + 1
        <5>1. k - 1 \in 1 .. old /\ k \in old + 1 .. Len(all) /\ k - old = 1 /\ 1 \in 1 .. Len(M)
          BY <3>2, <4>1, <4>3
        <5>2. all[k - 1] \in Taken /\ all[k] \in U
          BY <2>1, <3>2, <5>1 DEF old
        <5>3. QED  BY <1>10, <1>12, <1>13, <5>2
      <4>4. CASE k > old + 1
        <5>1. /\ k \in old + 1 .. Len(all) /\ k - 1 \in old + 1 .. Len(all)
              /\ k - old \in 1 .. Len(M) /\ k - 1 - old \in 1 .. Len(M)
              /\ k - 1 - old < k - old
          BY <3>2, <4>1, <4>4
        <5>2. all[k] = M[k - old] /\ all[k - 1] = M[k - 1 - old]
          BY <3>2, <5>1
        <5>3. M[k - old] \in U /\ M[k - 1 - old] \in U
          BY <3>2, <5>1
        <5>4. inst.index[M[k - 1 - old]] < inst.index[M[k - old]]
          BY <1>16, <3>2, <5>1
        <5>5. /\ inst.index[M[k - 1 - old]] \in Nat /\ inst.index[M[k - old]] \in Nat
              /\ after[all[k]] = n + inst.index[M[k - old]]
              /\ after[all[k - 1]] = n + inst.index[M[k - 1 - old]]
          BY <1>10, <1>12, <5>2, <5>3
        <5>6. \A i, j \in Nat : i < j => n + i < n + j
          BY <1>3
        <5>7. QED  BY <5>4, <5>5, <5>6
      <4>5. QED  BY <4>1, <4>2, <4>3, <4>4
    <3>4. QED  BY <1>5, <2>5, <3>1, <3>3 DEF all
  <2>6. QED  BY <1>17, <2>4, <2>5
<1>19. n + c \in Nat
  BY <1>10
<1>20. /\ \A s \in Taken' : after[s] < n + c
       /\ \A s \in Taken' : \A x \in Pointer!Deps(inst', s) : x \in Taken' /\ after[x] < after[s]
       /\ \A q \in Robots :
            \A k \in 2 .. Len(orders'[q]) : after[orders'[q][k - 1]] < after[orders'[q][k]]
  BY <1>1, <1>14, <1>15, <1>18
<1>21. \E f \in [Segments -> Nat], m \in Nat : RankedBy(f, m)'
  <2>1. RankedBy(after, n + c)'
    BY <1>20 DEF RankedBy, Pointer!Deps, Pointer!ParentPrevious, Pointer!SameCurve
  <2>2. QED  BY <1>19, <2>1
<1>22. /\ DOMAIN orders' = Robots
       /\ \A q \in Robots : orders'[q] \in Seq(Taken')
  BY <1>17, <1>18
<1>23. QED  BY <1>21, <1>22 DEF Ranked

LEMMA RankedInit == Pointer!Init => Ranked
<1> SUFFICES ASSUME Pointer!Init PROVE Ranked
  OBVIOUS
<1>1. actions = <<>> /\ orders = [r \in Robots |-> <<>>]
  BY DEF Pointer!Init
<1>2. Taken = {}
  BY <1>1 DEF Taken, Pointer!Assigned
<1>3. [s \in Segments |-> 0] \in [Segments -> Nat]
  OBVIOUS
<1>4. \A r \in Robots : Len(orders[r]) = 0 /\ orders[r] \in Seq(Taken)
  BY <1>1
<1>5. RankedBy([s \in Segments |-> 0], 0)
  BY <1>2, <1>4 DEF RankedBy
<1>6. QED  BY <1>1, <1>3, <1>4, <1>5 DEF Ranked

\* A step that takes no unit.
LEMMA RankedRests ==
  ASSUME Ranked, UNCHANGED <<inst, mode, actions, orders>>
  PROVE  Ranked'
<1>1. inst' = inst /\ mode' = mode /\ actions' = actions /\ orders' = orders
  OBVIOUS
<1>2. Taken' = Taken
  BY <1>1 DEF Taken, Pointer!Assigned
<1>3. \A rank, n : RankedBy(rank, n) =>
        /\ \A s \in Taken' : rank[s] < n
        /\ \A s \in Taken' : \A x \in Pointer!Deps(inst', s) : x \in Taken' /\ rank[x] < rank[s]
        /\ \A r \in Robots :
             \A k \in 2 .. Len(orders'[r]) : rank[orders'[r][k - 1]] < rank[orders'[r][k]]
  BY <1>1, <1>2 DEF RankedBy
<1>4. QED
  BY <1>1, <1>2, <1>3 DEF Ranked, RankedBy, Pointer!Deps, Pointer!ParentPrevious,
                          Pointer!SameCurve

LEMMA RankedStep ==
  ASSUME Pointer!IInv, PairsTaken, Ranked, [Pointer!Next]_(Pointer!vars)
  PROVE  Ranked'
<1>1. CASE mode \notin {"pointer", "teacher"}
  <2>1. mode' = mode
    BY DEF Pointer!Next, Pointer!UnitsRaise, Pointer!greedy_rollout, Pointer!PointerDeadEnd,
           Pointer!canonical_teacher_actions, Pointer!TeacherCyclic, Pointer!state_from_plan,
           Pointer!UnitWithoutRobot, Pointer!AssignUnits, Pointer!precedence_aware_orders,
           Pointer!replay_pointer_actions, Pointer!End, Pointer!Take, Pointer!args, Pointer!vars
  <2>2. QED  BY <1>1, <2>1 DEF Ranked
<1>2. CASE mode \in {"pointer", "teacher"}
  <2>1. CASE Pointer!greedy_rollout
    <3>1. PICK p \in Pointer!feasible_pair_mask : Pointer!Take(p[1], p[2])
      BY <2>1 DEF Pointer!greedy_rollout
    <3>2. p[1] \in Pointer!ReadyUnits
      BY DEF Pointer!feasible_pair_mask
    <3>3. QED  BY <1>2, <2>1, <3>1, <3>2, RankedTakes DEF Pointer!greedy_rollout
  <2>2. CASE Pointer!canonical_teacher_actions
    <3>1. PICK U \in Pointer!ReadyUnits :
            Pointer!Take(U, given.robot[given.start[Pointer!StartOf(U)]])
      BY <2>2 DEF Pointer!canonical_teacher_actions
    <3>2. QED  BY <1>2, <2>2, <3>1, RankedTakes DEF Pointer!canonical_teacher_actions
  <2>3. CASE UNCHANGED <<inst, mode, actions, orders>>
    BY <2>3, RankedRests
  <2>4. QED
    BY <1>2, <2>1, <2>2, <2>3
       DEF Pointer!Next, Pointer!UnitsRaise, Pointer!PointerDeadEnd, Pointer!TeacherCyclic,
           Pointer!state_from_plan, Pointer!UnitWithoutRobot, Pointer!AssignUnits,
           Pointer!precedence_aware_orders, Pointer!replay_pointer_actions, Pointer!End,
           Pointer!args, Pointer!vars
<1>3. QED  BY <1>1, <1>2

\* Only the replay of orders that wait in a circle deadlocks.
LEMMA NoDeadlockStep ==
  ASSUME Pointer!IInv, Ranked, Pointer!BlocksNeverDeadlock, [Pointer!Next]_(Pointer!vars)
  PROVE  Pointer!BlocksNeverDeadlock'
<1>1. mode' = mode
  BY DEF Pointer!Next, Pointer!UnitsRaise, Pointer!greedy_rollout, Pointer!PointerDeadEnd,
         Pointer!canonical_teacher_actions, Pointer!TeacherCyclic, Pointer!state_from_plan,
         Pointer!UnitWithoutRobot, Pointer!AssignUnits, Pointer!precedence_aware_orders,
         Pointer!replay_pointer_actions, Pointer!End, Pointer!Take, Pointer!args, Pointer!vars
<1>2. CASE Pointer!replay_pointer_actions
  <2>1. CASE Pointer!Stuck
    <3>1. mode \notin {"pointer", "teacher"}
      BY <1>2, <2>1, RankedNeverStuck DEF Pointer!IInv, Pointer!replay_pointer_actions
    <3>2. QED  BY <1>1, <3>1 DEF Pointer!BlocksNeverDeadlock
  <2>2. CASE ~ Pointer!Stuck
    <3>1. status' # "deadlock"
      BY <1>2, <2>2 DEF Pointer!replay_pointer_actions, Pointer!End
    <3>2. QED  BY <3>1 DEF Pointer!BlocksNeverDeadlock
  <2>3. QED  BY <2>1, <2>2
<1>3. CASE status' # "deadlock"
  BY <1>3 DEF Pointer!BlocksNeverDeadlock
<1>4. CASE UNCHANGED status
  BY <1>1, <1>4 DEF Pointer!BlocksNeverDeadlock
<1>5. QED
  BY <1>2, <1>3, <1>4
     DEF Pointer!Next, Pointer!UnitsRaise, Pointer!greedy_rollout, Pointer!PointerDeadEnd,
         Pointer!canonical_teacher_actions, Pointer!TeacherCyclic, Pointer!state_from_plan,
         Pointer!UnitWithoutRobot, Pointer!AssignUnits, Pointer!precedence_aware_orders,
         Pointer!End, Pointer!Take, Pointer!vars

\* However the pairs were chosen from the mask, or replayed from a verified
\* plan, the orders they leave behind do not wait for each other in a circle,
\* for any precedence, any curves and any policies a valid instance may have.
THEOREM BlocksNeverDeadlockHolds == CallSpec => []BlocksNeverDeadlock
<1> DEFINE Inv == part = "pointer_rollout" =>
                    Pointer!IInv /\ PairsTaken /\ Ranked /\ Pointer!BlocksNeverDeadlock
<1>1. CallInit => Inv
  <2>1. Pointer!Init => Pointer!BlocksNeverDeadlock
    BY DEF Pointer!Init, Pointer!BlocksNeverDeadlock
  <2>2. QED  BY <2>1, PointerInit, RankedInit DEF CallInit
<1>2. Inv /\ [CallNext]_everything => Inv'
  <2> SUFFICES ASSUME Inv, [CallNext]_everything, part' = "pointer_rollout"
               PROVE  (Pointer!IInv /\ PairsTaken /\ Ranked /\ Pointer!BlocksNeverDeadlock)'
    OBVIOUS
  <2>1. part = "pointer_rollout"
    BY DEF CallNext, everything
  <2>2. [Pointer!Next]_(Pointer!vars)
    BY <2>1 DEF CallNext, everything, pointerOwn, Pointer!vars
  <2>3. QED  BY <2>1, <2>2, PointerStep, RankedStep, NoDeadlockStep
<1>3. Inv => BlocksNeverDeadlock
  BY DEF BlocksNeverDeadlock
<1>4. QED  BY <1>1, <1>2, <1>3, PTL DEF CallSpec
-----------------------------------------------------------------------------
(* The repair of IdenticalRepair.                                           *)

\* An evaluation says whether the plan verifies, and costs a natural number.
LEMMA EvaluationTypes ==
  ASSUME NEW s, NEW e \in Identical!evaluate_state(s)
  PROVE  Identical!Scored(e)
<1>1. Objectives \subseteq Nat
  BY IdenticalConstants DEF Identical!RepairAssumption
<1> DEFINE unverified(failed) == [verified |-> FALSE, objective |-> 0,
                                  surrogate |-> Identical!Surrogate(s, failed)]
<1>2. \/ \E failed \in BOOLEAN : e = unverified(failed)
      \/ \E o \in Objectives : e = [verified |-> TRUE, objective |-> o, surrogate |-> o]
  BY Zenon DEF Identical!evaluate_state
<1>3. CASE \E failed \in BOOLEAN : e = unverified(failed)
  BY <1>3 DEF Identical!Scored
<1>4. CASE \E o \in Objectives : e = [verified |-> TRUE, objective |-> o, surrogate |-> o]
  BY <1>1, <1>4 DEF Identical!Scored
<1>5. QED  BY <1>2, <1>3, <1>4

LEMMA IdenticalInit == Identical!Init => Identical!IInv
<1> SUFFICES ASSUME Identical!Init PROVE Identical!IInv
  OBVIOUS
<1>1. Identical!Scored(currentEval) /\ bestEval = currentEval
  BY EvaluationTypes DEF Identical!Init
<1>2. /\ now = 0
      /\ firstTime = IF currentEval.verified THEN {0} ELSE {}
      /\ targetTime = IF Identical!Reached(currentEval) THEN {0} ELSE {}
  BY DEF Identical!Init
<1>3. Identical!TimesPast
  BY <1>2 DEF Identical!TimesPast
<1>4. Identical!IncumbentBookkeeping
  BY <1>1, <1>2 DEF Identical!IncumbentBookkeeping, Identical!Reached, Identical!Scored
<1>5. QED  BY <1>1, <1>3, <1>4 DEF Identical!IInv

\* What the iteration makes of the incumbent and the times.
Judged(e, accepted) ==
  /\ currentEval' = IF accepted THEN e ELSE currentEval
  /\ bestEval' = IF /\ e.verified
                    /\ ~bestEval.verified \/ e.objective < bestEval.objective
                 THEN e ELSE bestEval
  /\ firstTime' = IF firstTime = {} /\ e.verified THEN {now'} ELSE firstTime
  /\ targetTime' = IF targetTime = {} /\ Identical!Reached(e) THEN {now'} ELSE targetTime

\* The acceptance rule keeps the current state as good as the incumbent.
LEMMA JudgedKeepsIncumbent ==
  ASSUME Identical!IInv, NEW e, Identical!Scored(e), NEW accepted \in Identical!Accepts(e),
         Judged(e, accepted)
  PROVE  /\ Identical!Scored(currentEval') /\ Identical!Scored(bestEval')
         /\ bestEval'.verified = currentEval'.verified
         /\ bestEval'.verified => currentEval'.objective = bestEval'.objective
<1>1. /\ Identical!Scored(currentEval) /\ Identical!Scored(bestEval)
      /\ bestEval.verified = currentEval.verified
      /\ bestEval.verified => currentEval.objective = bestEval.objective
  BY DEF Identical!IInv, Identical!IncumbentBookkeeping
<1>2. /\ e.verified \in BOOLEAN /\ e.objective \in Nat
      /\ currentEval.verified \in BOOLEAN /\ currentEval.objective \in Nat
      /\ bestEval.verified \in BOOLEAN /\ bestEval.objective \in Nat
  BY <1>1 DEF Identical!Scored
<1>3. CASE e.verified /\ ~ currentEval.verified
  <2>1. accepted = TRUE
    BY <1>3 DEF Identical!Accepts
  <2>2. currentEval' = e /\ bestEval' = e
    BY <1>1, <1>3, <2>1 DEF Judged
  <2>3. QED  BY <2>2
<1>4. CASE e.verified /\ currentEval.verified
  <2>1. accepted = (e.objective <= currentEval.objective)
    BY <1>4 DEF Identical!Accepts
  <2>2. CASE e.objective < currentEval.objective
    <3>a. (e.objective <= currentEval.objective) = TRUE
      BY <1>2, <2>2
    <3>b. accepted = TRUE
      BY <3>a, <2>1
    <3>c. bestEval.verified /\ e.objective < bestEval.objective
      BY <1>1, <1>2, <1>4, <2>2
    <3>1. currentEval' = e /\ bestEval' = e
      BY <1>4, <3>b, <3>c DEF Judged
    <3>2. QED  BY <3>1
  <2>3. CASE e.objective = currentEval.objective
    <3>a. (e.objective <= currentEval.objective) = TRUE
      BY <1>2, <2>3
    <3>b. accepted = TRUE
      BY <3>a, <2>1
    <3>c. bestEval.verified /\ ~ (e.objective < bestEval.objective)
      BY <1>1, <1>2, <1>4, <2>3
    <3>1. currentEval' = e /\ bestEval' = bestEval
      BY <1>4, <3>b, <3>c DEF Judged
    <3>2. QED  BY <3>1, <1>1, <1>4, <2>3
  <2>4. CASE currentEval.objective < e.objective
    <3>a. (e.objective <= currentEval.objective) = FALSE
      BY <1>2, <2>4
    <3>b. accepted = FALSE
      BY <3>a, <2>1
    <3>c. bestEval.verified /\ ~ (e.objective < bestEval.objective)
      BY <1>1, <1>2, <1>4, <2>4
    <3>1. currentEval' = currentEval /\ bestEval' = bestEval
      BY <1>4, <3>b, <3>c DEF Judged
    <3>2. QED  BY <3>1, <1>1
  <2>5. QED  BY <2>2, <2>3, <2>4, <1>2
<1>5. CASE ~ e.verified /\ currentEval.verified
  <2>1. accepted = FALSE
    BY <1>5 DEF Identical!Accepts
  <2>2. currentEval' = currentEval /\ bestEval' = bestEval
    BY <1>5, <2>1 DEF Judged
  <2>3. QED  BY <2>2, <1>1
<1>6. CASE ~ e.verified /\ ~ currentEval.verified
  <2>1. bestEval' = bestEval /\ currentEval' \in {e, currentEval}
    BY <1>6 DEF Judged
  <2>2. QED  BY <2>1, <1>1, <1>2, <1>6
<1>7. QED  BY <1>3, <1>4, <1>5, <1>6, <1>2

\* The times follow the incumbent, and lie in the past.
LEMMA JudgedKeepsTimes ==
  ASSUME Identical!IInv, NEW e, Identical!Scored(e), NEW accepted,
         Judged(e, accepted), NEW ticks \in 1..2, now' = now + ticks
  PROVE  /\ Identical!TimesPast'
         /\ (firstTime' # {}) = bestEval'.verified
         /\ (targetTime' # {}) = Identical!Reached(bestEval')
         /\ \A t \in targetTime' : \A f \in firstTime' : f <= t
<1>1. /\ (firstTime # {}) = bestEval.verified
      /\ (targetTime # {}) = Identical!Reached(bestEval)
      /\ \A t \in targetTime : \A f \in firstTime : f <= t
      /\ now \in Nat /\ firstTime \subseteq 0..now /\ targetTime \subseteq 0..now
  BY DEF Identical!IInv, Identical!IncumbentBookkeeping, Identical!TimesPast
<1>2. /\ e.verified \in BOOLEAN /\ e.objective \in Nat
      /\ bestEval.verified \in BOOLEAN /\ bestEval.objective \in Nat
      /\ TargetScore \in Nat
  BY IdenticalConstants DEF Identical!IInv, Identical!Scored, Identical!RepairAssumption
<1>3. now' \in Nat /\ now < now' /\ \A t \in 0..now : t \in 0..now' /\ t <= now'
  BY <1>1
<1>4. Identical!TimesPast'
  <2>1. firstTime' \in {firstTime, {now'}} /\ targetTime' \in {targetTime, {now'}}
    BY DEF Judged
  <2>2. QED  BY <1>1, <1>3, <2>1 DEF Identical!TimesPast
<1>5. (firstTime' # {}) = bestEval'.verified
  <2>1. CASE e.verified
    <3>1. bestEval'.verified
      BY <2>1, <1>2 DEF Judged
    <3>2. firstTime' # {}
      BY <2>1, <1>2 DEF Judged
    <3>3. bestEval'.verified \in BOOLEAN
      BY <1>2 DEF Judged
    <3>4. QED  BY <3>1, <3>2, <3>3
  <2>2. CASE ~ e.verified
    BY <2>2, <1>1, <1>2 DEF Judged
  <2>3. QED  BY <2>1, <2>2
<1>6. (targetTime' # {}) = Identical!Reached(bestEval')
  <2>1. CASE bestEval' = e
    <3>1. CASE Identical!Reached(e)
      BY <2>1, <3>1, <1>1 DEF Judged, Identical!Reached
    <3>2. CASE ~ Identical!Reached(e)
      <4>1. targetTime' = targetTime
        BY <3>2 DEF Judged
      <4>2. ~ Identical!Reached(bestEval)
        BY <2>1, <3>2, <1>2 DEF Judged, Identical!Reached
      <4>3. QED  BY <2>1, <3>2, <4>1, <4>2, <1>1 DEF Identical!Reached
    <3>3. QED  BY <3>1, <3>2
  <2>2. CASE bestEval' = bestEval /\ bestEval # e
    <3>1. Identical!Reached(e) => Identical!Reached(bestEval)
      BY <2>2, <1>2 DEF Judged, Identical!Reached
    <3>2. targetTime' = targetTime
      BY <3>1, <1>1 DEF Judged
    <3>3. QED  BY <2>2, <3>2, <1>1
  <2>3. QED  BY <2>1, <2>2 DEF Judged
<1>7. \A t \in targetTime' : \A f \in firstTime' : f <= t
  <2>1. CASE targetTime' = targetTime
    <3>1. CASE firstTime' = firstTime
      BY <2>1, <3>1, <1>1
    <3>2. CASE firstTime' # firstTime
      <4>1. firstTime = {}
        BY <3>2 DEF Judged
      <4>2. targetTime = {}
        BY <4>1, <1>1, <1>2 DEF Identical!Reached
      <4>3. QED  BY <4>2, <2>1
    <3>3. QED  BY <3>1, <3>2
  <2>2. CASE targetTime' # targetTime
    <3>1. targetTime' = {now'}
      BY <2>2 DEF Judged
    <3>2. QED  BY <3>1, <1>4, <1>3 DEF Identical!TimesPast
  <2>3. QED  BY <2>1, <2>2
<1>8. QED  BY <1>4, <1>5, <1>6, <1>7

LEMMA IdenticalStep == Identical!IInv /\ [Identical!Next]_(Identical!vars) => Identical!IInv'
<1> SUFFICES ASSUME Identical!IInv, [Identical!Next]_(Identical!vars) PROVE Identical!IInv'
  OBVIOUS
<1>1. CASE Identical!Iterate
  <2>1. PICK ticks \in 1..2 : now' = now + ticks
    BY <1>1 DEF Identical!Iterate
  <2>2. PICK s, e : /\ e \in Identical!evaluate_state(s)
                    /\ \E accepted \in Identical!Accepts(e) : Judged(e, accepted)
    BY <1>1 DEF Identical!Iterate, Judged
  <2>3. PICK accepted \in Identical!Accepts(e) : Judged(e, accepted)
    BY <2>2
  <2>4. Identical!Scored(e)
    BY <2>2, EvaluationTypes
  <2>5. /\ Identical!Scored(currentEval') /\ Identical!Scored(bestEval')
        /\ bestEval'.verified = currentEval'.verified
        /\ bestEval'.verified => currentEval'.objective = bestEval'.objective
    BY <2>3, <2>4, JudgedKeepsIncumbent
  <2>6. /\ Identical!TimesPast'
        /\ (firstTime' # {}) = bestEval'.verified
        /\ (targetTime' # {}) = Identical!Reached(bestEval')
        /\ \A t \in targetTime' : \A f \in firstTime' : f <= t
    BY <2>1, <2>3, <2>4, JudgedKeepsTimes
  <2>7. QED  BY <2>5, <2>6 DEF Identical!IInv, Identical!IncumbentBookkeeping, Identical!Scored
<1>2. CASE UNCHANGED <<now, currentEval, bestEval, firstTime, targetTime>>
  BY <1>2 DEF Identical!IInv, Identical!Scored, Identical!TimesPast,
              Identical!IncumbentBookkeeping, Identical!Reached
<1>3. QED
  BY <1>1, <1>2 DEF Identical!Next, Identical!Return, Identical!vars

\* Whatever the operators, the random numbers and the verifier make of a state,
\* the repair never walks away from a verified incumbent, and the first feasible
\* time and the time to target it reports tell the truth about it.
THEOREM IncumbentBookkeepingHolds == CallSpec => []IncumbentBookkeeping
<1> DEFINE Inv == part = "identical_repair" => Identical!IInv
<1>1. CallInit => Inv
  BY IdenticalInit DEF CallInit
<1>2. Inv /\ [CallNext]_everything => Inv'
  <2> SUFFICES ASSUME Inv, [CallNext]_everything, part' = "identical_repair"
               PROVE  Identical!IInv'
    OBVIOUS
  <2>1. part = "identical_repair"
    BY DEF CallNext, everything
  <2>2. [Identical!Next]_(Identical!vars)
    BY <2>1 DEF CallNext, everything, identicalOwn, Identical!vars, Identical!input
  <2>3. QED  BY <2>1, <2>2, IdenticalStep
<1>3. Inv => IncumbentBookkeeping
  BY DEF IncumbentBookkeeping, Identical!IInv
<1>4. QED  BY <1>1, <1>2, <1>3, PTL DEF CallSpec
-----------------------------------------------------------------------------
(* The assignment solvers.                                                  *)

\* What the constants say of an instance of the solvers.
LEMMA SolverFacts ==
  ASSUME given \in SolverInstances
  PROVE  /\ NoPlan \in Nat /\ SearchNodes \in Nat /\ given.nodes \in Nat
         /\ \A a \in Solvers!Admissible : given.seq[a].exact \in 0 .. NoPlan
         /\ IsFiniteSet(Solvers!Admissible)
<1>1. /\ NoPlan \in Nat /\ SearchNodes \in Nat /\ given.nodes \in Nat
      /\ \A a \in [1..UnitCount -> Robots] : given.seq[a].exact \in 0 .. NoPlan
  BY SolverConstants DEF Solvers!SolverAssumption
<1>2. Solvers!Admissible \in SUBSET [1..UnitCount -> Robots]
  BY DEF Solvers!Admissible, Solvers!Assignment, Solvers!Units
<1>3. IsFiniteSet([1..UnitCount -> Robots])
  BY SolverConstants DEF Solvers!SolverAssumption, Solvers!IsFiniteSet, IsFiniteSet
<1>4. IsFiniteSet(Solvers!Admissible)
  BY <1>2, <1>3, FS_Subset
<1>5. QED  BY <1>1, <1>2, <1>4

\* The enumeration leaves no admissible assignment out.
LEMMA EnumerationComplete ==
  ASSUME NEW S, IsFiniteSet(S)
  PROVE  /\ Solvers!Cardinality(S) \in Nat
         /\ \A i \in 1 .. Solvers!Cardinality(S) : Solvers!SetToSeq(S)[i] \in S
         /\ \A a \in S : \E i \in 1 .. Solvers!Cardinality(S) : Solvers!SetToSeq(S)[i] = a
<1> DEFINE n == Cardinality(S)
<1> DEFINE F == {f \in [1 .. n -> S] : \A i, j \in DOMAIN f : f[i] = f[j] => i = j}
<1> DEFINE e == CHOOSE f \in [1 .. n -> S] : \A i, j \in DOMAIN f : f[i] = f[j] => i = j
<1>1. Solvers!Cardinality(S) = n
  BY DEF Solvers!Cardinality, Cardinality
<1>2. n \in Nat /\ ExistsBijection(1 .. n, S)
  BY FS_CardinalityType
<1>3. PICK b : b \in Injection(1 .. n, S)
  BY <1>2 DEF ExistsBijection, Bijection
<1>4. b \in F
  BY <1>3 DEF Injection, IsInjective
<1>5. e \in F
  BY <1>4
<1>6. e \in Injection(1 .. n, S)
  BY <1>5 DEF Injection, IsInjective
<1>7. IsFiniteSet(1 .. n) /\ Cardinality(1 .. n) = n
  BY <1>2, FS_Interval
<1>8. e \in Surjection(1 .. n, S)
  BY <1>6, <1>7, FS_Injection
<1>9. Solvers!SetToSeq(S) = e
  BY <1>1 DEF Solvers!SetToSeq, Solvers!IsInjective
<1> HIDE DEF e
<1>10. QED  BY <1>1, <1>2, <1>5, <1>8, <1>9 DEF Surjection

\* The least score of those enumerated so far, as the code keeps it.
LEMMA IncumbentNoWorse ==
  ASSUME NEW score \in Int, NEW a, best.score \in Int
  PROVE  LET b == Solvers!Incumbent(score, a)
         IN  /\ b.score \in {score, best.score}
             /\ b.score <= score /\ b.score <= best.score
<1>1. CASE score < best.score
  BY <1>1 DEF Solvers!Incumbent
<1>2. CASE ~ (score < best.score)
  BY <1>2 DEF Solvers!Incumbent
<1>3. QED  BY <1>1, <1>2

LEMMA SolversInit == Solvers!Init => Solvers!IInv
<1> SUFFICES ASSUME Solvers!Init PROVE Solvers!IInv
  OBVIOUS
<1>1. /\ given \in SolverInstances /\ step = 0 /\ nodes = 0 /\ best.score = NoPlan
      /\ result = Solvers!NoResult
  BY DEF Solvers!Init
<1>2. NoPlan \in Nat /\ given.nodes \in Nat /\ Solvers!Cardinality(Solvers!Admissible) \in Nat
  BY <1>1, SolverFacts, EnumerationComplete
<1>3. QED
  BY <1>1, <1>2 DEF Solvers!IInv, Solvers!EnumeratedSoFar, Solvers!JointReferenceExact

\* A step of another solver.
LEMMA OtherSolver ==
  ASSUME Solvers!IInv, method # "joint", UNCHANGED <<given, method>>
  PROVE  Solvers!IInv'
BY DEF Solvers!IInv, Solvers!EnumeratedSoFar, Solvers!JointReferenceExact

\* A step that leaves the enumeration alone.
LEMMA EnumerationRests ==
  ASSUME Solvers!IInv, UNCHANGED <<given, method, step, best, nodes>>,
         Solvers!JointReferenceExact'
  PROVE  Solvers!IInv'
<1>1. Solvers!Admissible' = Solvers!Admissible
  BY DEF Solvers!Admissible, Solvers!Eligible
<1>2. /\ given' = given /\ method' = method /\ step' = step /\ best' = best /\ nodes' = nodes
  OBVIOUS
<1>3. QED
  BY <1>1, <1>2 DEF Solvers!IInv, Solvers!EnumeratedSoFar

\* A step that returns.
LEMMA SolverReturns ==
  ASSUME Solvers!IInv, NEW r, Solvers!Return(r), method = "joint",
         r.status = "optimal" => \A a \in Solvers!Admissible : r.score <= given.seq[a].exact,
         r.status = "infeasible" => \A a \in Solvers!Admissible : given.seq[a].exact = NoPlan
  PROVE  Solvers!IInv'
<1>1. result' = r /\ UNCHANGED <<given, method, step, best, nodes>>
  BY DEF Solvers!Return
<1>2. Solvers!Admissible' = Solvers!Admissible
  BY <1>1 DEF Solvers!Admissible, Solvers!Eligible
<1>3. nodes \in 0 .. given.nodes /\ given.nodes \in Nat
  BY SolverFacts DEF Solvers!IInv, Solvers!EnumeratedSoFar
<1>4. nodes' <= given'.nodes
  BY <1>1, <1>3
<1>5. Solvers!JointReferenceExact'
  BY <1>1, <1>2, <1>4 DEF Solvers!JointReferenceExact
<1>6. QED  BY <1>1, <1>5, EnumerationRests

\* A step that has looked at one more assignment, or at part of its sequences.
LEMMA EnumerationGoesOn ==
  ASSUME Solvers!IInv, method = "joint", UNCHANGED <<given, method>>,
         step < Solvers!Cardinality(Solvers!Admissible),
         NEW a, a = Solvers!SetToSeq(Solvers!Admissible)[step + 1],
         NEW score, score \in given.seq[a].exact .. NoPlan,
         best' = Solvers!Incumbent(score, a),
         \/ step' = step
         \/ step' = step + 1 /\ score = given.seq[a].exact,
         nodes' \in 0 .. given.nodes
  PROVE  Solvers!EnumeratedSoFar'
<1> DEFINE A == Solvers!Admissible
<1> DEFINE Score(i) == given.seq[Solvers!SetToSeq(A)[i]].exact
<1>1. /\ given' = given /\ Solvers!Admissible' = A
  BY DEF Solvers!Admissible, Solvers!Eligible
<1>2. /\ step \in 0 .. Solvers!Cardinality(A) /\ best.score \in 0 .. NoPlan
      /\ \A i \in 1 .. step : best.score <= Score(i)
  BY DEF Solvers!IInv, Solvers!EnumeratedSoFar
<1>3. /\ NoPlan \in Nat /\ Solvers!Cardinality(A) \in Nat
      /\ \A i \in 1 .. Solvers!Cardinality(A) : Score(i) \in 0 .. NoPlan
  BY SolverFacts, EnumerationComplete DEF Solvers!IInv
<1>4. step + 1 \in 1 .. Solvers!Cardinality(A) /\ given.seq[a].exact = Score(step + 1)
  BY <1>2, <1>3
<1> HIDE DEF Score, A
<1>5. score \in 0 .. NoPlan /\ Score(step + 1) \in 0 .. NoPlan
  <2>1. Score(step + 1) \in 0 .. NoPlan
    BY <1>3, <1>4
  <2>2. QED  BY <2>1, <1>3, <1>4
<1>6. best'.score \in 0 .. NoPlan /\ best'.score <= score /\ best'.score <= best.score
  BY <1>2, <1>3, <1>5, IncumbentNoWorse
<1>7. step' \in 0 .. Solvers!Cardinality(A)
  BY <1>2, <1>3, <1>4
<1>8. ASSUME NEW i \in 1 .. step'
      PROVE  best'.score <= Score(i)
  <2>1. CASE i \in 1 .. step
    <3>1. best.score <= Score(i) /\ Score(i) \in 0 .. NoPlan
      BY <2>1, <1>2, <1>3
    <3>2. QED  BY <3>1, <1>2, <1>3, <1>6
  <2>2. CASE i = step + 1 /\ score = Score(step + 1)
    BY <2>2, <1>6
  <2>3. i \in 1 .. step \/ (i = step + 1 /\ score = Score(step + 1))
    BY <1>2, <1>3, <1>4, <1>7
  <2>4. QED  BY <2>1, <2>2, <2>3
<1>9. QED
  BY <1>1, <1>6, <1>7, <1>8 DEF Solvers!EnumeratedSoFar, Score, A

LEMMA SolversStep == Solvers!IInv /\ [Solvers!Next]_(Solvers!vars) => Solvers!IInv'
<1> SUFFICES ASSUME Solvers!IInv, [Solvers!Next]_(Solvers!vars) PROVE Solvers!IInv'
  OBVIOUS
<1> DEFINE A == Solvers!Admissible
<1>a. /\ NoPlan \in Nat /\ SearchNodes \in Nat /\ given.nodes \in Nat
      /\ \A a \in A : given.seq[a].exact \in 0 .. NoPlan
      /\ Solvers!Cardinality(A) \in Nat
      /\ \A i \in 1 .. Solvers!Cardinality(A) : Solvers!SetToSeq(A)[i] \in A
      /\ \A a \in A : \E i \in 1 .. Solvers!Cardinality(A) : Solvers!SetToSeq(A)[i] = a
  BY SolverFacts, EnumerationComplete DEF Solvers!IInv
<1>b. given \in SolverInstances /\ Solvers!JointReferenceExact
  BY DEF Solvers!IInv
<1>1. CASE Solvers!solve_greedy
  BY <1>1, OtherSolver DEF Solvers!solve_greedy, Solvers!Running, Solvers!Return
<1>2. CASE Solvers!solve_load_balanced
  BY <1>2, OtherSolver DEF Solvers!solve_load_balanced, Solvers!Running, Solvers!Return
<1>3. CASE Solvers!solve_hybrid_load_balanced
  BY <1>3, OtherSolver DEF Solvers!solve_hybrid_load_balanced, Solvers!Running, Solvers!Return
<1>4. CASE Solvers!solve_hungarian
  BY <1>4, OtherSolver DEF Solvers!solve_hungarian, Solvers!Running, Solvers!Return
<1>5. CASE Solvers!solve_assignment_milp
  BY <1>5, OtherSolver DEF Solvers!solve_assignment_milp, Solvers!Running, Solvers!Return
<1>6. CASE Solvers!solve_assignment_beam
  BY <1>6, OtherSolver DEF Solvers!solve_assignment_beam, Solvers!Running, Solvers!Return
<1>7. CASE Solvers!NoInitialPlan
  BY <1>7, OtherSolver DEF Solvers!NoInitialPlan, Solvers!Running, Solvers!Return
<1>8. CASE Solvers!RefuseSearch
  <2>1. Solvers!UnitWithoutRobot /\ Solvers!Return(Solvers!Infeasible)
    BY <1>8 DEF Solvers!RefuseSearch
  <2>2. A = {}
    BY <2>1 DEF Solvers!UnitWithoutRobot, Solvers!Admissible
  <2>3. CASE method = "joint"
    BY <2>1, <2>2, <2>3, SolverReturns
  <2>4. CASE method # "joint"
    BY <2>1, <2>4, OtherSolver DEF Solvers!Return
  <2>5. QED  BY <2>3, <2>4
<1>9. CASE Solvers!deterministic_lns
  BY <1>9, OtherSolver DEF Solvers!deterministic_lns, Solvers!Iterate, Solvers!Running
<1>10. CASE Solvers!order_aware_lns
  BY <1>10, OtherSolver DEF Solvers!order_aware_lns, Solvers!Iterate, Solvers!Running
<1>11. CASE Solvers!beam_alns
  BY <1>11, OtherSolver DEF Solvers!beam_alns, Solvers!Iterate, Solvers!Running
<1>12. CASE Solvers!LnsReturn
  <2>1. method # "joint"
    BY <1>12 DEF Solvers!LnsReturn, Solvers!LnsMethods
  <2>2. QED  BY <1>12, <2>1, OtherSolver DEF Solvers!LnsReturn, Solvers!Return
<1>13. CASE Solvers!JointRefuse
  <2>1. /\ method = "joint"
        /\ Solvers!Return([Solvers!NoResult EXCEPT !.status = "unsupported_scale"])
    BY <1>13 DEF Solvers!JointRefuse, Solvers!JointRuns, Solvers!Running
  <2>2. [Solvers!NoResult EXCEPT !.status = "unsupported_scale"].status = "unsupported_scale"
    BY DEF Solvers!NoResult
  <2>3. QED  BY <2>1, <2>2, SolverReturns
<1>14. CASE Solvers!JointAssignment
  <2> DEFINE a == Solvers!SetToSeq(A)[step + 1]
  <2>1. /\ method = "joint" /\ result = Solvers!NoResult
        /\ step < Solvers!Cardinality(A)
        /\ nodes < given.nodes /\ nodes + SearchNodes <= given.nodes
        /\ best' = Solvers!Incumbent(given.seq[a].exact, a)
        /\ nodes' = nodes + SearchNodes /\ step' = step + 1
        /\ UNCHANGED <<given, method, result, outcome>>
    BY <1>14 DEF Solvers!JointAssignment, Solvers!JointRuns, Solvers!Running
  <2>2. step \in Nat /\ nodes \in 0 .. given.nodes
    BY <2>1 DEF Solvers!IInv, Solvers!EnumeratedSoFar
  <2>3. a \in A
    BY <1>a, <2>1, <2>2
  <2>4. given.seq[a].exact \in 0 .. NoPlan
    BY <1>a, <2>3
  <2>5. given.seq[a].exact \in given.seq[a].exact .. NoPlan
    BY <2>4, <1>a
  <2>6. nodes' \in 0 .. given.nodes
    BY <1>a, <2>1, <2>2
  <2> HIDE DEF a
  <2>7. Solvers!EnumeratedSoFar'
    BY <2>1, <2>5, <2>6, EnumerationGoesOn DEF a
  <2>8. QED
    BY <1>b, <2>1, <2>7 DEF Solvers!IInv, Solvers!JointReferenceExact, Solvers!NoResult
<1>15. CASE Solvers!JointOutOfBudget
  <2>1. method = "joint" /\ Solvers!Return(Solvers!JointResult(best, FALSE))
    BY <1>15 DEF Solvers!JointOutOfBudget, Solvers!JointRuns, Solvers!Running
  <2>2. Solvers!JointResult(best, FALSE).status \in {"limit", "feasible_limit"}
    BY DEF Solvers!JointResult
  <2>3. QED  BY <2>1, <2>2, SolverReturns
<1>16. CASE Solvers!JointCutOff
  <2> DEFINE a == Solvers!SetToSeq(A)[step + 1]
  <2>1. /\ method = "joint" /\ step < Solvers!Cardinality(A) /\ nodes < given.nodes
        /\ UNCHANGED <<given, method, step, outcome>>
    BY <1>16 DEF Solvers!JointCutOff, Solvers!JointRuns, Solvers!Running
  <2>2. PICK n \in 0 .. given.nodes - nodes, score \in given.seq[a].exact .. NoPlan :
          /\ nodes' = nodes + n
          /\ best' = Solvers!Incumbent(score, a)
          /\ result' = Solvers!JointResult(best', FALSE)
    BY <1>16 DEF Solvers!JointCutOff
  <2>3. nodes' \in 0 .. given.nodes
    <3>1. nodes \in 0 .. given.nodes
      BY <2>1 DEF Solvers!IInv, Solvers!EnumeratedSoFar
    <3>2. QED  BY <1>a, <2>2, <3>1
  <2> HIDE DEF a
  <2>4. Solvers!EnumeratedSoFar'
    BY <2>1, <2>2, <2>3, EnumerationGoesOn DEF a
  <2>5. result'.status \in {"limit", "feasible_limit"}
    BY <2>2 DEF Solvers!JointResult
  <2>6. Solvers!JointReferenceExact'
    BY <1>a, <2>1, <2>3, <2>5 DEF Solvers!JointReferenceExact
  <2>7. QED  BY <1>b, <2>1, <2>4, <2>6 DEF Solvers!IInv
<1>17. CASE Solvers!JointReturn
  <2>1. /\ method = "joint" /\ step = Solvers!Cardinality(A)
        /\ Solvers!Return(Solvers!JointResult(best, TRUE))
    BY <1>17 DEF Solvers!JointReturn, Solvers!JointRuns, Solvers!Running
  <2>2. /\ best.score \in 0 .. NoPlan
        /\ \A i \in 1 .. step : best.score <= given.seq[Solvers!SetToSeq(A)[i]].exact
    BY <2>1 DEF Solvers!IInv, Solvers!EnumeratedSoFar
  <2>3. \A x \in A : best.score <= given.seq[x].exact
    BY <1>a, <2>1, <2>2
  <2>4. Solvers!JointResult(best, TRUE).score = best.score
    BY DEF Solvers!JointResult
  <2>5. Solvers!JointResult(best, TRUE).status = "infeasible" => best.score = NoPlan
    BY DEF Solvers!JointResult
  <2>6. best.score = NoPlan => \A x \in A : given.seq[x].exact = NoPlan
    BY <1>a, <2>3
  <2>7. QED  BY <2>1, <2>3, <2>4, <2>5, <2>6, SolverReturns
<1>18. CASE UNCHANGED <<given, method, step, best, nodes, result>>
  <2>1. Solvers!Admissible' = Solvers!Admissible
    BY <1>18 DEF Solvers!Admissible, Solvers!Eligible
  <2>2. Solvers!JointReferenceExact'
    BY <1>b, <1>18, <2>1 DEF Solvers!JointReferenceExact
  <2>3. QED  BY <1>18, <2>2, EnumerationRests
<1>19. QED
  BY <1>1, <1>2, <1>3, <1>4, <1>5, <1>6, <1>7, <1>8, <1>9, <1>10, <1>11, <1>12, <1>13,
     <1>14, <1>15, <1>16, <1>17, <1>18 DEF Solvers!Next, Solvers!Adapt, Solvers!vars

\* "optimal" and "infeasible" of the joint reference speak of every admissible
\* assignment, whichever budget cut its enumeration short, and the nodes it
\* expands stay within its limit.
THEOREM JointReferenceExactHolds == CallSpec => []JointReferenceExact
<1> DEFINE Inv == part = "assignment_solvers" => Solvers!IInv
<1>1. CallInit => Inv
  BY SolversInit DEF CallInit
<1>2. Inv /\ [CallNext]_everything => Inv'
  <2> SUFFICES ASSUME Inv, [CallNext]_everything, part' = "assignment_solvers"
               PROVE  Solvers!IInv'
    OBVIOUS
  <2>1. part = "assignment_solvers"
    BY DEF CallNext, everything
  <2>2. [Solvers!Next]_(Solvers!vars)
    BY <2>1 DEF CallNext, everything, solversOwn, Solvers!vars
  <2>3. QED  BY <2>1, <2>2, SolversStep
<1>3. Inv => JointReferenceExact
  BY DEF JointReferenceExact, Solvers!IInv
<1>4. QED  BY <1>1, <1>2, <1>3, PTL DEF CallSpec
-----------------------------------------------------------------------------
(* The anytime search.                                                      *)

\* What the typing of the search says of its parts.
LEMMA AnytimeTypes ==
  ASSUME Anytime!Types
  PROVE  /\ InitialState \in States /\ NoState \notin States
         /\ \A s \in States : /\ quality[s].verified \in BOOLEAN
                              /\ quality[s].value \in Values /\ quality[s].value \in Int
         /\ config.deadline \in Nat /\ ready \in Nat /\ best \in States \cup {NoState}
         /\ Len(steps) \in Nat /\ DOMAIN steps = 1 .. Len(steps)
         /\ \A i \in DOMAIN steps : steps[i].candidate \in States /\ steps[i].time \in Nat
         /\ Len(incumbents) \in Nat /\ DOMAIN incumbents = 1 .. Len(incumbents)
         /\ \A i \in DOMAIN incumbents :
              /\ incumbents[i].time \in Nat /\ incumbents[i].iteration \in Nat
              /\ incumbents[i].objective \in Int
<1> DEFINE S == [before : States, candidate : States, accepted : BOOLEAN,
                 updated : BOOLEAN, counted : BOOLEAN, time : Anytime!Times]
<1> DEFINE E == [iteration : Nat, time : Anytime!Times, objective : Values]
<1>1. Anytime!Times \subseteq Nat
  BY AnytimeConstants DEF Anytime!Times, Anytime!TimeAssumption
<1>2. Values \subseteq Int /\ InitialState \in States /\ NoState \notin States
  BY AnytimeConstants DEF Anytime!ValuesAssumption, Anytime!StatesAssumption
<1>3. \A s \in States : quality[s].verified \in BOOLEAN /\ quality[s].value \in Values
  BY DEF Anytime!Types, Anytime!Qualities
<1>4. config.deadline \in Nat
  BY AnytimeConstants DEF Anytime!Types, Anytime!ConfigsAssumption
<1>5. ready \in Nat /\ best \in States \cup {NoState}
  BY <1>1 DEF Anytime!Types
<1>6. steps \in Seq(S) /\ incumbents \in Seq(E)
  BY DEF Anytime!Types
<1>7. \A e \in S : e.candidate \in States /\ e.time \in Nat
  BY <1>1
<1>8. \A e \in E : e.time \in Nat /\ e.iteration \in Nat /\ e.objective \in Int
  BY <1>1, <1>2
<1> HIDE DEF S, E
<1>9. /\ Len(steps) \in Nat /\ DOMAIN steps = 1 .. Len(steps)
      /\ \A i \in DOMAIN steps : steps[i] \in S
  BY <1>6
<1>10. /\ Len(incumbents) \in Nat /\ DOMAIN incumbents = 1 .. Len(incumbents)
       /\ \A i \in DOMAIN incumbents : incumbents[i] \in E
  BY <1>6
<1>11. QED  BY <1>2, <1>3, <1>4, <1>5, <1>7, <1>8, <1>9, <1>10

\* The plans seen by the deadline, member by member.
LEMMA PlanOf ==
  \A s : s \in Anytime!Plans <=>
    /\ quality[s].verified
    /\ \/ s = InitialState
       \/ \E i \in DOMAIN steps : steps[i].time <= config.deadline /\ s = steps[i].candidate
BY DEF Anytime!Plans, Anytime!InTime, Anytime!Verified

LEMMA PlanThen ==
  \A s : s \in Anytime!Plans' <=>
    /\ quality'[s].verified
    /\ \/ s = InitialState
       \/ \E i \in DOMAIN steps' : steps'[i].time <= config'.deadline /\ s = steps'[i].candidate
BY DEF Anytime!Plans, Anytime!InTime, Anytime!Verified

\* A candidate that is appended counts when it came in time and verifies.
LEMMA PlansAfterStep ==
  ASSUME Anytime!Types, UNCHANGED <<quality, config>>,
         NEW e, steps' = Append(steps, e)
  PROVE  \A s : s \in Anytime!Plans' <=>
           \/ s \in Anytime!Plans
           \/ s = e.candidate /\ e.time <= config.deadline /\ quality[s].verified
<1>1. Len(steps) \in Nat /\ DOMAIN steps = 1 .. Len(steps)
  BY AnytimeTypes
<1>2. \E S : steps \in Seq(S)
  BY DEF Anytime!Types
<1>3. /\ DOMAIN steps' = 1 .. Len(steps) + 1
      /\ \A i \in DOMAIN steps : steps'[i] = steps[i]
      /\ steps'[Len(steps) + 1] = e
  BY <1>2
<1>4. DOMAIN steps' = DOMAIN steps \cup {Len(steps) + 1}
  BY <1>1, <1>3
<1>5. \A s : (\E i \in DOMAIN steps' :
                steps'[i].time <= config.deadline /\ s = steps'[i].candidate)
             <=> \/ \E i \in DOMAIN steps :
                      steps[i].time <= config.deadline /\ s = steps[i].candidate
                 \/ e.time <= config.deadline /\ s = e.candidate
  BY <1>3, <1>4
<1>6. quality' = quality /\ config' = config
  OBVIOUS
<1>7. QED  BY <1>5, <1>6, PlanOf, PlanThen

\* The types of the log and of the trace survive one more entry.
LEMMA TypesAfterStep ==
  ASSUME Anytime!Types, UNCHANGED <<quality, config, ready>>,
         current \in States, NEW tried \in States, NEW accepted \in BOOLEAN,
         NEW updated \in BOOLEAN, NEW counted \in BOOLEAN, NEW done \in Anytime!Times,
         steps' = Append(steps, Anytime!Step(tried, accepted, updated, counted, done)),
         best' \in States \cup {NoState},
         \/ incumbents' = incumbents
         \/ \E n \in Nat : incumbents' = Append(incumbents, Anytime!Incumbent(n, done, tried))
  PROVE  Anytime!Types'
<1> DEFINE S == [before : States, candidate : States, accepted : BOOLEAN,
                 updated : BOOLEAN, counted : BOOLEAN, time : Anytime!Times]
<1> DEFINE E == [iteration : Nat, time : Anytime!Times, objective : Values]
<1>1. Anytime!Step(tried, accepted, updated, counted, done) \in S
  BY DEF Anytime!Step
<1>2. \A n \in Nat : Anytime!Incumbent(n, done, tried) \in E
  BY AnytimeTypes DEF Anytime!Incumbent, Anytime!Value
<1>3. steps \in Seq(S) /\ incumbents \in Seq(E)
  BY DEF Anytime!Types
<1> HIDE DEF S, E
<1>4. steps' \in Seq(S)
  BY <1>1, <1>3
<1>5. incumbents' \in Seq(E)
  BY <1>2, <1>3
<1>6. quality' = quality /\ config' = config /\ ready' = ready
  OBVIOUS
<1>7. QED  BY <1>4, <1>5, <1>6 DEF Anytime!Types, S, E

LEMMA AnytimeInit == Anytime!Init => Anytime!IInv
<1> SUFFICES ASSUME Anytime!Init PROVE Anytime!IInv
  OBVIOUS
<1>1. /\ quality \in [States -> Anytime!Qualities] /\ config \in AnytimeConfigs
      /\ ready \in Anytime!Times /\ steps = <<>> /\ current = InitialState /\ started = 0
      /\ best = IF quality[InitialState].verified THEN InitialState ELSE NoState
      /\ incumbents = IF quality[InitialState].verified
                      THEN <<Anytime!Incumbent(0, ready, InitialState)>> ELSE <<>>
  BY DEF Anytime!Init, Anytime!StartSearch, Anytime!Verified
<1>2. InitialState \in States /\ NoState \notin States
  BY AnytimeConstants DEF Anytime!StatesAssumption
<1> DEFINE e == Anytime!Incumbent(0, ready, InitialState)
<1> DEFINE E == [iteration : Nat, time : Anytime!Times, objective : Values]
<1>3. e \in E
  BY <1>1, <1>2 DEF Anytime!Incumbent, Anytime!Value, Anytime!Qualities
<1>4. incumbents \in Seq(E)
  <2> HIDE DEF e, E
  <2>1. <<e>> \in Seq(E) /\ <<>> \in Seq(E)
    BY <1>3
  <2>2. QED  BY <1>1, <2>1 DEF e
<1>5. Anytime!Types
  BY <1>1, <1>2, <1>4 DEF Anytime!Types
<1>6. \A s : s \in Anytime!Plans <=> s = InitialState /\ quality[s].verified
  BY <1>1, PlanOf
<1>7. CASE quality[InitialState].verified
  <2>1. best = InitialState /\ DOMAIN incumbents = {1} /\ incumbents[1] = e
    BY <1>1, <1>7
  <2>2. e.objective = quality[best].value /\ e.time = ready
    BY <2>1 DEF Anytime!Incumbent, Anytime!Value
  <2>3. quality[best].value \in Int
    BY <1>2, <1>5, <2>1, AnytimeTypes
  <2> HIDE DEF e
  <2>4. Anytime!BestOfPlans
    BY <1>2, <1>6, <1>7, <2>1, <2>3 DEF Anytime!BestOfPlans, Anytime!Value
  <2>5. Anytime!LogOfBest
    BY <1>2, <2>1, <2>2, <2>3 DEF Anytime!LogOfBest, Anytime!Value
  <2>6. QED  BY <1>1, <1>2, <1>5, <2>4, <2>5 DEF Anytime!IInv
<1>8. CASE ~ quality[InitialState].verified
  <2>1. best = NoState /\ incumbents = <<>> /\ Anytime!Plans = {}
    BY <1>1, <1>6, <1>8
  <2>2. QED
    BY <1>1, <1>2, <1>5, <2>1 DEF Anytime!IInv, Anytime!BestOfPlans, Anytime!LogOfBest
<1>9. QED  BY <1>7, <1>8

\* What the bookkeeping makes of a candidate.
LEMMA JudgeCases ==
  ASSUME Anytime!Types, NEW n \in Nat, NEW done, NEW tried \in States, NEW accepted \in BOOLEAN,
         Anytime!Judge(n, done, tried, accepted), current \in States
  PROVE  /\ current' \in States
         /\ \/ /\ quality[tried].verified
               /\ best = NoState \/ quality[tried].value < quality[best].value
               /\ best' = tried
               /\ incumbents' = Append(incumbents, Anytime!Incumbent(n, done, tried))
            \/ /\ quality[tried].verified =>
                    best # NoState /\ quality[best].value <= quality[tried].value
               /\ best' = best /\ incumbents' = incumbents
<1>1. /\ InitialState \in States /\ best \in States \cup {NoState}
      /\ \A s \in States : quality[s].value \in Int
  BY AnytimeTypes
<1> DEFINE newBest == IF Anytime!Improves(tried) THEN tried ELSE best
<1> DEFINE newIdle == IF Anytime!Improves(tried) THEN 0 ELSE idle + 1
<1> DEFINE restart == newIdle >= config.restart
<1>2. current' = CASE restart -> Anytime!RestartState(newBest)
                   [] accepted /\ ~ restart -> tried
                   [] OTHER -> current
  BY DEF Anytime!Judge
<1>3. Anytime!RestartState(newBest) \in States
  BY <1>1 DEF Anytime!RestartState
<1> HIDE DEF restart, newBest
<1>4. current' \in States
  BY <1>2, <1>3
<1>5. CASE Anytime!Improves(tried)
  <2>1. best' = tried /\ incumbents' = Append(incumbents, Anytime!Incumbent(n, done, tried))
    BY <1>5 DEF Anytime!Judge
  <2>2. QED
    BY <1>4, <1>5, <2>1 DEF Anytime!Improves, Anytime!Verified, Anytime!Value
<1>6. CASE ~ Anytime!Improves(tried)
  <2>1. best' = best /\ incumbents' = incumbents
    BY <1>6 DEF Anytime!Judge
  <2>2. quality[tried].verified => best # NoState /\ ~ (quality[tried].value < quality[best].value)
    BY <1>6 DEF Anytime!Improves, Anytime!Verified, Anytime!Value
  <2>3. best # NoState => quality[best].value \in Int /\ quality[tried].value \in Int
    BY <1>1
  <2>4. QED  BY <1>4, <2>1, <2>2, <2>3
<1>7. QED  BY <1>5, <1>6

\* A candidate that completes in time.
LEMMA TimelyStep ==
  ASSUME Anytime!IInv, Anytime!Timely
  PROVE  Anytime!IInv'
<1>1. PICK done \in Anytime!Times, tried \in States, accepted \in BOOLEAN :
        /\ done <= config.deadline
        /\ started' = started + 1
        /\ Anytime!Judge(started + 1, done, tried, accepted)
        /\ steps' = Append(steps, Anytime!Step(tried, accepted, Anytime!Improves(tried), TRUE, done))
  BY DEF Anytime!Timely, Anytime!Work
<1>2. UNCHANGED <<quality, config, ready>>
  BY DEF Anytime!Timely
<1>3. /\ Anytime!Types /\ Anytime!BestOfPlans /\ Anytime!LogOfBest
      /\ current \in States /\ started \in Nat /\ started + 1 \in Nat
  BY DEF Anytime!IInv
<1>4. /\ current' \in States
      /\ \/ /\ quality[tried].verified
            /\ best = NoState \/ quality[tried].value < quality[best].value
            /\ best' = tried
            /\ incumbents' = Append(incumbents, Anytime!Incumbent(started + 1, done, tried))
         \/ /\ quality[tried].verified =>
                 best # NoState /\ quality[best].value <= quality[tried].value
            /\ best' = best /\ incumbents' = incumbents
  BY <1>1, <1>3, JudgeCases
<1>5. best \in States \cup {NoState} /\ best' \in States \cup {NoState}
  BY <1>3, <1>4, AnytimeTypes
<1>6. Anytime!Improves(tried) \in BOOLEAN
  BY DEF Anytime!Improves
<1>7. Anytime!Types'
  BY <1>1, <1>2, <1>3, <1>4, <1>5, <1>6, TypesAfterStep
<1>8. \A s : s \in Anytime!Plans' <=>
        s \in Anytime!Plans \/ (s = tried /\ quality[s].verified)
  <2> DEFINE e == Anytime!Step(tried, accepted, Anytime!Improves(tried), TRUE, done)
  <2>1. e.candidate = tried /\ e.time = done
    BY DEF Anytime!Step
  <2> HIDE DEF e
  <2>2. \A s : s \in Anytime!Plans' <=>
          \/ s \in Anytime!Plans
          \/ s = e.candidate /\ e.time <= config.deadline /\ quality[s].verified
    BY <1>1, <1>2, <1>3, PlansAfterStep DEF e
  <2>3. QED  BY <1>1, <2>1, <2>2
<1>9. /\ best = NoState <=> Anytime!Plans = {}
      /\ best # NoState => /\ best \in Anytime!Plans
                           /\ \A s \in Anytime!Plans : quality[best].value <= quality[s].value
  BY <1>3 DEF Anytime!BestOfPlans, Anytime!Value
<1>10. Anytime!Plans \subseteq States
  BY <1>3, AnytimeTypes, PlanOf
<1>11. /\ NoState \notin States /\ \A s \in States : quality[s].value \in Int
       /\ quality' = quality /\ config' = config /\ ready' = ready
       /\ done \in 0 .. config.deadline
  <2>1. done \in Nat /\ config.deadline \in Nat
    BY <1>3, AnytimeTypes, AnytimeConstants DEF Anytime!Times, Anytime!TimeAssumption
  <2>2. QED  BY <1>1, <1>2, <1>3, <2>1, AnytimeTypes
<1>12. \A s \in Anytime!Plans : s \in States /\ quality[s].value \in Int
  BY <1>10, <1>11
<1>13. Anytime!BestOfPlans'
  <2> SUFFICES /\ best' = NoState <=> Anytime!Plans' = {}
               /\ best' # NoState => /\ best' \in Anytime!Plans'
                                     /\ \A s \in Anytime!Plans' :
                                          quality[best'].value <= quality[s].value
    BY <1>11 DEF Anytime!BestOfPlans, Anytime!Value
  <2>1. CASE best' = tried /\ quality[tried].verified
             /\ (best = NoState \/ quality[tried].value < quality[best].value)
    <3>1. tried \in Anytime!Plans' /\ tried # NoState
      BY <1>8, <1>11, <2>1
    <3>2. ASSUME NEW s \in Anytime!Plans'
          PROVE  quality[tried].value <= quality[s].value
      <4>1. CASE s = tried
        BY <1>11, <4>1
      <4>2. CASE s \in Anytime!Plans
        <5>1. /\ quality[tried].value < quality[best].value
              /\ quality[best].value <= quality[s].value
              /\ best \in States
          BY <1>9, <1>12, <2>1, <4>2
        <5>2. QED  BY <1>11, <1>12, <4>2, <5>1
      <4>3. QED  BY <1>8, <4>1, <4>2
    <3>3. QED  BY <2>1, <3>1, <3>2
  <2>2. CASE best' = best /\ (quality[tried].verified =>
                 best # NoState /\ quality[best].value <= quality[tried].value)
    BY <1>8, <1>9, <2>2
  <2>3. QED  BY <1>4, <2>1, <2>2
<1>14. /\ Len(incumbents) \in Nat /\ DOMAIN incumbents = 1 .. Len(incumbents)
       /\ \A i \in DOMAIN incumbents : incumbents[i].objective \in Int
  BY <1>3, AnytimeTypes
<1>15. /\ best = NoState => incumbents = <<>>
       /\ best # NoState => \E i \in DOMAIN incumbents : incumbents[i].objective = quality[best].value
       /\ \A i \in DOMAIN incumbents :
            /\ quality[best].value <= incumbents[i].objective
            /\ incumbents[i].time \in {ready} \cup 0 .. config.deadline
            /\ \A j \in DOMAIN incumbents :
                 incumbents[i].objective = incumbents[j].objective => i = j
  BY <1>3 DEF Anytime!LogOfBest, Anytime!Value
<1>16. Anytime!LogOfBest'
  <2> SUFFICES
        /\ best' = NoState => incumbents' = <<>>
        /\ best' # NoState =>
             \E i \in DOMAIN incumbents' : incumbents'[i].objective = quality[best'].value
        /\ \A i \in DOMAIN incumbents' :
             /\ quality[best'].value <= incumbents'[i].objective
             /\ incumbents'[i].time \in {ready} \cup 0 .. config.deadline
             /\ \A j \in DOMAIN incumbents' :
                  incumbents'[i].objective = incumbents'[j].objective => i = j
    BY <1>11 DEF Anytime!LogOfBest, Anytime!Value
  <2>1. CASE /\ best' = tried
             /\ best = NoState \/ quality[tried].value < quality[best].value
             /\ incumbents' = Append(incumbents, Anytime!Incumbent(started + 1, done, tried))
    <3> DEFINE e == Anytime!Incumbent(started + 1, done, tried)
    <3> DEFINE last == Len(incumbents) + 1
    <3>1. e.time = done /\ e.objective = quality[tried].value
      BY DEF Anytime!Incumbent, Anytime!Value
    <3> HIDE DEF e
    <3>2. \E S : incumbents \in Seq(S)
      BY <1>3 DEF Anytime!Types
    <3>3. /\ DOMAIN incumbents' = 1 .. last
          /\ \A i \in DOMAIN incumbents : incumbents'[i] = incumbents[i]
          /\ incumbents'[last] = e
      BY <2>1, <3>2 DEF e
    <3>4. DOMAIN incumbents' = DOMAIN incumbents \cup {last} /\ last \notin DOMAIN incumbents
      BY <1>14, <3>3
    <3>5. ASSUME NEW i \in DOMAIN incumbents
          PROVE  quality[tried].value < incumbents[i].objective
      <4>1. best # NoState
        BY <1>15, <3>5
      <4>2. /\ quality[tried].value < quality[best].value
            /\ quality[best].value <= incumbents[i].objective
        BY <1>15, <2>1, <4>1
      <4>3. /\ quality[tried].value \in Int /\ quality[best].value \in Int
            /\ incumbents[i].objective \in Int
        BY <1>5, <1>11, <1>14, <4>1
      <4>4. QED  BY <4>2, <4>3
    <3> HIDE DEF last
    <3>6. tried # NoState /\ quality[tried].value \in Int
      BY <1>11
    <3>7. \A i \in DOMAIN incumbents' :
            /\ quality[tried].value <= incumbents'[i].objective
            /\ incumbents'[i].time \in {ready} \cup 0 .. config.deadline
      <4>1. \A i \in DOMAIN incumbents :
              /\ quality[tried].value <= incumbents[i].objective
              /\ incumbents[i].time \in {ready} \cup 0 .. config.deadline
        BY <1>14, <1>15, <3>5, <3>6
      <4>2. quality[tried].value <= e.objective /\ e.time \in 0 .. config.deadline
        BY <1>11, <3>1, <3>6
      <4>3. QED  BY <3>3, <3>4, <4>1, <4>2
    <3>8. ASSUME NEW i \in DOMAIN incumbents', NEW j \in DOMAIN incumbents',
                 incumbents'[i].objective = incumbents'[j].objective
          PROVE  i = j
      <4>1. CASE i \in DOMAIN incumbents /\ j \in DOMAIN incumbents
        BY <1>15, <3>3, <3>8, <4>1
      <4>2. CASE i = last /\ j \in DOMAIN incumbents
        BY <1>14, <3>1, <3>3, <3>5, <3>6, <3>8, <4>2
      <4>3. CASE j = last /\ i \in DOMAIN incumbents
        BY <1>14, <3>1, <3>3, <3>5, <3>6, <3>8, <4>3
      <4>4. QED  BY <3>4, <4>1, <4>2, <4>3
    <3>9. QED  BY <2>1, <3>1, <3>3, <3>4, <3>6, <3>7, <3>8
  <2>2. CASE best' = best /\ incumbents' = incumbents
    BY <1>15, <2>2
  <2>3. QED  BY <1>4, <2>1, <2>2
<1>17. started' \in Nat
  BY <1>1, <1>3
<1>18. QED  BY <1>4, <1>7, <1>13, <1>16, <1>17 DEF Anytime!IInv

\* A late candidate is in the trace and in nothing else.
LEMMA LateStep ==
  ASSUME Anytime!IInv, Anytime!Late
  PROVE  Anytime!IInv'
<1>1. PICK done \in Anytime!Times, tried \in States :
        /\ done > config.deadline
        /\ started' = started + 1
        /\ steps' = Append(steps, Anytime!Step(tried, FALSE, FALSE, FALSE, done))
  BY DEF Anytime!Late, Anytime!Work
<1>2. UNCHANGED <<quality, config, ready, current, best, incumbents>>
  BY DEF Anytime!Late, Anytime!search
<1>3. /\ Anytime!Types /\ Anytime!BestOfPlans /\ Anytime!LogOfBest
      /\ current \in States /\ started \in Nat
  BY DEF Anytime!IInv
<1>4. Anytime!Types'
  <2>1. best' \in States \cup {NoState}
    BY <1>2, <1>3 DEF Anytime!Types
  <2>2. QED  BY <1>1, <1>2, <1>3, <2>1, TypesAfterStep
<1>5. Anytime!Plans' = Anytime!Plans
  <2> DEFINE e == Anytime!Step(tried, FALSE, FALSE, FALSE, done)
  <2>1. e.time = done
    BY DEF Anytime!Step
  <2>2. ~ (done <= config.deadline)
    BY <1>1, <1>3, AnytimeTypes, AnytimeConstants DEF Anytime!Times, Anytime!TimeAssumption
  <2> HIDE DEF e
  <2>3. \A s : s \in Anytime!Plans' <=>
          \/ s \in Anytime!Plans
          \/ s = e.candidate /\ e.time <= config.deadline /\ quality[s].verified
    BY <1>1, <1>2, <1>3, PlansAfterStep DEF e
  <2>4. QED  BY <2>1, <2>2, <2>3
<1>6. /\ quality' = quality /\ config' = config /\ ready' = ready /\ best' = best
      /\ incumbents' = incumbents /\ current' = current
  BY <1>2
<1>7. Anytime!BestOfPlans'
  BY <1>3, <1>5, <1>6 DEF Anytime!BestOfPlans, Anytime!Value
<1>8. Anytime!LogOfBest'
  BY <1>3, <1>6 DEF Anytime!LogOfBest, Anytime!Value
<1>9. QED  BY <1>1, <1>3, <1>4, <1>6, <1>7, <1>8 DEF Anytime!IInv

LEMMA AnytimeStep == Anytime!IInv /\ [Anytime!Next]_(Anytime!vars) => Anytime!IInv'
<1> SUFFICES ASSUME Anytime!IInv, [Anytime!Next]_(Anytime!vars) PROVE Anytime!IInv'
  OBVIOUS
<1>1. CASE Anytime!Timely
  BY <1>1, TimelyStep
<1>2. CASE Anytime!Late
  BY <1>2, LateStep
<1>3. CASE UNCHANGED <<quality, config, ready, current, best, incumbents, steps, started>>
  <2>1. /\ quality' = quality /\ config' = config /\ ready' = ready /\ best' = best
        /\ incumbents' = incumbents /\ current' = current /\ steps' = steps
        /\ started' = started
    BY <1>3
  <2>2. Anytime!Plans' = Anytime!Plans
    BY <2>1, PlanOf, PlanThen
  <2>3. Anytime!Types'
    BY <2>1 DEF Anytime!IInv, Anytime!Types
  <2>4. Anytime!BestOfPlans' /\ Anytime!LogOfBest'
    BY <2>1, <2>2 DEF Anytime!IInv, Anytime!BestOfPlans, Anytime!LogOfBest, Anytime!Value
  <2>5. QED  BY <2>1, <2>3, <2>4 DEF Anytime!IInv
<1>4. QED
  BY <1>1, <1>2, <1>3 DEF Anytime!Next, Anytime!OutOfTime, Anytime!Exhausted, Anytime!vars,
                          Anytime!search, Anytime!trace, Anytime!counters

\* What the log shows at the deadline is the best plan.
LEMMA LogShowsBest ==
  ASSUME Anytime!IInv, ready <= config.deadline
  PROVE  LET known == Anytime!AtBudget(config.deadline)
         IN  /\ best = NoState <=> known = {}
             /\ best /= NoState => Anytime!Value(best) = Anytime!Select(known).objective
<1> DEFINE known == Anytime!AtBudget(config.deadline)
<1>1. Anytime!Types
  BY DEF Anytime!IInv
<1>2. /\ \A i \in DOMAIN incumbents :
           /\ incumbents[i].time \in Nat /\ incumbents[i].iteration \in Nat
           /\ incumbents[i].objective \in Int
      /\ config.deadline \in Nat /\ ready \in Nat
      /\ best \in States \cup {NoState} /\ \A s \in States : quality[s].value \in Int
  BY <1>1, AnytimeTypes
<1>3. /\ best = NoState => incumbents = <<>>
      /\ best # NoState => \E i \in DOMAIN incumbents : incumbents[i].objective = quality[best].value
      /\ \A i \in DOMAIN incumbents :
           /\ quality[best].value <= incumbents[i].objective
           /\ incumbents[i].time \in {ready} \cup 0 .. config.deadline
           /\ \A j \in DOMAIN incumbents :
                incumbents[i].objective = incumbents[j].objective => i = j
  BY DEF Anytime!IInv, Anytime!LogOfBest, Anytime!Value
<1>4. \A i \in DOMAIN incumbents : incumbents[i].time <= config.deadline
  BY <1>2, <1>3
<1>5. \A f : f \in known <=> \E i \in DOMAIN incumbents : f = incumbents[i]
  BY <1>4 DEF Anytime!AtBudget, Anytime!Entries
<1> HIDE DEF known
<1>6. CASE best = NoState
  BY <1>3, <1>5, <1>6 DEF known
<1>7. CASE best # NoState
  <2>1. PICK k \in DOMAIN incumbents : incumbents[k].objective = quality[best].value
    BY <1>3, <1>7
  <2>2. incumbents[k] \in known
    BY <1>5
  <2>3. ASSUME NEW f \in known
        PROVE  Anytime!Precedes(incumbents[k], f)
    <3>1. PICK j \in DOMAIN incumbents : f = incumbents[j]
      BY <1>5
    <3>2. CASE j = k
      BY <1>2, <3>1, <3>2 DEF Anytime!Precedes
    <3>3. CASE j # k
      <4>1. /\ incumbents[k].objective # incumbents[j].objective
            /\ incumbents[k].objective <= incumbents[j].objective
        BY <1>3, <2>1, <3>3
      <4>2. QED  BY <1>2, <3>1, <4>1 DEF Anytime!Precedes
    <3>4. QED  BY <3>2, <3>3
  <2> DEFINE c == Anytime!Select(known)
  <2>4. c \in known /\ \A f \in known : Anytime!Precedes(c, f)
    BY <2>2, <2>3 DEF Anytime!Select
  <2> HIDE DEF c
  <2>5. PICK j \in DOMAIN incumbents : c = incumbents[j]
    BY <1>5, <2>4
  <2>6. Anytime!Precedes(c, incumbents[k])
    BY <2>2, <2>4
  <2>7. c.objective <= quality[best].value
    BY <1>2, <2>1, <2>5, <2>6 DEF Anytime!Precedes
  <2>8. quality[best].value <= c.objective
    BY <1>3, <2>5
  <2>9. quality[best].value = c.objective
    BY <1>2, <1>7, <2>5, <2>7, <2>8
  <2>10. QED  BY <1>7, <2>2, <2>9 DEF Anytime!Value, c, known
<1>8. QED  BY <1>6, <1>7

\* The plan the search returns is a best one of the initializer's and of every
\* candidate completed by the deadline, for any clock, qualities and limits;
\* and it is what a reader of the log finds at the deadline.
THEOREM ReturnsCutoffPlanHolds == CallSpec => []ReturnsCutoffPlan
<1> DEFINE Inv == part = "anytime_search" => Anytime!IInv
<1>1. CallInit => Inv
  BY AnytimeInit DEF CallInit
<1>2. Inv /\ [CallNext]_everything => Inv'
  <2> SUFFICES ASSUME Inv, [CallNext]_everything, part' = "anytime_search"
               PROVE  Anytime!IInv'
    OBVIOUS
  <2>1. part = "anytime_search"
    BY DEF CallNext, everything
  <2>2. [Anytime!Next]_(Anytime!vars)
    BY <2>1 DEF CallNext, everything, anytimeOwn, Anytime!vars
  <2>3. QED  BY <2>1, <2>2, AnytimeStep
<1>3. Inv => ReturnsCutoffPlan
  <2> SUFFICES ASSUME Anytime!IInv PROVE Anytime!ReturnsCutoffPlan
    BY DEF ReturnsCutoffPlan
  <2>1. Anytime!BestOfPlans
    BY DEF Anytime!IInv
  <2>2. QED
    BY <2>1, LogShowsBest DEF Anytime!ReturnsCutoffPlan, Anytime!BestOfPlans
<1>4. QED  BY <1>1, <1>2, <1>3, PTL DEF CallSpec
-----------------------------------------------------------------------------
(* The repair loop.                                                         *)

\* The repair counts as everything else does.
LEMMA RepairCount == \A S : Repair!Cardinality(S) = Cardinality(S)
BY DEF Repair!Cardinality, Cardinality, Repair!IsFiniteSet, IsFiniteSet

\* The places of what Without leaves of an order.
Stay(s, U) == {i \in DOMAIN s : s[i] \notin U}

\* The k-th member of a set of naturals.
Nth(S, k) == CHOOSE x \in S : Cardinality(Smaller(S, x)) = k - 1

LEMMA WithoutByPlaces ==
  \A s, U : Repair!Without(s, U) =
              [k \in 1 .. Cardinality(Stay(s, U)) |-> s[Nth(Stay(s, U), k)]]
<1> SUFFICES ASSUME NEW s, NEW U
             PROVE  Repair!Without(s, U) =
                      [k \in 1 .. Cardinality(Stay(s, U)) |-> s[Nth(Stay(s, U), k)]]
  OBVIOUS
<1> DEFINE S == Stay(s, U)
<1>1. Repair!Without(s, U) =
        [k \in 1 .. Repair!Cardinality(S) |->
           s[CHOOSE i \in S : Repair!Cardinality(Smaller(S, i)) = k - 1]]
  BY DEF Repair!Without, Stay, Smaller
<1> HIDE DEF S
<1>2. ASSUME NEW k
      PROVE  (CHOOSE i \in S : Repair!Cardinality(Smaller(S, i)) = k - 1) = Nth(S, k)
  BY RepairCount DEF Nth
<1>3. Repair!Cardinality(S) = Cardinality(S)
  BY RepairCount
<1>4. QED  BY <1>1, <1>2, <1>3 DEF S

LEMMA NthMember ==
  ASSUME NEW S \in SUBSET Nat, IsFiniteSet(S)
  PROVE  /\ \A k \in 1 .. Cardinality(S) :
              Nth(S, k) \in S /\ Cardinality(Smaller(S, Nth(S, k))) = k - 1
         /\ \A x \in S : /\ Cardinality(Smaller(S, x)) + 1 \in 1 .. Cardinality(S)
                         /\ Nth(S, Cardinality(Smaller(S, x)) + 1) = x
<1>1. /\ Cardinality(S) \in Nat
      /\ \A x \in S : Cardinality(Smaller(S, x)) \in 0 .. Cardinality(S) - 1
      /\ \A x, y \in S : Cardinality(Smaller(S, x)) = Cardinality(Smaller(S, y)) => x = y
      /\ \A k \in 1 .. Cardinality(S) : \E x \in S : Cardinality(Smaller(S, x)) = k - 1
  BY Places
<1>2. ASSUME NEW k \in 1 .. Cardinality(S)
      PROVE  Nth(S, k) \in S /\ Cardinality(Smaller(S, Nth(S, k))) = k - 1
  BY <1>1 DEF Nth
<1>3. ASSUME NEW x \in S
      PROVE  /\ Cardinality(Smaller(S, x)) + 1 \in 1 .. Cardinality(S)
             /\ Nth(S, Cardinality(Smaller(S, x)) + 1) = x
  <2>1. Cardinality(Smaller(S, x)) \in Nat
        /\ Cardinality(Smaller(S, x)) + 1 \in 1 .. Cardinality(S)
        /\ Cardinality(Smaller(S, x)) + 1 - 1 = Cardinality(Smaller(S, x))
    BY <1>1
  <2>2. /\ Nth(S, Cardinality(Smaller(S, x)) + 1) \in S
        /\ Cardinality(Smaller(S, Nth(S, Cardinality(Smaller(S, x)) + 1)))
             = Cardinality(Smaller(S, x)) + 1 - 1
    BY <1>2, <2>1
  <2>3. QED  BY <1>1, <2>1, <2>2
<1>4. QED  BY <1>2, <1>3

LEMMA StayPlaces ==
  ASSUME NEW V, NEW s \in Seq(V), NEW U
  PROVE  /\ Stay(s, U) \in SUBSET Nat /\ IsFiniteSet(Stay(s, U))
         /\ Cardinality(Stay(s, U)) \in Nat
<1>1. Stay(s, U) \subseteq 1 .. Len(s) /\ Len(s) \in Nat
  BY DEF Stay
<1>2. IsFiniteSet(1 .. Len(s))
  BY <1>1, FS_Interval
<1>3. QED  BY <1>1, <1>2, FS_Subset, FS_CardinalityType

\* Without leaves the other units, each once when each was there once.
LEMMA WithoutLeaves ==
  ASSUME NEW V, NEW s \in Seq(V), NEW U
  PROVE  /\ Repair!Without(s, U) \in Seq(V)
         /\ Repair!Range(Repair!Without(s, U)) = Repair!Range(s) \ U
         /\ Repair!IsInjective(s) => Repair!IsInjective(Repair!Without(s, U))
<1> DEFINE S == Stay(s, U)
           n == Cardinality(S)
           w == Repair!Without(s, U)
<1>1. S \in SUBSET Nat /\ IsFiniteSet(S) /\ n \in Nat
  BY StayPlaces
<1>2. w = [k \in 1 .. n |-> s[Nth(S, k)]]
  BY WithoutByPlaces
<1>3. /\ \A k \in 1 .. n : Nth(S, k) \in S /\ Cardinality(Smaller(S, Nth(S, k))) = k - 1
      /\ \A x \in S : /\ Cardinality(Smaller(S, x)) + 1 \in 1 .. n
                      /\ Nth(S, Cardinality(Smaller(S, x)) + 1) = x
  BY <1>1, NthMember
<1>4. \A x : x \in S <=> x \in DOMAIN s /\ s[x] \notin U
  BY DEF Stay
<1> HIDE DEF S, n, w
<1>5. w \in Seq(V)
  <2>1. \A k \in 1 .. n : s[Nth(S, k)] \in V
    BY <1>3, <1>4
  <2>2. w \in [1 .. n -> V]
    BY <1>2, <2>1
  <2>3. QED  BY <1>1, <2>2
<1>6. Repair!Range(w) = Repair!Range(s) \ U
  <2>1. ASSUME NEW k \in 1 .. n PROVE w[k] \in Repair!Range(s) \ U
    BY <1>2, <1>3, <1>4 DEF Repair!Range
  <2>2. ASSUME NEW x \in DOMAIN s, s[x] \notin U PROVE \E k \in 1 .. n : w[k] = s[x]
    BY <1>2, <1>3, <1>4, <2>2
  <2>3. DOMAIN w = 1 .. n
    BY <1>2
  <2>4. QED  BY <2>1, <2>2, <2>3 DEF Repair!Range
<1>7. ASSUME Repair!IsInjective(s) PROVE Repair!IsInjective(w)
  <2> SUFFICES ASSUME NEW k \in 1 .. n, NEW l \in 1 .. n, w[k] = w[l] PROVE k = l
    BY <1>2 DEF Repair!IsInjective
  <2>1. s[Nth(S, k)] = s[Nth(S, l)]
    BY <1>2
  <2>2. Nth(S, k) = Nth(S, l)
    BY <1>3, <1>4, <1>7, <2>1 DEF Repair!IsInjective
  <2>3. k - 1 = l - 1
    BY <1>3, <2>2
  <2>4. QED  BY <1>1, <2>3
<1>8. QED  BY <1>5, <1>6, <1>7 DEF w

\* Without of nothing that is there changes nothing.
LEMMA WithoutNone ==
  ASSUME NEW V, NEW s \in Seq(V), NEW U, Repair!Range(s) \cap U = {}
  PROVE  Repair!Without(s, U) = s
<1> DEFINE n == Len(s)
<1>1. Stay(s, U) = 1 .. n /\ n \in Nat
  BY DEF Stay, Repair!Range
<1>2. 1 .. n \in SUBSET Nat /\ IsFiniteSet(1 .. n) /\ Cardinality(1 .. n) = n
  <2>1. IsFiniteSet(1 .. n) /\ Cardinality(1 .. n) = IF 1 > n THEN 0 ELSE n - 1 + 1
    BY <1>1, FS_Interval
  <2> HIDE DEF n
  <2>2. QED  BY <1>1, <2>1
<1>3. ASSUME NEW k \in 1 .. n PROVE Nth(1 .. n, k) = k
  <2>1. Smaller(1 .. n, k) = 1 .. k - 1 /\ k \in Nat /\ k - 1 \in Int
    BY <1>1 DEF Smaller
  <2>2. Cardinality(1 .. k - 1) = IF 1 > k - 1 THEN 0 ELSE k - 1 - 1 + 1
    BY <2>1, FS_Interval
  <2>3. Cardinality(Smaller(1 .. n, k)) + 1 = k
    BY <2>1, <2>2
  <2>4. Nth(1 .. n, Cardinality(Smaller(1 .. n, k)) + 1) = k
    BY <1>2, NthMember
  <2>5. QED  BY <2>3, <2>4
<1>4. Repair!Without(s, U) = [k \in 1 .. n |-> s[Nth(1 .. n, k)]]
  BY <1>1, <1>2, WithoutByPlaces
<1>5. Repair!Without(s, U) = [k \in 1 .. n |-> s[k]]
  BY <1>3, <1>4
<1>6. QED  BY <1>5

\* Where everything is once a unit is inserted.
LEMMA InsertedAt ==
  ASSUME NEW V, NEW s \in Seq(V), NEW u \in V, NEW p \in 0 .. Len(s)
  PROVE  /\ Repair!InsertAt(s, p + 1, u) \in Seq(V)
         /\ Repair!InsertAt(s, p + 1, u) =
              [i \in 1 .. Len(s) + 1 |->
                 IF i <= p THEN s[i] ELSE IF i = p + 1 THEN u ELSE s[i - 1]]
<1> DEFINE a == SubSeq(s, 1, p)
           b == SubSeq(s, p + 1, Len(s))
<1>1. Len(s) \in Nat /\ p \in Nat /\ p <= Len(s) /\ p + 1 - 1 = p
  OBVIOUS
<1>2. a \in Seq(V) /\ Len(a) = p /\ \A i \in 1 .. p : a[i] = s[i]
  BY <1>1
<1>3. b \in Seq(V) /\ Len(b) = Len(s) - p /\ \A i \in 1 .. Len(s) - p : b[i] = s[p + i]
  BY <1>1
<1>4. Repair!InsertAt(s, p + 1, u) = a \o <<u>> \o b
  <2> DEFINE k == p + 1
  <2>1. k - 1 = p
    BY <1>1
  <2> HIDE DEF k
  <2>2. Repair!InsertAt(s, k, u) = SubSeq(s, 1, k - 1) \o <<u>> \o SubSeq(s, k, Len(s))
    BY DEF Repair!InsertAt
  <2>3. Repair!InsertAt(s, k, u) = SubSeq(s, 1, p) \o <<u>> \o SubSeq(s, k, Len(s))
    BY <2>1, <2>2
  <2>4. QED  BY <2>3 DEF k
<1> DEFINE c == a \o <<u>>
<1>5. c \in Seq(V) /\ Len(c) = p + 1 /\ c[p + 1] = u /\ \A i \in 1 .. p : c[i] = s[i]
  <2> HIDE DEF a
  <2>1. <<u>> \in Seq(V) /\ Len(<<u>>) = 1 /\ <<u>>[1] = u
    OBVIOUS
  <2>2. /\ c \in Seq(V) /\ Len(c) = p + 1
        /\ \A i \in 1 .. p : c[i] = a[i]
        /\ c[p + 1] = <<u>>[p + 1 - p]
    BY <1>1, <1>2, <2>1
  <2>3. p + 1 - p = 1
    BY <1>1
  <2>4. QED  BY <1>2, <2>1, <2>2, <2>3
<1> HIDE DEF a, b, c
<1>6. /\ c \o b \in Seq(V) /\ Len(c \o b) = Len(s) + 1
      /\ \A i \in 1 .. p + 1 : (c \o b)[i] = c[i]
      /\ \A i \in p + 2 .. Len(s) + 1 : (c \o b)[i] = b[i - (p + 1)]
  BY <1>1, <1>3, <1>5
<1>7. ASSUME NEW i \in 1 .. Len(s) + 1
      PROVE  (c \o b)[i] = IF i <= p THEN s[i] ELSE IF i = p + 1 THEN u ELSE s[i - 1]
  <2>1. CASE i <= p + 1
    BY <1>1, <1>5, <1>6, <2>1
  <2>2. CASE i > p + 1
    <3>1. i \in p + 2 .. Len(s) + 1 /\ i - (p + 1) \in 1 .. Len(s) - p
          /\ p + (i - (p + 1)) = i - 1
      BY <1>1, <2>2
    <3>2. QED  BY <1>1, <1>3, <1>6, <2>2, <3>1
  <2>3. i <= p + 1 \/ i > p + 1
    BY <1>1
  <2>4. QED  BY <2>1, <2>2, <2>3
<1>8. c \o b = [i \in 1 .. Len(s) + 1 |->
                 IF i <= p THEN s[i] ELSE IF i = p + 1 THEN u ELSE s[i - 1]]
  <2>1. \A q \in Seq(V) : q = [i \in 1 .. Len(q) |-> q[i]]
    OBVIOUS
  <2>2. c \o b = [i \in 1 .. Len(s) + 1 |-> (c \o b)[i]]
    BY <1>6, <2>1
  <2> HIDE DEF c
  <2>3. QED  BY <1>7, <2>2
<1>9. QED  BY <1>4, <1>6, <1>8 DEF c

\* Inserting a unit that Without takes out again leaves the others as they were.
LEMMA WithoutInserted ==
  ASSUME NEW V, NEW s \in Seq(V), NEW U, NEW u \in V, u \in U, NEW p \in 0 .. Len(s)
  PROVE  Repair!Without(Repair!InsertAt(s, p + 1, u), U) = Repair!Without(s, U)
<1> DEFINE t == Repair!InsertAt(s, p + 1, u)
           S == Stay(s, U)
           T == Stay(t, U)
           moved(i) == IF i <= p THEN i ELSE i + 1
<1>1. /\ t \in Seq(V) /\ DOMAIN t = 1 .. Len(s) + 1 /\ DOMAIN s = 1 .. Len(s)
      /\ \A i \in 1 .. Len(s) + 1 :
           t[i] = IF i <= p THEN s[i] ELSE IF i = p + 1 THEN u ELSE s[i - 1]
      /\ Len(s) \in Nat /\ p \in Nat /\ p <= Len(s)
  <2>1. /\ t \in Seq(V)
        /\ t = [i \in 1 .. Len(s) + 1 |->
                 IF i <= p THEN s[i] ELSE IF i = p + 1 THEN u ELSE s[i - 1]]
    BY InsertedAt
  <2> HIDE DEF t, S, T, moved
  <2>2. Len(s) \in Nat /\ p \in Nat /\ p <= Len(s) /\ DOMAIN s = 1 .. Len(s)
    OBVIOUS
  <2>3. QED  BY <2>1, <2>2
<1>2. /\ S \in SUBSET Nat /\ IsFiniteSet(S) /\ Cardinality(S) \in Nat
      /\ T \in SUBSET Nat /\ IsFiniteSet(T) /\ Cardinality(T) \in Nat
  BY <1>1, StayPlaces
<1>3. /\ \A x : x \in S <=> x \in 1 .. Len(s) /\ s[x] \notin U
      /\ \A x : x \in T <=> x \in 1 .. Len(s) + 1 /\ t[x] \notin U
  BY <1>1 DEF Stay
<1> HIDE DEF t, S, T
<1>4. ASSUME NEW i \in S PROVE moved(i) \in T /\ t[moved(i)] = s[i]
  <2>1. i \in 1 .. Len(s) /\ s[i] \notin U
    BY <1>3
  <2>2. CASE i <= p
    BY <1>1, <1>3, <2>1, <2>2
  <2>3. CASE i > p
    <3>1. i + 1 \in 1 .. Len(s) + 1 /\ ~ (i + 1 <= p) /\ i + 1 # p + 1 /\ i + 1 - 1 = i
          /\ ~ (i <= p)
      BY <1>1, <2>1, <2>3
    <3>2. \A k \in 1 .. Len(s) + 1 : ~ (k <= p) /\ k # p + 1 => t[k] = s[k - 1]
      BY <1>1
    <3>3. t[i + 1] = s[i + 1 - 1]
      BY <1>1, <2>1, <3>1, <3>2
    <3>4. t[i + 1] = s[i]
      BY <3>1, <3>3
    <3>5. QED  BY <1>3, <2>1, <3>1, <3>4
  <2>4. QED  BY <1>1, <2>1, <2>2, <2>3
<1>5. ASSUME NEW j \in T PROVE \E i \in S : moved(i) = j
  <2>1. j \in 1 .. Len(s) + 1 /\ t[j] \notin U
    BY <1>3
  <2>2. j # p + 1
    BY <1>1, <2>1
  <2>3. CASE j <= p
    <3>1. j \in S
      BY <1>1, <1>3, <2>1, <2>3
    <3>2. QED  BY <2>3, <3>1
  <2>4. CASE j > p + 1
    <3>1. j - 1 \in 1 .. Len(s) /\ ~ (j - 1 <= p) /\ ~ (j <= p) /\ j - 1 + 1 = j
      BY <1>1, <2>1, <2>4
    <3>2. t[j] = s[j - 1]
      BY <1>1, <2>1, <2>2, <3>1
    <3>3. j - 1 \in S
      BY <1>3, <2>1, <3>1, <3>2
    <3>4. QED  BY <3>1, <3>3
  <2>5. QED  BY <1>1, <2>1, <2>2, <2>3, <2>4
<1>6. \A i, j \in S : i < j <=> moved(i) < moved(j)
  <2>1. \A i \in S : i \in Nat
    BY <1>2
  <2>2. QED  BY <1>1, <2>1
<1>7. \A i, j \in S : moved(i) = moved(j) => i = j
  <2>1. \A i \in S : i \in Nat
    BY <1>2
  <2>2. QED  BY <1>1, <2>1
<1> HIDE DEF moved
<1>8. ASSUME NEW A \in SUBSET S, NEW B \in SUBSET T,
             \A i \in A : moved(i) \in B, \A j \in B : \E i \in A : moved(i) = j
      PROVE  Cardinality(A) = Cardinality(B)
  <2> DEFINE g == [i \in A |-> moved(i)]
  <2>1. g \in [A -> B] /\ \A i \in A : g[i] = moved(i)
    BY <1>8
  <2>2. \A i, j \in A : g[i] = g[j] => i = j
    BY <1>7, <2>1
  <2>3. \A j \in B : \E i \in A : g[i] = j
    BY <1>8, <2>1
  <2> HIDE DEF g
  <2>4. g \in Bijection(A, B)
    BY <2>1, <2>2, <2>3 DEF Bijection, Injection, Surjection, IsInjective
  <2>5. IsFiniteSet(A)
    BY <1>2, FS_Subset
  <2>6. QED  BY <2>4, <2>5, FS_Bijection DEF ExistsBijection
<1>9. Cardinality(S) = Cardinality(T)
  BY <1>4, <1>5, <1>8
<1>10. ASSUME NEW i \in S
       PROVE  Cardinality(Smaller(S, i)) = Cardinality(Smaller(T, moved(i)))
  <2>1. Smaller(S, i) \in SUBSET S /\ Smaller(T, moved(i)) \in SUBSET T
    BY DEF Smaller
  <2>2. \A j \in Smaller(S, i) : moved(j) \in Smaller(T, moved(i))
    BY <1>4, <1>6 DEF Smaller
  <2>3. \A j \in Smaller(T, moved(i)) : \E k \in Smaller(S, i) : moved(k) = j
    BY <1>5, <1>6 DEF Smaller
  <2>4. QED  BY <1>8, <2>1, <2>2, <2>3
<1>11. ASSUME NEW k \in 1 .. Cardinality(S) PROVE t[Nth(T, k)] = s[Nth(S, k)]
  <2>1. Nth(S, k) \in S /\ Cardinality(Smaller(S, Nth(S, k))) = k - 1
    BY <1>2, NthMember
  <2> DEFINE m == moved(Nth(S, k))
  <2>2. m \in T /\ Cardinality(Smaller(T, m)) = k - 1
    BY <1>4, <1>10, <2>1
  <2> HIDE DEF m
  <2>3. Nth(T, Cardinality(Smaller(T, m)) + 1) = m
    BY <1>2, <2>2, NthMember
  <2>4. k - 1 + 1 = k
    BY <1>2
  <2>5. Nth(T, k) = m
    BY <2>2, <2>3, <2>4
  <2>6. QED  BY <1>4, <2>1, <2>5 DEF m
<1>12. /\ Repair!Without(s, U) = [k \in 1 .. Cardinality(S) |-> s[Nth(S, k)]]
       /\ Repair!Without(t, U) = [k \in 1 .. Cardinality(T) |-> t[Nth(T, k)]]
  BY WithoutByPlaces DEF S, T
<1>13. Repair!Without(t, U) = Repair!Without(s, U)
  BY <1>9, <1>11, <1>12
<1>14. QED  BY <1>13 DEF t

LEMMA ContainsRange ==
  ASSUME NEW V, NEW s \in Seq(V), NEW u
  PROVE  Repair!Contains(s, u) <=> u \in Repair!Range(s)
BY DEF Repair!Contains, Repair!Range

\* What inserting an absent unit makes of the units of an order.
LEMMA InsertedUnits ==
  ASSUME NEW V, NEW s \in Seq(V), NEW u \in V, NEW p \in 0 .. Len(s)
  PROVE  /\ Repair!Range(Repair!InsertAt(s, p + 1, u)) = Repair!Range(s) \cup {u}
         /\ Repair!IsInjective(s) /\ u \notin Repair!Range(s)
              => Repair!IsInjective(Repair!InsertAt(s, p + 1, u))
<1> DEFINE t == Repair!InsertAt(s, p + 1, u)
<1>1. /\ DOMAIN t = 1 .. Len(s) + 1 /\ DOMAIN s = 1 .. Len(s)
      /\ \A i \in 1 .. Len(s) + 1 :
           t[i] = IF i <= p THEN s[i] ELSE IF i = p + 1 THEN u ELSE s[i - 1]
      /\ Len(s) \in Nat /\ p \in Nat /\ p <= Len(s)
  <2>1. t = [i \in 1 .. Len(s) + 1 |->
               IF i <= p THEN s[i] ELSE IF i = p + 1 THEN u ELSE s[i - 1]]
    BY InsertedAt
  <2> HIDE DEF t
  <2>2. Len(s) \in Nat /\ p \in Nat /\ p <= Len(s) /\ DOMAIN s = 1 .. Len(s)
    OBVIOUS
  <2>3. QED  BY <2>1, <2>2
<1> HIDE DEF t
<1>2. \A i \in 1 .. Len(s) + 1 :
        \/ i \in 1 .. Len(s) /\ i <= p /\ t[i] = s[i]
        \/ i = p + 1 /\ t[i] = u
        \/ i - 1 \in 1 .. Len(s) /\ i - 1 > p /\ t[i] = s[i - 1]
  BY <1>1
<1>3. \A i \in 1 .. Len(s) : \E j \in 1 .. Len(s) + 1 : t[j] = s[i]
  <2> SUFFICES ASSUME NEW i \in 1 .. Len(s) PROVE \E j \in 1 .. Len(s) + 1 : t[j] = s[i]
    OBVIOUS
  <2>1. CASE i <= p
    BY <1>1, <2>1
  <2>2. CASE i > p
    <3>1. i + 1 \in 1 .. Len(s) + 1 /\ ~ (i + 1 <= p) /\ i + 1 # p + 1 /\ i + 1 - 1 = i
      BY <1>1, <2>2
    <3>2. \A k \in 1 .. Len(s) + 1 : ~ (k <= p) /\ k # p + 1 => t[k] = s[k - 1]
      BY <1>1
    <3>3. t[i + 1] = s[i + 1 - 1]
      BY <3>1, <3>2
    <3>4. t[i + 1] = s[i]
      BY <3>1, <3>3
    <3>5. QED  BY <3>1, <3>4
  <2>3. QED  BY <1>1, <2>1, <2>2
<1>4. p + 1 \in 1 .. Len(s) + 1 /\ t[p + 1] = u
  BY <1>1
<1>5. Repair!Range(t) = Repair!Range(s) \cup {u}
  <2>1. /\ \A x : x \in Repair!Range(s) <=> \E i \in 1 .. Len(s) : s[i] = x
        /\ \A x : x \in Repair!Range(t) <=> \E i \in 1 .. Len(s) + 1 : t[i] = x
    BY <1>1 DEF Repair!Range
  <2>2. ASSUME NEW x \in Repair!Range(t) PROVE x \in Repair!Range(s) \cup {u}
    BY <1>2, <2>1
  <2>3. ASSUME NEW x \in Repair!Range(s) \cup {u} PROVE x \in Repair!Range(t)
    BY <1>3, <1>4, <2>1
  <2>4. QED  BY <2>2, <2>3
<1>6. ASSUME Repair!IsInjective(s), u \notin Repair!Range(s)
      PROVE  Repair!IsInjective(t)
  <2>1. \A i \in 1 .. Len(s) : s[i] # u
    BY <1>1, <1>6 DEF Repair!Range
  <2>2. \A i, j \in 1 .. Len(s) : s[i] = s[j] => i = j
    BY <1>1, <1>6 DEF Repair!IsInjective
  <2>3. \A i, j \in 1 .. Len(s) + 1 : t[i] = t[j] => i = j
    BY <1>1, <1>2, <2>1, <2>2
  <2>4. QED  BY <1>1, <2>3 DEF Repair!IsInjective
<1>7. QED  BY <1>5, <1>6 DEF t

LEMMA RepairInit == Repair!Init => Repair!IInv
<1> SUFFICES ASSUME Repair!Init PROVE Repair!IInv
  OBVIOUS
<1> DEFINE D == Repair!Range(destroyed)
<1>1. \A r \in Robots : kept[r] \in Seq(RepairUnits) /\ Repair!IsInjective(kept[r])
  BY RepairConstants DEF Repair!Init, Repair!StartsAssumption
<1>2. destroyed \in Seq(RepairUnits)
  BY RepairConstants DEF Repair!Init, Repair!StartsAssumption, Repair!DestroySets
<1>3. orders = [r \in Robots |-> Repair!Without(kept[r], D)]
  BY DEF Repair!Init
<1> HIDE DEF D
<1>4. ASSUME NEW r \in Robots
      PROVE  /\ orders[r] \in Seq(RepairUnits) /\ Repair!IsInjective(orders[r])
             /\ Repair!Range(orders[r]) \cap D = {}
             /\ Repair!Without(orders[r], D) = Repair!Without(kept[r], D)
  <2>1. orders[r] = Repair!Without(kept[r], D)
    BY <1>3
  <2>2. /\ orders[r] \in Seq(RepairUnits) /\ Repair!IsInjective(orders[r])
        /\ Repair!Range(orders[r]) \cap D = {}
    BY <1>1, <2>1, WithoutLeaves
  <2>3. QED  BY <2>1, <2>2, WithoutNone
<1>5. orders \in [Robots -> Seq(RepairUnits)]
  BY <1>3, <1>4
<1>6. \A r \in Robots : \A u \in D : ~ Repair!Contains(orders[r], u)
  BY <1>4, ContainsRange
<1>7. remaining = destroyed /\ mask \in [RepairUnits -> SUBSET Robots] /\ verdict = "running"
  BY DEF Repair!Init
<1>8. QED  BY <1>2, <1>4, <1>5, <1>6, <1>7 DEF Repair!IInv, D

\* A unit that is out goes to a place of a robot that can take it.
LEMMA InsertKeeps ==
  ASSUME Repair!IInv, NEW c, c.unit \in Repair!Range(remaining),
         c.robot \in mask[c.unit], c.place \in 0 .. Len(orders[c.robot]),
         Repair!Insert(c), UNCHANGED <<mask, kept, destroyed, verdict>>,
         verdict = "running"
  PROVE  Repair!IInv'
<1> DEFINE D == Repair!Range(destroyed)
           u == c.unit
           q == c.robot
<1>1. /\ mask \in [RepairUnits -> SUBSET Robots]
      /\ destroyed \in Seq(RepairUnits) /\ remaining \in Seq(RepairUnits)
      /\ orders \in [Robots -> Seq(RepairUnits)]
      /\ Repair!Range(remaining) \subseteq D
      /\ \A r \in Robots :
           /\ Repair!Without(orders[r], D) = Repair!Without(kept[r], D)
           /\ Repair!IsInjective(orders[r])
           /\ \A x \in Repair!Range(remaining) : ~ Repair!Contains(orders[r], x)
      /\ \A x \in D \ Repair!Range(remaining) : Repair!Settled(x)
  BY DEF Repair!IInv
<1>2. u \in RepairUnits /\ u \in D /\ q \in Robots
  <2>1. Repair!Range(remaining) \subseteq RepairUnits
    BY <1>1 DEF Repair!Range
  <2>2. QED  BY <1>1, <2>1
<1>3. orders[q] \in Seq(RepairUnits)
  BY <1>1, <1>2
<1> DEFINE t == Repair!InsertAt(orders[q], c.place + 1, u)
<1>4. t \in Seq(RepairUnits)
  BY <1>2, <1>3, InsertedAt
<1>5. orders' = [orders EXCEPT ![q] = t] /\ remaining' = Repair!Without(remaining, {u})
  BY DEF Repair!Insert
<1>6. u \notin Repair!Range(orders[q])
  BY <1>1, <1>2, <1>3, ContainsRange
<1>7. /\ Repair!Range(t) = Repair!Range(orders[q]) \cup {u}
      /\ Repair!IsInjective(t)
  BY <1>1, <1>2, <1>3, <1>6, InsertedUnits
<1>8. Repair!Without(t, D) = Repair!Without(orders[q], D)
  BY <1>2, <1>3, WithoutInserted
<1>9. /\ remaining' \in Seq(RepairUnits)
      /\ Repair!Range(remaining') = Repair!Range(remaining) \ {u}
  BY <1>1, <1>5, WithoutLeaves
<1> HIDE DEF t, D
<1>10. orders' \in [Robots -> Seq(RepairUnits)]
  BY <1>1, <1>2, <1>4, <1>5
<1>11. \A r \in Robots : orders'[r] = IF r = q THEN t ELSE orders[r]
  BY <1>1, <1>2, <1>5
<1>12. \A r \in Robots : \A x :
         Repair!Contains(orders'[r], x) <=> Repair!Contains(orders[r], x) \/ (r = q /\ x = u)
  <2> SUFFICES ASSUME NEW r \in Robots, NEW x
               PROVE  Repair!Contains(orders'[r], x)
                        <=> Repair!Contains(orders[r], x) \/ (r = q /\ x = u)
    OBVIOUS
  <2>1. /\ Repair!Contains(orders'[r], x) <=> x \in Repair!Range(orders'[r])
        /\ Repair!Contains(orders[r], x) <=> x \in Repair!Range(orders[r])
    BY <1>1, <1>10, ContainsRange
  <2>2. QED  BY <1>7, <1>11, <2>1
<1>13. \A r \in Robots :
         /\ Repair!Without(orders'[r], D) = Repair!Without(kept[r], D)
         /\ Repair!IsInjective(orders'[r])
  BY <1>1, <1>2, <1>7, <1>8, <1>11
<1>14. \A r \in Robots : \A x \in Repair!Range(remaining') : ~ Repair!Contains(orders'[r], x)
  BY <1>1, <1>9, <1>12
<1>15. ASSUME NEW x \in D \ Repair!Range(remaining')
       PROVE  \E z \in mask[x] : \A r \in Robots : Repair!Contains(orders'[r], x) <=> r = z
  <2>1. CASE x = u
    BY <1>1, <1>2, <1>12, <2>1
  <2>2. CASE x # u
    <3>1. Repair!Settled(x)
      BY <1>1, <1>9, <2>2
    <3>2. QED  BY <1>12, <2>2, <3>1 DEF Repair!Settled
  <2>3. QED  BY <2>1, <2>2
<1>16. D' = D
  BY DEF D, Repair!Range
<1>17. Repair!Range(remaining') \subseteq D
  BY <1>1, <1>9
<1>18. QED
  BY <1>1, <1>9, <1>10, <1>13, <1>14, <1>15, <1>17 DEF Repair!IInv, Repair!Settled, D

\* min(remaining) is one of the units that are out.
LEMMA LeastRemains ==
  ASSUME Repair!IInv, remaining # <<>>
  PROVE  Repair!Least \in Repair!Range(remaining)
<1>1. remaining \in Seq(RepairUnits) /\ RepairUnits \subseteq Nat
  BY RepairConstants DEF Repair!IInv, Repair!StartsAssumption
<1>2. Repair!Range(remaining) \in SUBSET Nat /\ Repair!Range(remaining) # {}
  <2>1. \A i \in DOMAIN remaining : remaining[i] \in RepairUnits
    BY <1>1
  <2>2. 1 \in DOMAIN remaining
    BY <1>1
  <2>3. QED  BY <1>1, <2>1, <2>2 DEF Repair!Range
<1>3. \E m \in Repair!Range(remaining) : \A n \in Repair!Range(remaining) : m <= n
  BY <1>2, LeastNatural
<1>4. QED  BY <1>3 DEF Repair!Least, Repair!Min

LEMMA RepairRound == Repair!IInv /\ Repair!Round => Repair!IInv'
<1> SUFFICES ASSUME Repair!IInv, Repair!Round PROVE Repair!IInv'
  OBVIOUS
<1>1. UNCHANGED <<mask, kept, destroyed, verdict>> /\ verdict = "running"
  BY DEF Repair!Round, Repair!Running, Repair!input
<1>2. CASE UNCHANGED <<orders, remaining>>
  BY <1>1, <1>2 DEF Repair!IInv, Repair!Settled
<1>3. CASE \E c \in Repair!Candidates : Repair!Insert(c)
  <2>1. PICK c \in Repair!Candidates : Repair!Insert(c)
    BY <1>3
  <2>2. PICK w \in Repair!Range(remaining) : c \in Repair!Insertions(w)
    BY DEF Repair!Candidates
  <2>3. c.unit = w /\ c.robot \in mask[w]
    BY <2>2 DEF Repair!Insertions
  <2>4. c.place \in Repair!Positions(Len(orders[c.robot]))
    BY DEF Repair!Candidates
  <2>5. Len(orders[c.robot]) \in Nat
    <3>1. Repair!Range(remaining) \subseteq RepairUnits
      BY DEF Repair!IInv, Repair!Range
    <3>2. c.robot \in Robots
      BY <2>2, <2>3, <3>1 DEF Repair!IInv
    <3>3. QED  BY <3>2 DEF Repair!IInv
  <2>6. c.place \in 0 .. Len(orders[c.robot])
    <3>1. \A n \in Nat : 0 \in 0 .. n /\ n \div 2 \in 0 .. n /\ n \in 0 .. n
      OBVIOUS
    <3>2. \A n \in Nat : Repair!Positions(n) \subseteq 0 .. n
      BY <3>1 DEF Repair!Positions
    <3>3. QED  BY <2>4, <2>5, <3>2
  <2>7. QED  BY <1>1, <2>1, <2>2, <2>3, <2>6, InsertKeeps
<1>4. (\E c \in Repair!Candidates : Repair!Insert(c)) \/ UNCHANGED <<orders, remaining>>
  BY DEF Repair!Round, Repair!First
<1>5. QED  BY <1>2, <1>3, <1>4

LEMMA RepairFallback ==
  Repair!IInv /\ (Repair!FallbackInsert \/ Repair!FallbackAppend) => Repair!IInv'
<1> SUFFICES ASSUME Repair!IInv, Repair!FallbackInsert \/ Repair!FallbackAppend
             PROVE  Repair!IInv'
  OBVIOUS
<1>1. UNCHANGED <<mask, kept, destroyed, verdict>> /\ verdict = "running" /\ remaining # <<>>
  BY DEF Repair!FallbackInsert, Repair!FallbackAppend, Repair!Running, Repair!input
<1>2. Repair!Least \in Repair!Range(remaining)
  BY <1>1, LeastRemains
<1>3. \A r \in mask[Repair!Least] : Len(orders[r]) \in Nat
  <2>1. Repair!Range(remaining) \subseteq RepairUnits
    BY DEF Repair!IInv, Repair!Range
  <2>2. mask[Repair!Least] \subseteq Robots
    BY <1>2, <2>1 DEF Repair!IInv
  <2>3. QED  BY <2>2 DEF Repair!IInv
<1>4. CASE Repair!FallbackInsert
  <2>1. PICK c \in Repair!Insertions(Repair!Least) :
          c.place <= Len(orders[c.robot]) /\ Repair!Insert(c)
    BY <1>4 DEF Repair!FallbackInsert
  <2>2. /\ c.unit = Repair!Least /\ c.robot \in mask[Repair!Least]
        /\ c.place \in 0 .. Repair!Cardinality(RepairUnits)
    BY DEF Repair!Insertions
  <2>3. Repair!Cardinality(RepairUnits) \in Nat
    <3>1. IsFiniteSet(RepairUnits)
      BY RepairConstants DEF Repair!StartsAssumption, Repair!IsFiniteSet, IsFiniteSet
    <3>2. QED  BY <3>1, RepairCount, FS_CardinalityType
  <2>4. c.place \in 0 .. Len(orders[c.robot])
    BY <1>3, <2>1, <2>2, <2>3
  <2>5. QED  BY <1>1, <1>2, <2>1, <2>2, <2>4, InsertKeeps
<1>5. CASE Repair!FallbackAppend
  <2>1. PICK r \in mask[Repair!Least] :
          Repair!Insert([unit |-> Repair!Least, robot |-> r, place |-> Len(orders[r])])
    BY <1>5 DEF Repair!FallbackAppend
  <2> DEFINE c == [unit |-> Repair!Least, robot |-> r, place |-> Len(orders[r])]
  <2>2. c.unit = Repair!Least /\ c.robot = r /\ c.place = Len(orders[r])
    OBVIOUS
  <2>3. c.place \in 0 .. Len(orders[c.robot])
    BY <1>3, <2>2
  <2>4. Repair!Insert(c)
    BY <2>1
  <2> HIDE DEF c
  <2>5. QED  BY <1>1, <1>2, <2>2, <2>3, <2>4, InsertKeeps
<1>6. QED  BY <1>4, <1>5

LEMMA RepairStep == Repair!IInv /\ [Repair!Next]_(Repair!vars) => Repair!IInv'
<1> SUFFICES ASSUME Repair!IInv, [Repair!Next]_(Repair!vars) PROVE Repair!IInv'
  OBVIOUS
<1>1. CASE Repair!Round
  BY <1>1, RepairRound
<1>2. CASE Repair!FallbackInsert \/ Repair!FallbackAppend
  BY <1>2, RepairFallback
<1>3. CASE UNCHANGED <<mask, kept, destroyed, orders, remaining>>
           /\ (verdict' = verdict \/ verdict' = "error"
               \/ (verdict' = "repaired" /\ remaining = <<>>))
  BY <1>3 DEF Repair!IInv, Repair!Settled
<1>4. CASE Repair!FallbackFails \/ Repair!Return \/ Repair!DeadlinePasses
           \/ UNCHANGED Repair!vars
  <2>1. UNCHANGED <<mask, kept, destroyed, orders, remaining>>
        /\ (verdict' = verdict \/ verdict' = "error"
            \/ (verdict' = "repaired" /\ remaining = <<>>))
    BY <1>4 DEF Repair!FallbackFails, Repair!Return, Repair!DeadlinePasses, Repair!vars,
                Repair!input, Repair!loop
  <2>2. QED  BY <1>3, <2>1
<1>5. QED  BY <1>1, <1>2, <1>4 DEF Repair!Next, Repair!Loop

\* However the budget and the clock cut its rounds, whatever is taken out and
\* whichever insertions rank first, a repair that returns has left the other
\* units on their robots in their order, and has put each unit it took out on
\* one robot that can take it.
THEOREM RepairIsLocalHolds == CallSpec => []RepairIsLocal
<1> DEFINE Inv == part = "repair_loop" => Repair!IInv
<1>1. CallInit => Inv
  BY RepairInit DEF CallInit
<1>2. Inv /\ [CallNext]_everything => Inv'
  <2> SUFFICES ASSUME Inv, [CallNext]_everything, part' = "repair_loop"
               PROVE  Repair!IInv'
    OBVIOUS
  <2>1. part = "repair_loop"
    BY DEF CallNext, everything
  <2>2. [Repair!Next]_(Repair!vars)
    BY <2>1 DEF CallNext, everything, repairOwn, Repair!vars, Repair!input, Repair!loop
  <2>3. QED  BY <2>1, <2>2, RepairStep
<1>3. Inv => RepairIsLocal
  <2> SUFFICES ASSUME Repair!IInv, verdict = "repaired" PROVE Repair!RepairIsLocal
    BY DEF RepairIsLocal, Repair!RepairIsLocal
  <2>1. Repair!Range(remaining) = {}
    BY DEF Repair!IInv, Repair!Range
  <2>2. QED  BY <2>1 DEF Repair!IInv, Repair!RepairIsLocal
<1>4. QED  BY <1>1, <1>2, <1>3, PTL DEF CallSpec
=============================================================================
