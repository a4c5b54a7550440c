------------------------- MODULE MCAllocationCalls ------------------------
(* TLC instances of AllocationCalls: small instances of each of the calls.     *)
EXTENDS AllocationCalls, MCInstances

\* ResourceStart: up to three spans on two resources of capacity 1 or 2, before
\* a segment that needs one or both of them.
Spans == {[start |-> a, end |-> a + d] : a \in 0..4, d \in 1..3}
MCCalls == (UNION {[D -> Spans] : D \in SUBSET {1, 2, 3}}) \X {0, 2}
Needs == {<<{1}, {1}, {1}, {1}>>, <<{1}, {2}, {1, 2}, {1, 2}>>,
          <<{1}, {2}, {2}, {1, 2}>>, <<{1}, {1}, {1}, {}>>}
Four(v) == [s \in 1..4 |-> v]

\* Only durations and resource needs matter to the loop.
ResourceInstances ==
  {[dur |-> d, uses |-> u, cap |-> c, free |-> f, shut |-> <<30, 30>>,
    opens |-> Four(0), closes |-> Four(30), prio |-> Four(0), pred |-> Four({}),
    curve |-> <<1, 2, 3, 4>>, index |-> Four(0), from |-> Four(0), to |-> Four(1),
    dir |-> Four("forward"), policy |-> Four("free"), able |-> Four(Robots),
    base |-> [r \in Robots |-> 0], on |-> [r \in Robots |-> 0],
    off |-> [r \in Robots |-> 30], pace |-> [r \in Robots |-> 1]] :
     d \in {<<1, 2, 1, 2>>, <<3, 2, 3, 1>>}, u \in Needs,
     c \in {<<1, 1>>, <<2, 2>>, <<2, 1>>}, f \in {<<0, 0>>, <<1, 3>>}}

\* RepairLoop: three units on two robots, any mask; budgets that end before the
\* first round is ranked, between rounds, in the middle of one, and never.
MCStarts == {<< <<3, 1>>, <<2>> >>}
MCRepairConfigs ==
  [engine : {"v1"}, cap : {1, 3}, timed : {FALSE}, amount : {2, 3}]
  \cup [engine : {"v2"}, cap : {1, 3, 5}, timed : BOOLEAN, amount : {2}]
  \cup [engine : {"v2"}, cap : {20}, timed : BOOLEAN, amount : {3}]

\* PointerRollout: four segments, two robots; curves of one to three segments,
\* coupled or not, with precedence between and across them, some circular, some
\* circular only once the curves are contracted.
Curvings ==
  {[curve |-> <<1, 1, 3, 3>>, index |-> <<0, 1, 0, 1>>],
   [curve |-> <<1, 1, 3, 4>>, index |-> <<0, 1, 0, 0>>],
   [curve |-> <<1, 1, 1, 4>>, index |-> <<2, 0, 1, 0>>]}
Orders ==
  {Four({}), <<{}, {3}, {}, {1}>>, <<{}, {3}, {}, {}>>, <<{4}, {}, {2}, {}>>,
   <<{}, {4}, {}, {}>>, <<{4}, {}, {}, {}>>, <<{}, {}, {4}, {2}>>, <<{}, {4}, {}, {3}>>}
Couplings ==
  {Four("free"), <<"same_robot", "same_robot", "free", "free">>, Four("same_robot")}
Abilities ==
  {Four({1, 2}), <<{1}, {2}, {1, 2}, {1, 2}>>, <<{1}, {1, 2}, {2}, {2}>>}
MCPointerInstances ==
  {[dur |-> Four(1), pred |-> p, curve |-> s.curve, index |-> s.index,
    from |-> Four(0), to |-> Four(0), opens |-> Four(0), closes |-> Four(9),
    dir |-> Four("forward"), uses |-> Four({}), prio |-> Four(0), policy |-> c, able |-> a,
    cap |-> <<1, 1>>, free |-> <<0, 0>>, shut |-> <<9, 9>>, base |-> <<0, 0>>, on |-> <<0, 0>>,
    off |-> <<9, 9>>, pace |-> <<1, 1>>] :
     p \in Orders, s \in Curvings, c \in Couplings, a \in Abilities}
AllPlans ==
  [start : SetToSeqs(1..4),
   robot : {<<1, 1, 1, 1>>, <<1, 1, 2, 2>>, <<2, 2, 1, 2>>, <<1, 1, 1, 2>>, <<1, 2, 1, 2>>}]

\* AnytimeSearch: three states, any of which may or may not have a plan, under a
\* deadline that may pass before, between and during the iterations, or never.
MCAnytimeConfigs ==
  [mode : {"fixed_iterations"}, iterations : {2}, deadline : {1, 2},
   restart : {1, 2}, allowInfeasible : {TRUE}]
  \cup
  [mode : {"fixed_time"}, iterations : {3}, deadline : {1, 2},
   restart : {1}, allowInfeasible : {FALSE}]

\* IdenticalRepair: one unit bound to a robot, and one no robot can take (a cost
\* of 50).
MCAmounts == <<1, 1, 2>>
MCCostTables ==
  {[u \in 1..3 |-> [r \in 1..2 |-> IF u = 1 /\ r = 2 THEN 50 ELSE u]],
   [u \in 1..3 |-> [r \in 1..2 |-> IF u = 3 THEN 50 ELSE r]]}

\* AssignmentSolvers: two units on two robots, with every way sequencing can turn
\* out for the assignments, up to four shapes, where every robot is finite; with
\* fewer, where unit 2 has one robot or none.
Outcomes == {<<9, 9, 9, 9>>, <<9, 2, 9, 1>>, <<2, 3, 1, 1>>, <<9, 9, 3, 2>>}
Sequencings == [[{1, 2} -> {1, 2}] -> Outcomes]
SolverInstance(c, l, o) ==
  [cost |-> c, combinations |-> l[1], nodes |-> l[2],
   seq |-> [a \in [{1, 2} -> {1, 2}] |->
              [fixed |-> o[a][1], deadline |-> o[a][2], beam |-> o[a][3], exact |-> o[a][4]]]]
MCSolverInstances ==
  {SolverInstance(<<<<1, 2>>, <<2, 1>>>>, l, o) : l \in {<<3, 8>>, <<4, 5>>}, o \in Sequencings}
  \cup
  {SolverInstance(c, <<4, 8>>, o) : c \in {<<<<1, 1>>, <<9, 2>>>>, <<<<1, 2>>, <<9, 9>>>>},
     o \in {f \in Sequencings : \A a \in DOMAIN f : a[2] = 1 => f[a] = <<9, 9, 9, 9>>}}
=============================================================================
