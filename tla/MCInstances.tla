------------------------------ MODULE MCInstances ------------------------------
(***************************************************************************)
(* Small allocation instances for TLC: three segments 1..3, robots 1..3,   *)
(* one shared resource, tool positions 0..2 on a line.  Each ingredient    *)
(* varies on its own, so that a family holds every combination: chains and *)
(* joins of predecessors, curves cut in two in either id order (some of    *)
(* them circular together with the predecessors, which validate_instance   *)
(* accepts), tight and loose windows, every process direction, capacities  *)
(* that bind and a resource that opens late and closes early.              *)
(***************************************************************************)
EXTENDS AllocationModel

Line(p, q) == IF p < q THEN q - p ELSE p - q

Durations == {<<1, 2, 1>>, <<2, 1, 3>>}

Predecessors ==
  {<<{}, {}, {}>>, <<{}, {1}, {}>>, <<{}, {1}, {2}>>, <<{2}, {}, {}>>, <<{}, {}, {1, 2}>>}

\* curve, index, from and to: whole curves, 1 before 2, 2 before 1.
Shapes ==
  {[curve |-> <<1, 2, 3>>, index |-> <<0, 0, 0>>, from |-> <<0, 1, 2>>, to |-> <<1, 2, 0>>],
   [curve |-> <<1, 1, 3>>, index |-> <<0, 1, 0>>, from |-> <<0, 1, 2>>, to |-> <<1, 2, 0>>],
   [curve |-> <<1, 1, 3>>, index |-> <<1, 0, 0>>, from |-> <<1, 0, 2>>, to |-> <<2, 1, 0>>]}

Windows ==
  {[opens |-> <<0, 0, 0>>, closes |-> <<12, 12, 12>>],
   [opens |-> <<0, 0, 0>>, closes |-> <<5, 5, 6>>],
   [opens |-> <<3, 0, 1>>, closes |-> <<9, 12, 5>>]}

Headings ==
  {<<"forward", "forward", "forward">>, <<"either", "either", "either">>,
   <<"reverse", "either", "forward">>}

Zones ==
  {[uses |-> <<{}, {}, {}>>, cap |-> <<1>>, free |-> <<0>>, shut |-> <<30>>],
   [uses |-> <<{1}, {}, {1}>>, cap |-> <<1>>, free |-> <<1>>, shut |-> <<8>>],
   [uses |-> <<{1}, {1}, {1}>>, cap |-> <<1>>, free |-> <<0>>, shut |-> <<30>>],
   [uses |-> <<{1}, {1}, {1}>>, cap |-> <<2>>, free |-> <<0>>, shut |-> <<9>>]}

Fleets ==
  {[base |-> <<0, 2, 1>>, on |-> <<0, 1, 0>>, off |-> <<30, 30, 7>>, pace |-> <<1, 1, 2>>]}

Build(d, p, sh, w, h, z, f, pol) ==
  [dur |-> d, pred |-> p, curve |-> sh.curve, index |-> sh.index, from |-> sh.from,
   to |-> sh.to, opens |-> w.opens, closes |-> w.closes, dir |-> h, uses |-> z.uses,
   cap |-> z.cap, free |-> z.free, shut |-> z.shut, base |-> f.base, on |-> f.on,
   off |-> f.off, pace |-> f.pace, prio |-> <<0, 1, 1>>, policy |-> pol,
   able |-> <<{1, 2, 3}, {1, 2}, {1, 2, 3}>>]

AnyHandoff == <<"free", "free", "free">>

Family(D, P, S, W, H, Z) ==
  {Build(d, p, s, w, h, z, f, AnyHandoff) :
     d \in D, p \in P, s \in S, w \in W, h \in H, z \in Z, f \in Fleets}

AllInstances == Family(Durations, Predecessors, Shapes, Windows, Headings, Zones)

\* A smaller family for the runs that also choose orders or assignments.
CoreInstances ==
  Family({<<2, 1, 3>>}, {<<{}, {}, {}>>, <<{}, {1}, {}>>, <<{2}, {}, {}>>},
         Shapes, Windows, Headings \ {<<"forward", "forward", "forward">>},
         {z \in Zones : z.uses # <<{1}, {}, {1}>>})
=============================================================================
