---------------------------- MODULE MCListScheduler ----------------------------
(* TLC instance of ListScheduler: every order of three segments on up to three *)
(* robots, and orders the argument checks must reject.                         *)
EXTENDS ListScheduler, MCInstances, SequencesExt

\* Splits of each permutation of the segments into consecutive orders.
Split(p, i, j) == <<SubSeq(p, 1, i), SubSeq(p, i + 1, j), SubSeq(p, j + 1, 3)>>

FullOrders == {Split(p, i, j) : p \in SetToSeqs(Segments), i \in 0..3, j \in 0..3}

Rejected ==
  {<< <<1, 2>>, <<2, 3>>, <<>> >>, << <<1>>, <<3>> >>, << <<1, 1>>, <<2, 3>> >>,
   << <<1, 2>>, <<3, 9>> >>, << <<1>>, <<2>>, <<>>, <<3>> >>}

MCOrders == {o \in FullOrders : Covers(o)} \cup Rejected
=============================================================================
