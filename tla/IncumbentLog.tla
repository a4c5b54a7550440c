--------------------------- MODULE IncumbentLog ---------------------------
(***************************************************************************)
(* What an anytime search promises its evaluator: a log of incumbents, in  *)
(* time order, each strictly better than all before it.  A reader who cuts *)
(* the log at any time budget then finds the best plan known at that time  *)
(* at the end of the cut.                                                  *)
(***************************************************************************)
EXTENDS Integers, Sequences

CONSTANTS Times,        \* the readings of the monotonic clock
          Objectives    \* the values of the objective

VARIABLE log

Entries == [time : Times, objective : Objectives]

\* The initializer may have found a plan before the search begins.
Init == log = <<>> \/ \E e \in Entries : log = <<e>>

Record(e) ==
  /\ \A i \in DOMAIN log : log[i].time <= e.time /\ e.objective < log[i].objective
  /\ log' = Append(log, e)

Next == \E e \in Entries : Record(e)

Spec == Init /\ [][Next]_log
-----------------------------------------------------------------------------
\* The entries a reader with budget b may use.
Eligible(b) == {i \in DOMAIN log : log[i].time <= b}

\* The cut at a budget is a prefix of the log, and its last entry is the only
\* best one: the snapshot of best_at_budget never depends on ties.
CutEndsInBest ==
  \A b \in Times : \A j \in Eligible(b) :
    \A i \in DOMAIN log :
      i < j => i \in Eligible(b) /\ log[j].objective < log[i].objective
=============================================================================
