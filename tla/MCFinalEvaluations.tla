------------------------ MODULE MCFinalEvaluations ------------------------
(***************************************************************************)
(* TLC instances of FinalEvaluations: two generators and two evaluators of *)
(* the sealed final; a frozen item, a negative control, a checkpoint, a    *)
(* weak and a strong baseline of the frozen evaluation; two cells of the   *)
(* pilot, one of them launched twice.                                      *)
(***************************************************************************)
EXTENDS FinalEvaluations

MCOrder == <<"frozen", "control">>
MCCell == [x \in {"frozen", "control"} |-> "easy"]
MCFloor == [c \in {"easy"} |-> 95]
MCCellOf == [j \in {1, 2, 3} |-> IF j = 3 THEN 2 ELSE j]
=============================================================================
