--------------------------- MODULE MCDeadlineScheduler ---------------------------
(* TLC instance of DeadlineScheduler: every assignment of three segments, and    *)
(* assignments that miss a segment, name an unknown one or an unknown robot.     *)
EXTENDS DeadlineScheduler, MCInstances

MCAssignments ==
  [Segments -> Robots] \cup {<<1, 2>>, <<1, 2, 1, 1>>, <<1, 4, 2>>}
=============================================================================
