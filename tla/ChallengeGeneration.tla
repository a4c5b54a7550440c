------------------------ MODULE ChallengeGeneration ------------------------
(***************************************************************************)
(* The challenge groups of Protocol R: from a base instance with a         *)
(* verified witness, the window ends of ever more units are moved until    *)
(* the unchanged initializer misses one; an attempt is kept when both of   *)
(* its variants are such instances.  An instance is abstracted to its      *)
(* window ends and to the finish times of two verified plans, the witness  *)
(* and the plan of the initializer's state; times are in half units.       *)
(***************************************************************************)
EXTENDS Naturals, Sequences, FiniteSets, FiniteSetsExt

CONSTANTS Units,       \* the assignment units, sets of segments (numbers)
          Instances,   \* records [end, witness, hybrid], one time per segment
          Variants,    \* variants per group
          MaxAttempts  \* max_base_attempts_per_group

Segments == UNION Units
Fits(plan, end) == \A s \in Segments : plan[s] <= end[s]

Times == [Segments -> Nat]

(* The units part the segments; both plans of an instance keep its windows. *)
ChallengeAssumption ==
    /\ IsFiniteSet(Units)
    /\ \A u \in Units : u # {} /\ u \subseteq Nat /\ IsFiniteSet(u)
    /\ \A u, v \in Units : u \cap v # {} => u = v
    /\ Instances \subseteq [end : Times, witness : Times, hybrid : Times]
    /\ \A i \in Instances : Fits(i.witness, i.end) /\ Fits(i.hybrid, i.end)

Outcomes == {"feasible", "time_window_failure", "other_failure"}

VARIABLES attempt,   \* base attempt of the group
          eligible,  \* outcome of each variant of this attempt built so far
          phase,     \* "generate", "tighten", "accepted" or "exhausted"
          base,      \* the instance of the variant being built
          length     \* units tightened so far, the longest gaps first

vars == <<attempt, eligible, phase, base, length>>

Init ==
    /\ attempt = 1
    /\ eligible = <<>>
    /\ phase = "generate"
    /\ base \in Instances
    /\ length = 0

-----------------------------------------------------------------------------
\* Mutant of finish_by_unit: the first segment to end stands for the unit.
FirstFinish(plan, u) == Min({plan[s] : s \in u})

finish_by_unit(plan, u) == Max({plan[s] : s \in u})

Gap(i, u) == finish_by_unit(i.hybrid, u) - finish_by_unit(i.witness, u)

(* The units the initializer's plan finishes later than the witness.        *)
Late(i) == {u \in Units : finish_by_unit(i.hybrid, u) > finish_by_unit(i.witness, u)}

(* The largest gap first, ties by the first segment of the unit.            *)
Before(i, u, v) ==
    \/ Gap(i, u) > Gap(i, v)
    \/ Gap(i, u) = Gap(i, v) /\ Min(u) < Min(v)

Ranked(i) ==
    [k \in 1..Cardinality(Late(i)) |->
       CHOOSE u \in Late(i) : Cardinality({v \in Late(i) : Before(i, v, u)}) = k - 1]

(* The window end of a segment when the unit u it belongs to is tightened.  *)
NewEnd(i, u, s) ==
    LET witness == finish_by_unit(i.witness, u)
        midpoint == (witness + finish_by_unit(i.hybrid, u)) \div 2
    IN  Max({witness, Min({i.end[s], midpoint})})

(* The window ends once the first n ranked units are tightened.             *)
Tightened(i, n) ==
    LET selected == {Ranked(i)[k] : k \in 1..n}
    IN  [s \in Segments |->
           IF \E u \in selected : s \in u
           THEN NewEnd(i, CHOOSE u \in selected : s \in u, s)
           ELSE i.end[s]]

-----------------------------------------------------------------------------
Built(outcome) ==
    /\ eligible' = Append(eligible, outcome)
    /\ phase' = "generate"
    /\ length' = 0
    /\ UNCHANGED <<attempt, base>>

(* The base instance of the next variant, and the initializer on it: a      *)
(* window failure is already a challenge, any other failure is not.         *)
Base ==
    /\ phase = "generate" /\ Len(eligible) < Variants
    /\ \E outcome \in Outcomes :
         IF outcome = "feasible"
         THEN /\ base' \in Instances
              /\ phase' = "tighten"
              /\ UNCHANGED <<attempt, eligible, length>>
         ELSE Built(outcome = "time_window_failure")

(* One prefix of the ranked units: skipped when it loses the witness, kept  *)
(* when the initializer run on it misses a window.                          *)
Tighten ==
    /\ phase = "tighten" /\ length < Len(Ranked(base))
    /\ LET end == Tightened(base, length + 1) IN
         \E outcome \in Outcomes :
            IF Fits(base.witness, end) /\ outcome = "time_window_failure"
            THEN Built(TRUE)
            ELSE length' = length + 1 /\ UNCHANGED <<attempt, eligible, phase, base>>

NotConstructed ==
    /\ phase = "tighten" /\ length = Len(Ranked(base))
    /\ Built(FALSE)

(* The group is the first attempt whose variants are all eligible; after    *)
(* the last attempt the whole generation raises.                            *)
Judge ==
    /\ phase = "generate" /\ Len(eligible) = Variants
    /\ IF \A v \in 1..Variants : eligible[v]
       THEN phase' = "accepted" /\ UNCHANGED <<attempt, eligible>>
       ELSE IF attempt < MaxAttempts
       THEN attempt' = attempt + 1 /\ eligible' = <<>> /\ UNCHANGED phase
       ELSE phase' = "exhausted" /\ UNCHANGED <<attempt, eligible>>
    /\ UNCHANGED <<base, length>>

Next == Base \/ Tighten \/ NotConstructed \/ Judge

Spec == Init /\ [][Next]_vars

-----------------------------------------------------------------------------
(* Every prefix tried separates the two plans: the witness still fits, so   *)
(* no prefix is ever skipped for it, and the plan the initializer had found *)
(* no longer does, whatever atomic units and shared finishes look like.     *)
PrefixSeparatesPlans ==
    phase = "tighten" =>
        \A n \in 1..Len(Ranked(base)) :
            /\ Fits(base.witness, Tightened(base, n))
            /\ ~Fits(base.hybrid, Tightened(base, n))

=============================================================================
