-------------------------- MODULE FrozenEvaluation --------------------------
(***************************************************************************)
(* The one-time A3 evaluation: every locked checkpoint and every baseline  *)
(* on every frozen and stress item, in the loader's order, the predictions *)
(* saved before the witnesses are opened, the integrity checks, the        *)
(* preregistered classification and the order in which the results and the *)
(* report are written.  A row keeps what the decision reads of it: its     *)
(* status and whether the verifier accepted the plan.  Bootstrap and       *)
(* Wilcoxon results are any value between the group differences they are   *)
(* computed from.                                                          *)
(***************************************************************************)
EXTENDS Integers, Sequences, FiniteSets, FiniteSetsExt

CONSTANTS
    Order,                     \* the items in the loader's order
    Frozen, Stress, Negative,  \* primary items, stress items, negative controls
    Cell,                      \* item -> difficulty cell
    Learned, Context, Strong,  \* locked checkpoints, weak and strong baselines
    Floor                      \* cell -> absolute coverage floor, in percent

Methods == Learned \union Context \union Strong

(* load_final_items lists the frozen items before the stress items. *)
ItemsLoaded ==
    /\ Frozen \intersect Stress = {} /\ Negative \subseteq Stress
    /\ {Order[i] : i \in DOMAIN Order} = Frozen \union Stress
    /\ \A i, j \in DOMAIN Order :
         Order[i] \in Frozen /\ Order[j] \in Stress => i < j

VARIABLES
    locks,      \* the hashes of sources, provenance, checkpoints, seal agree
    pc,
    next,       \* index of the next item to evaluate
    rows,       \* rows[item][method]: status of the candidate, or "none"
    files,      \* names of the files in the output directory
    report,     \* result class in the compact report, or "none"
    decision,   \* result class, or "none"
    witnesses   \* items whose witness has been opened

vars == <<locks, pc, next, rows, files, report, decision, witnesses>>

(* "infeasible": a unit without an allowed robot; "unverified": no schedule, *)
(* or one the verifier rejects.                                             *)
Statuses == {"feasible", "infeasible", "unverified"}
NoRow == "none"

Init ==
    /\ locks \in BOOLEAN
    /\ pc = "main"
    /\ next = 1
    /\ rows = [x \in Frozen \union Stress |-> [m \in Methods |-> NoRow]]
    /\ files \in {{}, {"left_by_earlier_attempt"}}
    /\ report = "none"
    /\ decision = "none"
    /\ witnesses = {}

-----------------------------------------------------------------------------
(* The decision: rates of verified rows per cell and the two gates.         *)
Verified(x, m) == rows[x][m] = "feasible"

CellItems(c) == {x \in Frozen : Cell[x] = c}
Cells == {Cell[x] : x \in Frozen}

Count(items, methods) ==
    Cardinality({p \in items \X methods : Verified(p[1], p[2])})

(* a/b >= c/d - pct/100, for positive denominators *)
AtLeast(a, b, c, d, pct) == 100 * a * d >= 100 * c * b - pct * b * d

Covers(items, c, m, pct) ==
    AtLeast(Count(items, Learned), Cardinality(items) * Cardinality(Learned),
            Count(c, {m}), Cardinality(c), pct)

CellMargin == 8     \* 1/12, in percent
StrongMargin == 5

floor_checks ==
    /\ \A c \in Cells :
         100 * Count(CellItems(c), Learned)
           >= Floor[c] * Cardinality(CellItems(c)) * Cardinality(Learned)
    /\ \A m \in Context : Covers(Frozen, Frozen, m, 0)
    /\ \A c \in Cells, m \in Context : Covers(CellItems(c), CellItems(c), m, CellMargin)

(* Difference of one item's learned rate and the reference, in percent.     *)
Difference(x, m) ==
    (100 * Count({x}, Learned)) \div Cardinality(Learned)
      - (IF Verified(x, m) THEN 100 ELSE 0)

Differences(m) == {Difference(x, m) : x \in Frozen}

(* The intervals and tests of one reference: the lower end of the interval  *)
(* lies between the smallest and the largest difference, and the adjusted   *)
(* test may or may not reject.                                              *)
strong_pairwise_statistics ==
    {p \in [Strong -> [low : -100..100, rejects : BOOLEAN]] :
        \A m \in Strong : p[m].low \in {Min(Differences(m)), 0, Max(Differences(m))}
                          /\ p[m].low >= Min(Differences(m))
                          /\ p[m].low <= Max(Differences(m))}

CellsKept(m) == \A c \in Cells : Covers(CellItems(c), CellItems(c), m, CellMargin)

classify_final_result(integrity, pairwise) ==
    IF ~integrity THEN "INVALID"
    ELSE IF ~floor_checks THEN "FAILED_BASELINE_FLOOR"
    ELSE IF \A m \in Strong : pairwise[m].low > 0 /\ pairwise[m].rejects /\ CellsKept(m)
         THEN "STRONG_ADVANTAGE"
    ELSE IF \E m \in Strong : pairwise[m].low >= -StrongMargin /\ CellsKept(m)
         THEN "COMPETITIVE_NOT_SUPERIOR"
    ELSE "BASELINE_FLOOR_ONLY"

-----------------------------------------------------------------------------
Data == <<rows, next, decision, report, witnesses>>

(* main: locks, checkpoints, confirmation and seal, before anything is made *)
Main ==
    /\ pc = "main"
    /\ pc' = IF locks THEN "sealed" ELSE "refused"
    /\ UNCHANGED <<locks, files, Data>>

(* _sealed: the output directory must not exist; it is created and the      *)
(* attempt recorded before the manifest is read.                            *)
Sealed ==
    /\ pc = "sealed"
    /\ IF files # {}
       THEN pc' = "refused" /\ UNCHANGED files
       ELSE pc' = "load" /\ files' = {"attempt_started"}
    /\ UNCHANGED <<locks, Data>>

(* Manifest, leakage audit and items of both splits, with their hashes.     *)
load_final_items ==
    /\ pc = "load"
    /\ pc' = "evaluate"
    /\ UNCHANGED <<locks, files, Data>>

evaluate_items ==
    /\ pc = "evaluate"
    /\ next <= Len(Order)
    /\ \E result \in [Methods -> Statuses] :
         rows' = [rows EXCEPT ![Order[next]] = result]
    /\ next' = next + 1
    /\ UNCHANGED <<locks, pc, files, decision, report, witnesses>>

SavePredictions ==
    /\ pc = "evaluate"
    /\ next > Len(Order)
    /\ files' = files \union {"predictions_before_witness"}
    /\ pc' = "witness"
    /\ UNCHANGED <<locks, Data>>

(* Negative controls have no constructive witness and are skipped.          *)
\* Mutant of audit_witnesses_after_prediction: the audit runs before the save.
AuditWhenEvaluated ==
    /\ pc \in {"evaluate", "witness"} /\ next > Len(Order)
    /\ witnesses' = (Frozen \union Stress) \ Negative
    /\ pc' = "decide"
    /\ UNCHANGED <<locks, files, rows, next, decision, report>>

audit_witnesses_after_prediction ==
    /\ pc = "witness"
    /\ witnesses' = (Frozen \union Stress) \ Negative
    /\ pc' = "decide"
    /\ UNCHANGED <<locks, files, rows, next, decision, report>>

(* The integrity checks that can fail once the locks hold: leakage, witness *)
(* failures and non-finite metrics are in "sound"; the rest is computed.    *)
integrity_checks(sound) ==
    /\ sound
    /\ \A x \in Frozen \union Stress, m \in Methods : rows[x][m] # NoRow
    /\ Negative # {}
    /\ \A x \in Negative, m \in Methods : rows[x][m] = "infeasible"

Decide ==
    /\ pc = "decide"
    /\ \E sound \in BOOLEAN, pairwise \in strong_pairwise_statistics :
         decision' = classify_final_result(integrity_checks(sound), pairwise)
    /\ pc' = "write"
    /\ UNCHANGED <<locks, files, rows, next, report, witnesses>>

(* The results in their order; decision.json is the last of them, and the   *)
(* report directory follows.                                                *)
WriteOrder == <<"run_manifest", "rows", "raw_predictions", "metrics", "pairwise",
                "failure_library", "decision">>

WriteResult ==
    /\ pc = "write"
    /\ \E i \in DOMAIN WriteOrder :
         /\ WriteOrder[i] \notin files
         /\ \A k \in 1..(i - 1) : WriteOrder[k] \in files
         /\ files' = files \union {WriteOrder[i]}
         /\ pc' = IF i = Len(WriteOrder) THEN "report" ELSE "write"
    /\ UNCHANGED <<locks, Data>>

WriteReport ==
    /\ pc = "report"
    /\ report' = decision
    /\ files' = files \union {"results"}
    /\ pc' = "done"
    /\ UNCHANGED <<locks, rows, next, decision, witnesses>>

(* Any exception after the attempt was recorded, or a kill that leaves only *)
(* what was written.                                                        *)
InTry == {"load", "evaluate", "witness", "decide", "write", "report"}

Fails ==
    /\ pc \in InTry
    /\ files' = files \union {"attempt_failure"}
    /\ pc' = "failed"
    /\ UNCHANGED <<locks, Data>>

Kill ==
    /\ pc \in InTry
    /\ pc' = "killed"
    /\ UNCHANGED <<locks, files, Data>>

Next ==
    \/ Main \/ Sealed \/ load_final_items \/ evaluate_items \/ SavePredictions
    \/ audit_witnesses_after_prediction \/ Decide \/ WriteResult \/ WriteReport
    \/ Fails \/ Kill

Spec == Init /\ [][Next]_vars

-----------------------------------------------------------------------------
(* A report is never published for a run whose decision, predictions or     *)
(* witness audit is missing on disk, and a failed or killed attempt that    *)
(* had not decided leaves no class behind.                                  *)
ReportRestsOnDisk ==
    /\ report # "none" => report = decision
         /\ {"attempt_started", "predictions_before_witness", "rows", "decision"}
              \subseteq files
    /\ "decision" \in files => witnesses # {} \/ Negative = Stress
    /\ witnesses # {} => "predictions_before_witness" \in files

-----------------------------------------------------------------------------
(* Why: what each place of main leaves behind it, on disk and read.         *)
Audited == witnesses = (Frozen \union Stress) \ Negative

Types == pc \in {"main", "sealed", "refused", "done", "failed", "killed"} \union InTry

LeftBehind ==
    /\ pc \in InTry \union {"done"} => "attempt_started" \in files
    /\ pc \in {"witness", "decide", "write", "report", "done"} =>
         "predictions_before_witness" \in files
    /\ pc \in {"decide", "write", "report", "done"} => Audited
    /\ pc \in {"report", "done"} => "decision" \in files

WrittenInOrder ==
    /\ \A i \in DOMAIN WriteOrder : WriteOrder[i] \in files =>
         \A k \in 1..(i - 1) : WriteOrder[k] \in files
    /\ "decision" \in files => Audited

ReportedLast == report # "none" => pc = "done" /\ report = decision

WitnessesLate ==
    witnesses # {} => Audited /\ "predictions_before_witness" \in files

IInv == Types /\ LeftBehind /\ WrittenInOrder /\ ReportedLast /\ WitnessesLate

=============================================================================
