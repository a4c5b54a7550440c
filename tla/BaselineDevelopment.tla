-------------------------- MODULE BaselineDevelopment --------------------------
(***************************************************************************)
(* run_a4b_baseline_development.py over one output directory: generate,    *)
(* select-operator, run-cell as an array job, labels and aggregate.  A     *)
(* process may be killed between any two writes; a cell is launched again  *)
(* only after its process ended, and an operator who repeats a completed   *)
(* cell first moves its three files away, as docs/30 reports.  Searches    *)
(* are abstracted to how many iterations they completed, a label candidate *)
(* to the four numbers dominance compares.                                 *)
(***************************************************************************)
EXTENDS Integers, FiniteSets

CONSTANTS
  Cells,         \* registered cells
  Budgets,       \* fixed_iterations; the largest is the iteration limit
  MaxLaunches,   \* bound: launches of a cell
  MaxSelections, \* bound: runs of select-operator
  Operators,     \* destroy operators of a label set
  Outcomes       \* what a candidate repair may give: [feasible, objective, cost, edits]

\* What the constants are.
BoundAssumption == MaxLaunches \in Nat

VARIABLES
  corpus,    \* "none", "started" (records without manifest) or "done"
  selection, \* which select-operator wrote train_operator_selection.json; 0: none
  launched,  \* cell -> launches so far
  pc,        \* cell -> where its launch is
  chosen,    \* cell -> selection the launch read
  trace,     \* cell -> iterations its searches completed
  file,      \* cell -> kind of file -> [part, by]
  rows,      \* cell -> rows of the metrics file
  labels,    \* candidates of a label set, or {} before the command
  summary    \* what aggregate wrote: [done, selection, cells]

vars == <<corpus, selection, launched, pc, chosen, trace, file, rows, labels, summary>>

Kinds == {"traces", "metrics", "record"}
Absent == [part |-> "none", by |-> 0]
Unread == [k \in Kinds |-> Absent]
Limit == CHOOSE b \in Budgets : \A c \in Budgets : c <= b

Init ==
  /\ corpus = "none" /\ selection = 0
  /\ launched = [c \in Cells |-> 0] /\ pc = [c \in Cells |-> "idle"]
  /\ chosen = [c \in Cells |-> 0] /\ trace = [c \in Cells |-> 0]
  /\ file = [c \in Cells |-> Unread] /\ rows = [c \in Cells |-> {}]
  /\ labels = {}
  /\ summary = [done |-> FALSE, selection |-> 0, cells |-> [c \in Cells |-> Unread]]

jobs == <<launched, pc, chosen, trace, file, rows>>

-----------------------------------------------------------------------------

generate_a4b_data ==
  /\ \/ corpus = "none" /\ corpus' = "started"
     \/ corpus = "started" /\ corpus' = "done"
  /\ UNCHANGED <<selection, jobs, labels, summary>>

\* Searches on train groups; the file is replaced.
select_operator ==
  /\ corpus = "done" /\ selection < MaxSelections
  /\ selection' = selection + 1
  /\ UNCHANGED <<corpus, jobs, labels, summary>>

Launch(c) ==
  /\ pc[c] = "idle" /\ launched[c] < MaxLaunches
  /\ file[c]["record"].part = "none"
  /\ launched' = [launched EXCEPT ![c] = @ + 1]
  /\ pc' = [pc EXCEPT ![c] = "launched"]
  /\ UNCHANGED <<corpus, selection, chosen, trace, file, rows, labels, summary>>

Go(c, from, to) == pc[c] = from /\ pc' = [pc EXCEPT ![c] = to]

ReadSelection(c) ==
  /\ Go(c, "launched", "selected")
  /\ selection > 0 /\ chosen' = [chosen EXCEPT ![c] = selection]
  /\ UNCHANGED <<corpus, selection, launched, trace, file, rows, labels, summary>>

\* _metric_rows: both views of a trace, whatever ended it.
metric_rows(steps) ==
  {[view |-> "fixed_end_to_end_time", budget |-> 1, compliant |-> TRUE, steps |-> steps]}
  \cup {[view |-> "fixed_iterations", budget |-> b, compliant |-> TRUE, steps |-> steps] :
          b \in Budgets}

reference_row == [view |-> "fixed_iterations_reference", budget |-> Limit,
                  compliant |-> FALSE, steps |-> Limit]

\* Every record, seed and method: the time limit may end a search at any step.
RunSearches(c) ==
  /\ Go(c, "selected", "searched")
  /\ corpus = "done"
  /\ trace' \in {[trace EXCEPT ![c] = n] : n \in 0..Limit}
  /\ UNCHANGED <<corpus, selection, launched, chosen, file, rows, labels, summary>>

Write(c, kind, part) ==
  file' = [file EXCEPT ![c][kind] = [part |-> part, by |-> launched[c]]]

OpenFile(c) ==
  /\ \/ Go(c, "searched", "traces") /\ Write(c, "traces", "some") /\ rows' = rows
     \/ Go(c, "traced", "metrics") /\ Write(c, "metrics", "some")
        /\ rows' = [rows EXCEPT ![c] = {}]
  /\ UNCHANGED <<corpus, selection, launched, chosen, trace, labels, summary>>

CloseFile(c) ==
  /\ \/ Go(c, "traces", "traced") /\ Write(c, "traces", "all") /\ rows' = rows
     \/ Go(c, "metrics", "measured") /\ Write(c, "metrics", "all")
        /\ rows' = [rows EXCEPT ![c] = metric_rows(trace[c]) \cup {reference_row}]
  /\ UNCHANGED <<corpus, selection, launched, chosen, trace, labels, summary>>

WriteRecord(c) ==
  /\ Go(c, "measured", "idle") /\ Write(c, "record", "all")
  /\ UNCHANGED <<corpus, selection, launched, chosen, trace, rows, labels, summary>>

Killed(c) ==
  /\ pc[c] # "idle" /\ pc' = [pc EXCEPT ![c] = "idle"]
  /\ UNCHANGED <<corpus, selection, launched, chosen, trace, file, rows, labels, summary>>

\* The files of a cell are moved to invalid_runs.
Retire(c) ==
  /\ pc[c] = "idle" /\ file[c] # Unread
  /\ file' = [file EXCEPT ![c] = Unread] /\ rows' = [rows EXCEPT ![c] = {}]
  /\ UNCHANGED <<corpus, selection, launched, pc, chosen, trace, labels, summary>>

-----------------------------------------------------------------------------
(* Labels: every operator repairs the same state.                          *)

Rank(x) == <<x.objective, x.cost, x.edits>>
NoWorse(x, y) == \A i \in 1..3 : Rank(x)[i] <= Rank(y)[i]

dominates(x, y) ==
  \/ x.feasible /\ ~ y.feasible
  \/ x.feasible = y.feasible /\ NoWorse(x, y) /\ Rank(x) # Rank(y)

generate_labels ==
  /\ corpus = "done" /\ labels = {}
  /\ \E after \in [Operators -> Outcomes] :
       labels' = {[operator |-> o, after |-> after[o],
                   dominates |-> {p \in Operators : dominates(after[o], after[p])}] :
                  o \in Operators}
  /\ UNCHANGED <<corpus, selection, jobs, summary>>

-----------------------------------------------------------------------------

\* Mutant of ShardsPresent: the record is not asked for.
WithoutRecord(c) == \A k \in {"traces", "metrics"} : file[c][k].part # "none"

ShardsPresent(c) == \A k \in Kinds : file[c][k].part # "none"

\* The three files of every cell, and the selection file as it is now.
aggregate ==
  /\ \A c \in Cells : ShardsPresent(c)
  /\ selection > 0
  /\ summary' = [done |-> TRUE, selection |-> selection, cells |-> file]
  /\ UNCHANGED <<corpus, selection, jobs, labels>>

Next ==
  \/ generate_a4b_data \/ select_operator \/ generate_labels \/ aggregate
  \/ \E c \in Cells :
       \/ Launch(c) \/ ReadSelection(c) \/ RunSearches(c) \/ OpenFile(c) \/ CloseFile(c)
       \/ WriteRecord(c) \/ Killed(c) \/ Retire(c)

Spec == Init /\ [][Next]_vars

-----------------------------------------------------------------------------

\* A summary counts whole shards: the three files aggregate read of a cell were
\* written to their end by one launch, though launches were killed between any
\* two writes and repeated over what they left.
SummaryReadsWholeShards ==
  summary.done =>
    \A c \in Cells : \E j \in 1..MaxLaunches :
      \A k \in Kinds : summary.cells[c][k] = [part |-> "all", by |-> j]

-----------------------------------------------------------------------------
\* Why: a launch is let in only where no record is, so that a record, written
\* last, is always about the two files beside it.
Types ==
  /\ launched \in [Cells -> 0..MaxLaunches]
  /\ DOMAIN pc = Cells
  /\ file \in [Cells -> [Kinds -> [part : {"none", "some", "all"}, by : Nat]]]

Written(c, kinds, j) == \A k \in kinds : file[c][k] = [part |-> "all", by |-> j]

LaunchedWithoutRecord ==
  \A c \in Cells : pc[c] # "idle" => launched[c] > 0 /\ file[c]["record"].part = "none"

WrittenByLaunch ==
  \A c \in Cells :
    /\ pc[c] \in {"traced", "metrics"} => Written(c, {"traces"}, launched[c])
    /\ pc[c] = "measured" => Written(c, {"traces", "metrics"}, launched[c])

RecordOfOneLaunch ==
  \A c \in Cells : file[c]["record"].part # "none" =>
    \E j \in 1..MaxLaunches : Written(c, Kinds, j)

IInv == /\ Types /\ LaunchedWithoutRecord /\ WrittenByLaunch /\ RecordOfOneLaunch
        /\ SummaryReadsWholeShards

=============================================================================
