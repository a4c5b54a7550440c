---------------------------- MODULE SealedFinal ----------------------------
(***************************************************************************)
(* The one-time A3.5 final evaluation: the validation-only preflight, the  *)
(* evaluator seal, the generator of the frozen benchmark and the sealed    *)
(* evaluation, as launches of four scripts that share a directory tree and *)
(* may be edited, interleaved or killed between any two file operations.   *)
(* The contents of files are abstracted to what a later step reads from    *)
(* them: the version of the sealed sources, and the verdict reached.       *)
(***************************************************************************)
EXTENDS Naturals, FiniteSets

CONSTANTS Preflights, Sealers, Generators, Evaluators, \* launches of each script
          MaxVersion                                   \* bound on source edits

ASSUME LaunchesDisjoint ==
    /\ Preflights \intersect (Sealers \union Generators \union Evaluators) = {}
    /\ Sealers \intersect (Generators \union Evaluators) = {}
    /\ Generators \intersect Evaluators = {}
    /\ MaxVersion \in Nat \ {0}

Jobs == Preflights \union Sealers \union Generators \union Evaluators
Absent == "absent"
Torn == "torn"              \* opened for writing, the text not yet on disk
NoSeal == [text |-> Absent, sources |-> 0]

VARIABLES
    version,     \* version of the sealed source files now in the working tree
    registered,  \* the registered source, provenance and checkpoint locks hold
    preflight,   \* summary.json of the preflight directory
    seal,        \* the seal file: the source version it hashes
    bench,       \* the benchmark directory and its manifest
    eval,        \* the files of the evaluation directory
    pc,          \* where each launch is
    read,        \* the source version each launch verified or hashed
    opened,      \* launches that have read the frozen instances
    witnessed    \* launches that have read a witness

files == <<preflight, seal, bench, eval>>
vars == <<version, registered, files, pc, read, opened, witnessed>>

NoManifest == [seal |-> NoSeal, sources |-> 0]

Init ==
    /\ version = 1
    /\ registered = TRUE
    /\ preflight = Absent
    /\ seal = NoSeal
    /\ bench = [dir |-> FALSE, under |-> NoSeal, manifest |-> NoManifest]
    /\ eval = [dir |-> FALSE, files |-> {}, verdict |-> {}]
    /\ pc = [j \in Jobs |-> "launched"]
    /\ read = [j \in Jobs |-> 0]
    /\ opened = {}
    /\ witnessed = {}

Goto(j, label) == pc' = [pc EXCEPT ![j] = label]
Refuse(j) == Goto(j, "refused") /\ UNCHANGED <<files, read, opened, witnessed>>
Tree == <<version, registered>>

(* The files every script checks before anything else: a mismatch raises. *)
verify_registered_locks == registered

(* _verify_seal: the seal parses and its hashes are those of the tree now. *)
SealOf(v) == [text |-> "complete", sources |-> v]
verify_seal == seal = SealOf(version)

-----------------------------------------------------------------------------
(* The preflight: the directory is refused if it exists, the candidates are *)
(* evaluated on validation items only, then the summary is written, passed  *)
(* or failed.                                                               *)
PreflightStart(j) ==
    /\ pc[j] = "launched"
    /\ IF verify_registered_locks /\ preflight = Absent
       THEN Goto(j, "evaluating") /\ UNCHANGED <<files, read, opened, witnessed>>
       ELSE Refuse(j)
    /\ UNCHANGED Tree

PreflightMkdir(j) ==
    /\ pc[j] = "evaluating"
    /\ IF preflight = Absent
       THEN /\ preflight' = Torn
            /\ Goto(j, "summary")
            /\ UNCHANGED <<seal, bench, eval, read, opened, witnessed>>
       ELSE Refuse(j)
    /\ UNCHANGED Tree

PreflightSummary(j) ==
    /\ pc[j] = "summary"
    /\ preflight' \in {"passed", "failed"}
    /\ Goto(j, "done")
    /\ UNCHANGED <<Tree, seal, bench, eval, read, opened, witnessed>>

-----------------------------------------------------------------------------
(* The seal: refused once a benchmark, an evaluation or a seal exists, or   *)
(* without a passed preflight.  The checks, the hashing of the sources and  *)
(* the two halves of write_text are separate steps of the launch.           *)
SealCheck(j) ==
    /\ pc[j] = "launched"
    /\ IF /\ verify_registered_locks
          /\ ~bench.dir
          /\ ~eval.dir
          /\ seal = NoSeal
          /\ preflight = "passed"
       THEN Goto(j, "hash") /\ UNCHANGED <<files, read, opened, witnessed>>
       ELSE Refuse(j)
    /\ UNCHANGED Tree

SealHash(j) ==
    /\ pc[j] = "hash"
    /\ read' = [read EXCEPT ![j] = version]
    /\ Goto(j, "open")
    /\ UNCHANGED <<Tree, files, opened, witnessed>>

SealOpen(j) ==
    /\ pc[j] = "open"
    /\ seal' = [text |-> Torn, sources |-> 0]
    /\ Goto(j, "write")
    /\ UNCHANGED <<Tree, preflight, bench, eval, read, opened, witnessed>>

SealWrite(j) ==
    /\ pc[j] = "write"
    /\ seal' = SealOf(read[j])
    /\ Goto(j, "done")
    /\ UNCHANGED <<Tree, preflight, bench, eval, read, opened, witnessed>>

-----------------------------------------------------------------------------
(* The generator: one check of the locks, the seal and both directories;    *)
(* the seal's hash is taken, mkdir refuses a directory made since; a failed *)
(* instance leaves a tree without a manifest, which is written last.        *)
GenerateCheck(j) ==
    /\ pc[j] = "launched"
    /\ IF verify_registered_locks /\ verify_seal /\ ~bench.dir /\ ~eval.dir
       THEN /\ read' = [read EXCEPT ![j] = version]
            /\ Goto(j, "mkdir")
            /\ UNCHANGED <<files, opened, witnessed>>
       ELSE Refuse(j)
    /\ UNCHANGED Tree

GenerateMkdir(j) ==
    /\ pc[j] = "mkdir"
    /\ IF bench.dir
       THEN Refuse(j)
       ELSE /\ bench' = [bench EXCEPT !.dir = TRUE, !.under = seal]
            /\ Goto(j, "records")
            /\ UNCHANGED <<preflight, seal, eval, read, opened, witnessed>>
    /\ UNCHANGED Tree

GenerateRecords(j) ==
    /\ pc[j] = "records"
    /\ \/ bench' = [bench EXCEPT !.manifest = [seal |-> bench.under, sources |-> read[j]]]
          /\ Goto(j, "done")
       \/ Goto(j, "failed") /\ UNCHANGED bench
    /\ UNCHANGED <<Tree, preflight, seal, eval, read, opened, witnessed>>

-----------------------------------------------------------------------------
(* The sealed evaluation: the check, mkdir and attempt_started.json ...     *)
\* Mutant of EvaluateCheck: the seal's source hashes are not compared.
EvaluateUnsealed(j) ==
    /\ pc[j] = "launched"
    /\ IF verify_registered_locks /\ seal.text = "complete" /\ ~eval.dir
       THEN /\ read' = [read EXCEPT ![j] = version]
            /\ Goto(j, "mkdir")
            /\ UNCHANGED <<files, opened, witnessed>>
       ELSE Refuse(j)
    /\ UNCHANGED Tree

EvaluateCheck(j) ==
    /\ pc[j] = "launched"
    /\ IF verify_registered_locks /\ verify_seal /\ ~eval.dir
       THEN /\ read' = [read EXCEPT ![j] = version]
            /\ Goto(j, "mkdir")
            /\ UNCHANGED <<files, opened, witnessed>>
       ELSE Refuse(j)
    /\ UNCHANGED Tree

\* Mutant of EvaluateMkdir: mkdir with exist_ok.
EvaluateMkdirExistOk(j) ==
    /\ pc[j] = "mkdir"
    /\ eval' = [eval EXCEPT !.dir = TRUE]
    /\ Goto(j, "start")
    /\ UNCHANGED <<Tree, preflight, seal, bench, read, opened, witnessed>>

EvaluateMkdir(j) ==
    /\ pc[j] = "mkdir"
    /\ IF eval.dir
       THEN Refuse(j)
       ELSE /\ eval' = [eval EXCEPT !.dir = TRUE]
            /\ Goto(j, "start")
            /\ UNCHANGED <<preflight, seal, bench, read, opened, witnessed>>
    /\ UNCHANGED Tree

Saves(name) == eval' = [eval EXCEPT !.files = @ \union {name}]

AttemptStarted(j) ==
    /\ pc[j] = "start"
    /\ Saves("attempt_started")
    /\ Goto(j, "load")
    /\ UNCHANGED <<Tree, preflight, seal, bench, read, opened, witnessed>>

(* ... the frozen items, only from a complete manifest ... *)
load_final_items(j) ==
    /\ pc[j] = "load"
    /\ bench.manifest # NoManifest
    /\ opened' = opened \union {j}
    /\ Goto(j, "predict")
    /\ UNCHANGED <<Tree, files, read, witnessed>>

(* ... the predictions of the nine methods, saved before any witness ...    *)
evaluate_candidates(j) ==
    /\ pc[j] = "predict"
    /\ Goto(j, "save")
    /\ UNCHANGED <<Tree, files, read, opened, witnessed>>

SavePredictions(j) ==
    /\ pc[j] = "save"
    /\ Saves("predictions")
    /\ Goto(j, "audit")
    /\ UNCHANGED <<Tree, preflight, seal, bench, read, opened, witnessed>>

audit_witnesses(j) ==
    /\ pc[j] = "audit"
    /\ witnessed' = witnessed \union {j}
    /\ Goto(j, "aggregate")
    /\ UNCHANGED <<Tree, files, read, opened>>

(* ... the class of the result: integrity (complete matrix, finite metrics, *)
(* no mask, atomicity or witness failure), the primary test, the robustness *)
(* flag and the advantage over every strong baseline ...                    *)
ResultClass(integrity, primary, robust, advantage) ==
    CASE ~integrity                        -> "INVALID"
      [] integrity /\ ~primary             -> "NOT_SUPPORTED"
      [] integrity /\ primary /\ advantage -> "STRONG"
      [] integrity /\ primary /\ ~advantage /\ robust  -> "SUPPORTED"
      [] integrity /\ primary /\ ~advantage /\ ~robust -> "HETEROGENEOUS"

aggregate_final(j) ==
    /\ pc[j] = "aggregate"
    /\ \E integrity, primary, robust, advantage \in BOOLEAN :
         eval' = [eval EXCEPT !.files = @ \union {"summary"},
                    !.verdict = @ \union {ResultClass(integrity, primary, robust, advantage)}]
    /\ Goto(j, "tail")
    /\ UNCHANGED <<Tree, preflight, seal, bench, read, opened, witnessed>>

SaveRows(j) ==
    /\ pc[j] = "tail"
    /\ Saves("rows")
    /\ Goto(j, "done")
    /\ UNCHANGED <<Tree, preflight, seal, bench, read, opened, witnessed>>

(* ... and any exception after attempt_started.json is recorded as invalid. *)
InTry == {"load", "predict", "save", "audit", "aggregate", "tail"}

\* Mutant of EvaluateFails: the exception is not recorded.
EvaluateFailsSilently(j) ==
    /\ pc[j] \in InTry
    /\ Goto(j, "failed")
    /\ UNCHANGED <<Tree, files, read, opened, witnessed>>

EvaluateFails(j) ==
    /\ pc[j] \in InTry
    /\ eval' = [eval EXCEPT !.files = @ \union {"invalid"},
                            !.verdict = @ \union {"INVALID"}]
    /\ Goto(j, "failed")
    /\ UNCHANGED <<Tree, preflight, seal, bench, read, opened, witnessed>>

-----------------------------------------------------------------------------
(* The environment: somebody edits the sealed sources or a registered file, *)
(* and a launch can be killed anywhere.                                     *)
Ended == {"done", "failed", "refused", "killed"}

Edit ==
    /\ version < MaxVersion
    /\ version' = version + 1
    /\ UNCHANGED <<registered, files, pc, read, opened, witnessed>>

BreakLock ==
    /\ registered' = ~registered
    /\ UNCHANGED <<version, files, pc, read, opened, witnessed>>

Kill(j) ==
    /\ pc[j] \notin Ended \union {"launched"}
    /\ Goto(j, "killed")
    /\ UNCHANGED <<Tree, files, read, opened, witnessed>>

Preflight(j) == PreflightStart(j) \/ PreflightMkdir(j) \/ PreflightSummary(j)
Seal(j) == SealCheck(j) \/ SealHash(j) \/ SealOpen(j) \/ SealWrite(j)
Generate(j) == GenerateCheck(j) \/ GenerateMkdir(j) \/ GenerateRecords(j)
Evaluate(j) ==
    \/ EvaluateCheck(j) \/ EvaluateMkdir(j) \/ AttemptStarted(j)
    \/ load_final_items(j) \/ evaluate_candidates(j) \/ SavePredictions(j)
    \/ audit_witnesses(j) \/ aggregate_final(j) \/ SaveRows(j)
    \/ EvaluateFails(j)

Next ==
    \/ \E j \in Preflights : Preflight(j)
    \/ \E j \in Sealers : Seal(j)
    \/ \E j \in Generators : Generate(j)
    \/ \E j \in Evaluators : Evaluate(j)
    \/ \E j \in Jobs : Kill(j)
    \/ Edit
    \/ BreakLock

(* A launched evaluation keeps running until it ends or is killed. *)
Spec == Init /\ [][Next]_vars /\ \A j \in Evaluators : WF_vars(Evaluate(j))

-----------------------------------------------------------------------------
(* Two launches that both pass the check of the output directory, or a      *)
(* relaunch after a kill, must not read the frozen instances twice: the     *)
(* protocol's evaluation command may be invoked exactly once.               *)
FrozenOpenedOnce == Cardinality(opened) <= 1

(* A result other than INVALID rests on the chain the protocol registered:  *)
(* predictions saved before any witness was opened, a benchmark generated   *)
(* under the seal now on disk, and the same sources at the generation and   *)
(* at the evaluation, whatever was edited or killed in between.             *)
VerdictRestsOnSeal ==
    /\ witnessed # {} => "predictions" \in eval.files
    /\ \A c \in eval.verdict \ {"INVALID"} :
        /\ {"attempt_started", "predictions"} \subseteq eval.files
        /\ bench.manifest.seal = seal
        /\ \A j \in opened : seal = SealOf(read[j]) /\ bench.manifest.sources = read[j]

(* Every attempt that wrote attempt_started.json ends with a recorded       *)
(* verdict, unless it was killed.                                           *)
AttemptSettles ==
    \A j \in Evaluators :
        pc[j] = "load" ~> (eval.verdict # {} \/ pc[j] = "killed")

-----------------------------------------------------------------------------
(* Why a verdict rests on the seal when there is one launch of the sealer:  *)
(* a complete seal is its last write, so that whoever checks it finds the   *)
(* seal that stays, and runs, generates and evaluates under it.             *)
SealTypes ==
    /\ version \in Nat /\ DOMAIN pc = Jobs /\ read \in [Jobs -> Nat]
    /\ seal \in {NoSeal, [text |-> Torn, sources |-> 0]} \union {SealOf(v) : v \in Nat}
    /\ bench \in [dir : BOOLEAN, under : {seal, NoSeal},
                  manifest : {NoManifest, [seal |-> seal, sources |-> seal.sources]}]
    /\ DOMAIN eval = {"dir", "files", "verdict"}
    /\ opened \subseteq Evaluators

SealSettled ==
    seal.text = "complete" =>
        \A s \in Sealers : pc[s] \notin {"launched", "hash", "open", "write"}

(* Who is past its check of the seal, and what that leaves behind.          *)
Under(j) == seal = SealOf(read[j])
Read == {"predict", "save", "audit", "aggregate", "tail"}

GeneratedUnderSeal ==
    /\ \A g \in Generators : pc[g] \in {"mkdir", "records"} => Under(g)
    /\ \A g \in Generators : pc[g] = "records" => bench.dir
    /\ bench.dir => seal.text = "complete" /\ bench.under = seal
    /\ ~bench.dir => bench.under = NoSeal /\ bench.manifest = NoManifest

EvaluatedUnderSeal ==
    /\ \A e \in Evaluators : pc[e] \in {"mkdir", "start"} \union InTry => Under(e)
    /\ \A e \in Evaluators : pc[e] \in InTry => "attempt_started" \in eval.files
    /\ \A e \in Evaluators : pc[e] \in Read =>
         e \in opened /\ bench.manifest # NoManifest
    /\ \A e \in Evaluators : pc[e] \in {"audit", "aggregate", "tail"} =>
         "predictions" \in eval.files
    /\ \A e \in opened : pc[e] # "launched" /\ Under(e)

VerdictBehind ==
    /\ witnessed # {} => "predictions" \in eval.files
    /\ eval.verdict \ {"INVALID"} # {} =>
         {"attempt_started", "predictions"} \subseteq eval.files
         /\ bench.manifest # NoManifest

SealInv == /\ SealTypes /\ SealSettled /\ GeneratedUnderSeal /\ EvaluatedUnderSeal
           /\ VerdictBehind

=============================================================================
