----------------------- MODULE FinalEvaluationsProofs -----------------------
(***************************************************************************)
(* Proofs about the evaluations that may run once.  Of the sealed final:   *)
(* however many evaluations are launched, edited under and killed, mkdir   *)
(* without exist_ok lets a single one through, and with one sealer its     *)
(* verdict rests on the seal.  Of the frozen evaluation: a report rests on *)
(* what is on disk.  Of the pilot: a summary rests on the one seal.        *)
(***************************************************************************)
EXTENDS FinalEvaluations, FiniteSetTheorems, TLAPS

-----------------------------------------------------------------------------
(* The sealed final: one launch through mkdir.                             *)

\* Where a launch is between its mkdir and its end.
Inside == {"start"} \union InTry

\* The launches that mkdir has let through and that still count.
Entered == {j \in Evaluators : pc[j] \in Inside} \union opened

FileTypes ==
  /\ DOMAIN pc = Jobs
  /\ DOMAIN eval = {"dir", "files", "verdict"}
  /\ opened \subseteq Evaluators

OneThroughMkdir ==
  /\ Entered # {} => eval.dir
  /\ \A i, j \in Entered : i = j

IInv == FileTypes /\ OneThroughMkdir

\* The directory is never removed, and a step that lets nobody in keeps the
\* invariant.
NobodyEnters ==
  /\ FileTypes'
  /\ Entered' \subseteq Entered
  /\ eval'.dir = eval.dir

LEMMA NobodyEntersKeeps == ASSUME IInv, NobodyEnters PROVE IInv'
  BY DEF IInv, NobodyEnters, OneThroughMkdir

\* A launch that goes to a place outside the evaluation enters nothing.
LEMMA GoingOutside ==
  ASSUME FileTypes, NEW j \in Jobs, NEW label, label \notin Inside,
         Goto(j, label), opened' = opened, eval'.dir = eval.dir,
         DOMAIN eval' = DOMAIN eval
  PROVE  NobodyEnters
<1>1. DOMAIN pc' = Jobs /\ \A k \in Jobs : pc'[k] = IF k = j THEN label ELSE pc[k]
  BY DEF FileTypes, Goto
<1>2. Evaluators \subseteq Jobs
  BY DEF Jobs
<1>3. Entered' \subseteq Entered
  BY <1>1, <1>2 DEF Entered, Inside, InTry
<1>4. FileTypes'
  BY <1>1 DEF FileTypes
<1>5. QED  BY <1>3, <1>4 DEF NobodyEnters

\* A launch that moves on inside the evaluation, or leaves it, was already in.
LEMMA GoingOn ==
  ASSUME FileTypes, NEW j \in Evaluators, NEW label, pc[j] \in Inside,
         Goto(j, label), opened' \subseteq opened \union {j}, eval'.dir = eval.dir,
         DOMAIN eval' = DOMAIN eval
  PROVE  NobodyEnters
<1>1. Evaluators \subseteq Jobs
  BY DEF Jobs
<1>2. DOMAIN pc' = Jobs /\ \A k \in Jobs : pc'[k] = IF k = j THEN label ELSE pc[k]
  BY DEF FileTypes, Goto
<1>3. Entered' \subseteq Entered
  BY <1>1, <1>2 DEF Entered, Inside, InTry
<1>4. FileTypes'
  BY <1>2 DEF FileTypes
<1>5. QED  BY <1>3, <1>4 DEF NobodyEnters

\* What a step that leaves the launches, the directory and the readers alone does.
LEMMA StandingStill ==
  ASSUME FileTypes, UNCHANGED <<pc, opened, eval>>
  PROVE  NobodyEnters
  BY DEF FileTypes, NobodyEnters, Entered

LEMMA OthersStep ==
  ASSUME IInv, NEW j \in Jobs, Preflight(j) \/ Seal(j) \/ Generate(j) \/ Kill(j)
  PROVE  NobodyEnters
<1> USE DEF IInv, files, Refuse
<1>0. \A label \in {"evaluating", "summary", "done", "hash", "open", "write",
                    "mkdir", "records", "failed", "refused", "killed"} : label \notin Inside
  BY DEF Inside, InTry
<1>1. CASE PreflightStart(j)  BY <1>0, <1>1, GoingOutside DEF PreflightStart
<1>2. CASE PreflightMkdir(j)  BY <1>0, <1>2, GoingOutside DEF PreflightMkdir
<1>3. CASE PreflightSummary(j)  BY <1>0, <1>3, GoingOutside DEF PreflightSummary
<1>4. CASE SealCheck(j)  BY <1>0, <1>4, GoingOutside DEF SealCheck
<1>5. CASE SealHash(j)  BY <1>0, <1>5, GoingOutside DEF SealHash
<1>6. CASE SealOpen(j)  BY <1>0, <1>6, GoingOutside DEF SealOpen
<1>7. CASE SealWrite(j)  BY <1>0, <1>7, GoingOutside DEF SealWrite
<1>8. CASE GenerateCheck(j)  BY <1>0, <1>8, GoingOutside DEF GenerateCheck
<1>9. CASE GenerateMkdir(j)  BY <1>0, <1>9, GoingOutside DEF GenerateMkdir
<1>10. CASE GenerateRecords(j)  BY <1>0, <1>10, GoingOutside DEF GenerateRecords
<1>11. CASE Kill(j)  BY <1>0, <1>11, GoingOutside DEF Kill
<1>12. QED
  BY <1>1, <1>2, <1>3, <1>4, <1>5, <1>6, <1>7, <1>8, <1>9, <1>10, <1>11
     DEF Preflight, Seal, Generate

\* mkdir itself: it succeeds only while nobody is in, and lets one launch in.
LEMMA MkdirLetsOneIn ==
  ASSUME IInv, NEW j \in Evaluators, EvaluateMkdir(j)
  PROVE  IInv'
<1>1. j \in Jobs
  BY DEF Jobs
<1>2. CASE eval.dir
  <2>1. NobodyEnters
    BY <1>1, <1>2, GoingOutside DEF IInv, EvaluateMkdir, Refuse, files, Inside, InTry
  <2>2. QED  BY <2>1, NobodyEntersKeeps
<1>3. CASE ~ eval.dir
  <2>1. Entered = {}
    BY <1>3 DEF IInv, OneThroughMkdir
  <2>2. Goto(j, "start") /\ opened' = opened /\ eval' = [eval EXCEPT !.dir = TRUE]
    BY <1>3 DEF EvaluateMkdir
  <2>3. DOMAIN pc' = Jobs /\ \A k \in Jobs : k # j => pc'[k] = pc[k]
    BY <2>2 DEF IInv, FileTypes, Goto
  <2>4. Entered' \subseteq {j}
    BY <2>1, <2>2, <2>3 DEF Entered, Jobs, Inside, InTry
  <2>5. eval'.dir = TRUE /\ FileTypes'
    BY <2>2, <2>3 DEF IInv, FileTypes
  <2>6. QED  BY <2>4, <2>5 DEF IInv, OneThroughMkdir
<1>4. QED  BY <1>2, <1>3

\* Every other step of an evaluation is one of a launch that stays out or is in.
LEMMA EvaluationStep ==
  ASSUME IInv, NEW j \in Evaluators, Evaluate(j), ~ EvaluateMkdir(j)
  PROVE  NobodyEnters
<1> USE DEF IInv, files
<1>0. j \in Jobs /\ InTry \subseteq Inside
      /\ {"start", "load", "predict", "save", "audit", "aggregate", "tail"} \subseteq Inside
  BY DEF Jobs, Inside, InTry
<1>1. CASE EvaluateCheck(j)
  <2>1. {"mkdir", "refused"} \cap Inside = {}
    BY DEF Inside, InTry
  <2>2. QED  BY <1>0, <1>1, <2>1, GoingOutside DEF EvaluateCheck, Refuse
<1>2. CASE AttemptStarted(j)
  <2>1. eval'.dir = eval.dir /\ DOMAIN eval' = DOMAIN eval
    BY <1>2 DEF AttemptStarted, Saves, FileTypes
  <2>2. QED  BY <1>0, <1>2, <2>1, GoingOn DEF AttemptStarted
<1>3. CASE load_final_items(j)
  BY <1>0, <1>3, GoingOn DEF load_final_items
<1>4. CASE evaluate_candidates(j)
  BY <1>0, <1>4, GoingOn DEF evaluate_candidates
<1>5. CASE SavePredictions(j)
  <2>1. eval'.dir = eval.dir /\ DOMAIN eval' = DOMAIN eval
    BY <1>5 DEF SavePredictions, Saves, FileTypes
  <2>2. QED  BY <1>0, <1>5, <2>1, GoingOn DEF SavePredictions
<1>6. CASE audit_witnesses(j)
  BY <1>0, <1>6, GoingOn DEF audit_witnesses
<1>7. CASE aggregate_final(j)
  <2>1. eval'.dir = eval.dir /\ DOMAIN eval' = DOMAIN eval
    BY <1>7 DEF aggregate_final, FileTypes
  <2>2. QED  BY <1>0, <1>7, <2>1, GoingOn DEF aggregate_final
<1>8. CASE SaveRows(j)
  <2>1. eval'.dir = eval.dir /\ DOMAIN eval' = DOMAIN eval
    BY <1>8 DEF SaveRows, Saves, FileTypes
  <2>2. QED  BY <1>0, <1>8, <2>1, GoingOn DEF SaveRows
<1>9. CASE EvaluateFails(j)
  <2>1. eval'.dir = eval.dir /\ DOMAIN eval' = DOMAIN eval
    BY <1>9 DEF EvaluateFails, FileTypes
  <2>2. QED  BY <1>0, <1>9, <2>1, GoingOn DEF EvaluateFails
<1>10. QED
  BY <1>1, <1>2, <1>3, <1>4, <1>5, <1>6, <1>7, <1>8, <1>9 DEF Evaluate

LEMMA Invariance == Spec => []IInv
<1>1. Init => IInv
  <2> SUFFICES ASSUME Init PROVE IInv
    OBVIOUS
  <2>1. FileTypes
    BY DEF Init, FileTypes
  <2>2. Entered = {}
    BY DEF Init, Entered, Inside, InTry, Jobs
  <2>3. QED  BY <2>1, <2>2 DEF IInv, OneThroughMkdir
<1>2. IInv /\ [Next]_vars => IInv'
  <2> SUFFICES ASSUME IInv, [Next]_vars PROVE IInv'
    OBVIOUS
  <2>1. ASSUME NEW j \in Jobs, Preflight(j) \/ Seal(j) \/ Generate(j) \/ Kill(j)
        PROVE  IInv'
    BY <2>1, OthersStep, NobodyEntersKeeps
  <2>2. ASSUME NEW j \in Evaluators, Evaluate(j)
        PROVE  IInv'
    BY <2>2, MkdirLetsOneIn, EvaluationStep, NobodyEntersKeeps
  <2>3. CASE Edit \/ BreakLock
    BY <2>3, StandingStill, NobodyEntersKeeps DEF IInv, Edit, BreakLock, files
  <2>4. CASE UNCHANGED vars
    BY <2>4, StandingStill, NobodyEntersKeeps DEF IInv, vars, files
  <2>5. QED  BY <2>1, <2>2, <2>3, <2>4 DEF Next, Jobs
<1>3. QED  BY <1>1, <1>2, PTL DEF Spec

\* However many evaluations are launched, whatever is edited and whoever is
\* killed, at most one launch ever reads the frozen instances.
THEOREM FrozenOpenedOnceHolds == Spec => []FrozenOpenedOnce
<1>1. IInv => FrozenOpenedOnce
  <2> SUFFICES ASSUME IInv PROVE Cardinality(opened) <= 1
    BY DEF FrozenOpenedOnce
  <2>1. \A i, j \in opened : i = j
    BY DEF IInv, OneThroughMkdir, Entered
  <2>2. CASE opened = {}
    BY <2>2, FS_EmptySet
  <2>3. CASE opened # {}
    <3>1. PICK j : opened = {j}
      BY <2>1, <2>3
    <3>2. QED  BY <3>1, FS_Singleton
  <2>4. QED  BY <2>2, <2>3
<1>2. QED  BY <1>1, Invariance, PTL
-----------------------------------------------------------------------------
(* The sealed final: the seal does not change under those that checked it. *)

SealerIsOne == \A s, t \in Sealers : s = t

LEMMA Moved ==
  ASSUME NEW j \in Jobs, NEW label, DOMAIN pc = Jobs, Goto(j, label)
  PROVE  /\ DOMAIN pc' = Jobs /\ pc'[j] = label
         /\ \A k \in Jobs : k # j => pc'[k] = pc[k]
  BY DEF Goto

LEMMA Launched ==
  /\ Sealers \subseteq Jobs /\ Generators \subseteq Jobs /\ Evaluators \subseteq Jobs
  /\ \A g \in Generators, e \in Evaluators : g # e
  /\ \A s \in Sealers : s \notin Generators /\ s \notin Evaluators
  BY LaunchesDisjoint DEF Jobs

\* A launch that goes where no part of the invariant looks.
LEMMA Leaving ==
  ASSUME SealInv, NEW j \in Jobs,
         NEW label \in {"evaluating", "summary", "done", "failed", "refused", "killed"},
         Goto(j, label), UNCHANGED <<version, seal, bench, eval, read, opened, witnessed>>
  PROVE  SealInv'
<1>1. /\ DOMAIN pc' = Jobs /\ pc'[j] = label
      /\ \A k \in Jobs : k # j => pc'[k] = pc[k]
  BY Moved DEF SealInv, SealTypes
<1>2. SealTypes'
  BY <1>1 DEF SealInv, SealTypes
<1>3. SealSettled'
  BY <1>1, Launched DEF SealInv, SealSettled
<1>4. GeneratedUnderSeal'
  BY <1>1, Launched DEF SealInv, GeneratedUnderSeal, Under
<1>5. EvaluatedUnderSeal'
  BY <1>1, Launched DEF SealInv, SealTypes, EvaluatedUnderSeal, Under, InTry, Read
<1>6. VerdictBehind'
  BY DEF SealInv, VerdictBehind
<1>7. QED  BY <1>2, <1>3, <1>4, <1>5, <1>6 DEF SealInv

LEMMA SealerStep ==
  ASSUME SealInv, SealerIsOne, NEW j \in Sealers, Seal(j)
  PROVE  SealInv'
<1>0. j \in Jobs
  BY Launched
<1>1. ASSUME NEW label \in {"hash", "open"}, pc[j] \in {"launched", "hash"}, Goto(j, label),
             UNCHANGED <<version, seal, bench, eval, opened, witnessed>>,
             read' \in [Jobs -> Nat], \A k \in Jobs : k # j => read'[k] = read[k]
      PROVE  SealInv'
  <2>1. /\ DOMAIN pc' = Jobs /\ pc'[j] = label
        /\ \A k \in Jobs : k # j => pc'[k] = pc[k]
    BY <1>0, <1>1, Moved DEF SealInv, SealTypes
  <2>2. SealTypes'
    BY <1>1, <2>1 DEF SealInv, SealTypes
  <2>3. SealSettled'
    BY <1>1 DEF SealInv, SealSettled
  <2>4. GeneratedUnderSeal'
    BY <1>1, <2>1, Launched DEF SealInv, GeneratedUnderSeal, Under
  <2>5. EvaluatedUnderSeal'
    BY <1>1, <2>1, Launched DEF SealInv, SealTypes, EvaluatedUnderSeal, Under, InTry, Read
  <2>6. VerdictBehind'
    BY <1>1 DEF SealInv, VerdictBehind
  <2>7. QED  BY <2>2, <2>3, <2>4, <2>5, <2>6 DEF SealInv
<1>2. ASSUME NEW label \in {"write", "done"}, pc[j] \in {"open", "write"}, Goto(j, label),
             UNCHANGED <<version, bench, eval, read, opened, witnessed>>,
             \/ seal' = [text |-> Torn, sources |-> 0]
             \/ label = "done" /\ seal' = SealOf(read[j])
      PROVE  SealInv'
  <2>1. /\ DOMAIN pc' = Jobs /\ pc'[j] = label
        /\ \A k \in Jobs : k # j => pc'[k] = pc[k]
    BY <1>0, <1>2, Moved DEF SealInv, SealTypes
  <2>2. seal.text # "complete"
    BY <1>2 DEF SealInv, SealSettled
  <2>3. ~ bench.dir /\ bench.under = NoSeal /\ bench.manifest = NoManifest
    BY <2>2 DEF SealInv, GeneratedUnderSeal, SealTypes
  <2>4. \A k \in Jobs : ~ Under(k)
    BY <2>2 DEF Under, SealOf
  <2>5. read[j] \in Nat
    BY <1>0 DEF SealInv, SealTypes
  <2>6. SealTypes'
    BY <1>2, <2>1, <2>3, <2>5 DEF SealInv, SealTypes
  <2>7. SealSettled'
    <3>1. SUFFICES ASSUME seal'.text = "complete", NEW s \in Sealers
                   PROVE  pc'[s] \notin {"launched", "hash", "open", "write"}
      BY DEF SealSettled
    <3>2. label = "done"
      BY <1>2, <3>1 DEF Torn
    <3>3. s = j
      BY DEF SealerIsOne
    <3>4. QED  BY <2>1, <3>2, <3>3
  <2>8. GeneratedUnderSeal'
    <3>1. \A g \in Generators : pc'[g] \notin {"mkdir", "records"}
      BY <2>1, <2>4, Launched DEF SealInv, GeneratedUnderSeal
    <3>2. QED  BY <1>2, <2>3, <3>1 DEF GeneratedUnderSeal
  <2>9. EvaluatedUnderSeal'
    <3>1. \A e \in Evaluators : pc'[e] \notin {"mkdir", "start"} \union InTry
      BY <2>1, <2>4, Launched DEF SealInv, EvaluatedUnderSeal
    <3>2. opened' = {}
      BY <1>2, <2>4, Launched DEF SealInv, EvaluatedUnderSeal, SealTypes
    <3>3. QED  BY <3>1, <3>2 DEF EvaluatedUnderSeal, InTry, Read
  <2>10. VerdictBehind'
    BY <1>2 DEF SealInv, VerdictBehind
  <2>11. QED  BY <2>6, <2>7, <2>8, <2>9, <2>10 DEF SealInv
<1>3. CASE SealCheck(j)
  <2>1. CASE Refuse(j) /\ UNCHANGED Tree
    BY <1>0, <2>1, Leaving DEF Refuse, files, Tree
  <2>2. CASE ~ Refuse(j)
    <3>1. /\ pc[j] = "launched" /\ Goto(j, "hash")
          /\ UNCHANGED <<version, seal, bench, eval, read, opened, witnessed>>
      BY <1>3, <2>2 DEF SealCheck, files, Tree
    <3>2. QED  BY <1>1, <3>1 DEF SealInv, SealTypes
  <2>3. QED  BY <1>3, <2>1, <2>2 DEF SealCheck
<1>4. CASE SealHash(j)
  <2>1. read' = [read EXCEPT ![j] = version] /\ version \in Nat /\ read \in [Jobs -> Nat]
    BY <1>4 DEF SealHash, SealInv, SealTypes
  <2>2. read' \in [Jobs -> Nat] /\ \A k \in Jobs : k # j => read'[k] = read[k]
    BY <2>1
  <2>3. QED  BY <1>1, <1>4, <2>2 DEF SealHash, files, Tree
<1>5. CASE SealOpen(j)
  BY <1>2, <1>5 DEF SealOpen, Tree
<1>6. CASE SealWrite(j)
  BY <1>2, <1>6 DEF SealWrite, Tree
<1>7. QED  BY <1>3, <1>4, <1>5, <1>6 DEF Seal

LEMMA GeneratorStep ==
  ASSUME SealInv, NEW j \in Generators, Generate(j)
  PROVE  SealInv'
<1>0. j \in Jobs /\ j \notin Sealers /\ j \notin Evaluators
  BY Launched
<1>1. CASE GenerateCheck(j)
  <2>1. CASE Refuse(j) /\ UNCHANGED Tree
    BY <1>0, <2>1, Leaving DEF Refuse, files, Tree
  <2>2. CASE ~ Refuse(j)
    <3>1. /\ seal = SealOf(version) /\ read' = [read EXCEPT ![j] = version]
          /\ Goto(j, "mkdir")
          /\ UNCHANGED <<version, seal, bench, eval, opened, witnessed>>
      BY <1>1, <2>2 DEF GenerateCheck, verify_seal, files, Tree
    <3>2. /\ DOMAIN pc' = Jobs /\ pc'[j] = "mkdir"
          /\ \A k \in Jobs : k # j => pc'[k] = pc[k]
      BY <1>0, <3>1, Moved DEF SealInv, SealTypes
    <3>3. /\ read' \in [Jobs -> Nat] /\ read'[j] = version
          /\ \A k \in Jobs : k # j => read'[k] = read[k]
      BY <1>0, <3>1 DEF SealInv, SealTypes
    <3>4. SealTypes'
      BY <3>1, <3>2, <3>3 DEF SealInv, SealTypes
    <3>5. SealSettled'
      BY <1>0, <3>1, <3>2, Launched DEF SealInv, SealSettled
    <3>6. GeneratedUnderSeal'
      BY <3>1, <3>2, <3>3, Launched DEF SealInv, GeneratedUnderSeal, Under
    <3>7. EvaluatedUnderSeal'
      BY <1>0, <3>1, <3>2, <3>3, Launched
         DEF SealInv, SealTypes, EvaluatedUnderSeal, Under, InTry, Read
    <3>8. VerdictBehind'
      BY <3>1 DEF SealInv, VerdictBehind
    <3>9. QED  BY <3>4, <3>5, <3>6, <3>7, <3>8 DEF SealInv
  <2>3. QED  BY <1>1, <2>1, <2>2 DEF GenerateCheck
<1>2. CASE GenerateMkdir(j)
  <2>1. CASE bench.dir
    BY <1>0, <1>2, <2>1, Leaving DEF GenerateMkdir, Refuse, files, Tree
  <2>2. CASE ~ bench.dir
    <3>1. /\ pc[j] = "mkdir" /\ bench' = [bench EXCEPT !.dir = TRUE, !.under = seal]
          /\ Goto(j, "records")
          /\ UNCHANGED <<version, seal, eval, read, opened, witnessed>>
      BY <1>2, <2>2 DEF GenerateMkdir, Tree
    <3>2. /\ DOMAIN pc' = Jobs /\ pc'[j] = "records"
          /\ \A k \in Jobs : k # j => pc'[k] = pc[k]
      BY <1>0, <3>1, Moved DEF SealInv, SealTypes
    <3>3. bench'.dir /\ bench'.under = seal /\ bench'.manifest = bench.manifest
          /\ bench.manifest = NoManifest
      BY <2>2, <3>1 DEF SealInv, SealTypes, GeneratedUnderSeal
    <3>4. Under(j) /\ seal.text = "complete"
      BY <3>1 DEF SealInv, GeneratedUnderSeal, Under, SealOf
    <3>5. SealTypes'
      BY <3>1, <3>2, <3>3 DEF SealInv, SealTypes
    <3>6. SealSettled'
      BY <1>0, <3>1, <3>2, Launched DEF SealInv, SealSettled
    <3>7. GeneratedUnderSeal'
      BY <3>1, <3>2, <3>3, <3>4, Launched DEF SealInv, GeneratedUnderSeal, Under
    <3>8. EvaluatedUnderSeal'
      BY <1>0, <3>1, <3>2, <3>3, Launched
         DEF SealInv, SealTypes, EvaluatedUnderSeal, Under, InTry, Read
    <3>9. VerdictBehind'
      BY <3>1, <3>3 DEF SealInv, VerdictBehind
    <3>10. QED  BY <3>5, <3>6, <3>7, <3>8, <3>9 DEF SealInv
  <2>3. QED  BY <2>1, <2>2
<1>3. CASE GenerateRecords(j)
  <2>1. CASE Goto(j, "failed") /\ UNCHANGED bench
    BY <1>0, <1>3, <2>1, Leaving DEF GenerateRecords, Tree
  <2>2. CASE ~ (Goto(j, "failed") /\ UNCHANGED bench)
    <3>1. /\ pc[j] = "records" /\ Goto(j, "done")
          /\ bench' = [bench EXCEPT !.manifest = [seal |-> bench.under, sources |-> read[j]]]
          /\ UNCHANGED <<version, seal, eval, read, opened, witnessed>>
      BY <1>3, <2>2 DEF GenerateRecords, Tree
    <3>2. /\ DOMAIN pc' = Jobs /\ pc'[j] = "done"
          /\ \A k \in Jobs : k # j => pc'[k] = pc[k]
      BY <1>0, <3>1, Moved DEF SealInv, SealTypes
    <3>3. Under(j) /\ bench.dir /\ bench.under = seal
      BY <3>1 DEF SealInv, GeneratedUnderSeal
    <3>4. /\ bench'.dir /\ bench'.under = seal
          /\ bench'.manifest = [seal |-> seal, sources |-> seal.sources]
      BY <3>1, <3>3 DEF SealInv, SealTypes, Under, SealOf
    <3>5. bench'.manifest # NoManifest
      <4>1. bench'.manifest.seal # NoManifest.seal
        BY <3>3, <3>4 DEF Under, SealOf, NoManifest, NoSeal, Absent
      <4>2. QED  BY <4>1
    <3>6. SealTypes'
      BY <3>1, <3>2, <3>4 DEF SealInv, SealTypes
    <3>7. SealSettled'
      BY <1>0, <3>1, <3>2, Launched DEF SealInv, SealSettled
    <3>8. GeneratedUnderSeal'
      BY <3>1, <3>2, <3>3, <3>4, Launched DEF SealInv, GeneratedUnderSeal, Under
    <3>9. EvaluatedUnderSeal'
      BY <1>0, <3>1, <3>2, <3>5, Launched
         DEF SealInv, SealTypes, EvaluatedUnderSeal, Under, InTry, Read
    <3>10. VerdictBehind'
      BY <3>1, <3>5 DEF SealInv, VerdictBehind
    <3>11. QED  BY <3>6, <3>7, <3>8, <3>9, <3>10 DEF SealInv
  <2>3. QED  BY <2>1, <2>2
<1>4. QED  BY <1>1, <1>2, <1>3 DEF Generate

\* A step of an evaluation past its check: files and verdicts are only added.
LEMMA EvaluationGoesOn ==
  ASSUME SealInv, NEW j \in Evaluators, NEW label, Goto(j, label),
         UNCHANGED <<version, seal, bench, read>>, DOMAIN eval' = DOMAIN eval,
         pc[j] \in {"mkdir", "start"} \union InTry, label # "launched",
         opened' \in {opened, opened \union {j}},
         eval.files \subseteq eval'.files,
         label \in InTry => "attempt_started" \in eval'.files,
         label \in Read => j \in opened' /\ bench.manifest # NoManifest,
         label \in {"audit", "aggregate", "tail"} => "predictions" \in eval'.files,
         witnessed' # {} => witnessed # {} \/ "predictions" \in eval'.files,
         eval'.verdict \ {"INVALID"} # {} =>
           \/ eval.verdict \ {"INVALID"} # {}
           \/ /\ {"attempt_started", "predictions"} \subseteq eval'.files
              /\ bench.manifest # NoManifest
  PROVE  SealInv'
<1>0. j \in Jobs /\ j \notin Sealers /\ j \notin Generators
  BY Launched
<1>1. /\ DOMAIN pc' = Jobs /\ pc'[j] = label
      /\ \A k \in Jobs : k # j => pc'[k] = pc[k]
  BY <1>0, Moved DEF SealInv, SealTypes
<1>2. SealTypes'
  BY <1>1 DEF SealInv, SealTypes
<1>3. SealSettled'
  BY <1>0, <1>1, Launched DEF SealInv, SealSettled
<1>4. GeneratedUnderSeal'
  BY <1>0, <1>1, Launched DEF SealInv, GeneratedUnderSeal, Under
<1>5. EvaluatedUnderSeal'
  <2>1. Under(j)
    BY DEF SealInv, EvaluatedUnderSeal
  <2>2. \A e \in Evaluators : pc'[e] \in {"mkdir", "start"} \union InTry => Under(e)'
    BY <1>1, <2>1, Launched DEF SealInv, EvaluatedUnderSeal, Under
  <2>3. \A e \in Evaluators : pc'[e] \in InTry => "attempt_started" \in eval'.files
    BY <1>1, Launched DEF SealInv, EvaluatedUnderSeal
  <2>4. \A e \in Evaluators : pc'[e] \in Read => e \in opened' /\ bench'.manifest # NoManifest
    BY <1>1, Launched DEF SealInv, EvaluatedUnderSeal
  <2>5. \A e \in Evaluators : pc'[e] \in {"audit", "aggregate", "tail"} =>
          "predictions" \in eval'.files
    BY <1>1, Launched DEF SealInv, EvaluatedUnderSeal
  <2>6. \A e \in opened' : pc'[e] # "launched" /\ Under(e)'
    BY <1>1, <2>1, Launched DEF SealInv, SealTypes, EvaluatedUnderSeal, Under
  <2>7. QED  BY <2>2, <2>3, <2>4, <2>5, <2>6 DEF EvaluatedUnderSeal
<1>6. VerdictBehind'
  BY DEF SealInv, VerdictBehind
<1>7. QED  BY <1>2, <1>3, <1>4, <1>5, <1>6 DEF SealInv

LEMMA EvaluatorStep ==
  ASSUME SealInv, NEW j \in Evaluators, Evaluate(j)
  PROVE  SealInv'
<1>0. j \in Jobs /\ j \notin Sealers /\ j \notin Generators
  BY Launched
<1> USE DEF InTry, Read
<1>a. DOMAIN eval = {"dir", "files", "verdict"}
  BY DEF SealInv, SealTypes
<1>1. CASE EvaluateCheck(j)
  <2>1. CASE Refuse(j) /\ UNCHANGED Tree
    BY <1>0, <2>1, Leaving DEF Refuse, files, Tree
  <2>2. CASE ~ Refuse(j)
    <3>1. /\ pc[j] = "launched" /\ seal = SealOf(version)
          /\ read' = [read EXCEPT ![j] = version] /\ Goto(j, "mkdir")
          /\ UNCHANGED <<version, seal, bench, eval, opened, witnessed>>
      BY <1>1, <2>2 DEF EvaluateCheck, verify_seal, files, Tree
    <3>2. /\ DOMAIN pc' = Jobs /\ pc'[j] = "mkdir"
          /\ \A k \in Jobs : k # j => pc'[k] = pc[k]
      BY <1>0, <3>1, Moved DEF SealInv, SealTypes
    <3>3. /\ read' \in [Jobs -> Nat] /\ read'[j] = version
          /\ \A k \in Jobs : k # j => read'[k] = read[k]
      BY <1>0, <3>1 DEF SealInv, SealTypes
    <3>4. SealTypes'
      BY <3>1, <3>2, <3>3 DEF SealInv, SealTypes
    <3>5. SealSettled'
      BY <1>0, <3>1, <3>2, Launched DEF SealInv, SealSettled
    <3>6. GeneratedUnderSeal'
      BY <1>0, <3>1, <3>2, <3>3, Launched DEF SealInv, GeneratedUnderSeal, Under
    <3>7. EvaluatedUnderSeal'
      BY <1>0, <3>1, <3>2, <3>3, Launched DEF SealInv, SealTypes, EvaluatedUnderSeal, Under
    <3>8. VerdictBehind'
      BY <3>1 DEF SealInv, VerdictBehind
    <3>9. QED  BY <3>4, <3>5, <3>6, <3>7, <3>8 DEF SealInv
  <2>3. QED  BY <1>1, <2>1, <2>2 DEF EvaluateCheck
<1>2. CASE EvaluateMkdir(j)
  <2>1. CASE eval.dir
    BY <1>0, <1>2, <2>1, Leaving DEF EvaluateMkdir, Refuse, files, Tree
  <2>2. CASE ~ eval.dir
    <3>1. eval'.files = eval.files /\ eval'.verdict = eval.verdict /\ DOMAIN eval' = DOMAIN eval
      BY <1>a, <1>2, <2>2 DEF EvaluateMkdir
    <3>2. QED  BY <1>2, <2>2, <3>1, EvaluationGoesOn DEF EvaluateMkdir, Tree
  <2>3. QED  BY <2>1, <2>2
<1>3. CASE AttemptStarted(j)
  <2>1. /\ eval'.files = eval.files \union {"attempt_started"} /\ eval'.verdict = eval.verdict
        /\ DOMAIN eval' = DOMAIN eval
    BY <1>a, <1>3 DEF AttemptStarted, Saves
  <2>2. QED  BY <1>3, <2>1, EvaluationGoesOn DEF AttemptStarted, Tree
<1>4. CASE load_final_items(j)
  <2>1. "attempt_started" \in eval.files
    BY <1>4 DEF load_final_items, SealInv, EvaluatedUnderSeal
  <2>2. QED  BY <1>4, <2>1, EvaluationGoesOn DEF load_final_items, Tree, files
<1>5. CASE evaluate_candidates(j)
  <2>1. "attempt_started" \in eval.files /\ j \in opened /\ bench.manifest # NoManifest
    BY <1>5 DEF evaluate_candidates, SealInv, EvaluatedUnderSeal
  <2>2. QED  BY <1>5, <2>1, EvaluationGoesOn DEF evaluate_candidates, Tree, files
<1>6. CASE SavePredictions(j)
  <2>1. /\ eval'.files = eval.files \union {"predictions"} /\ eval'.verdict = eval.verdict
        /\ DOMAIN eval' = DOMAIN eval
    BY <1>a, <1>6 DEF SavePredictions, Saves
  <2>2. "attempt_started" \in eval.files /\ j \in opened /\ bench.manifest # NoManifest
    BY <1>6 DEF SavePredictions, SealInv, EvaluatedUnderSeal
  <2>3. QED  BY <1>6, <2>1, <2>2, EvaluationGoesOn DEF SavePredictions, Tree
<1>7. CASE audit_witnesses(j)
  <2>1. /\ {"attempt_started", "predictions"} \subseteq eval.files
        /\ j \in opened /\ bench.manifest # NoManifest
    BY <1>7 DEF audit_witnesses, SealInv, EvaluatedUnderSeal
  <2>2. QED  BY <1>7, <2>1, EvaluationGoesOn DEF audit_witnesses, Tree, files
<1>8. CASE aggregate_final(j)
  <2>1. eval'.files = eval.files \union {"summary"} /\ DOMAIN eval' = DOMAIN eval
    BY <1>a, <1>8 DEF aggregate_final
  <2>2. /\ {"attempt_started", "predictions"} \subseteq eval.files
        /\ j \in opened /\ bench.manifest # NoManifest
    BY <1>8 DEF aggregate_final, SealInv, EvaluatedUnderSeal
  <2>3. QED  BY <1>8, <2>1, <2>2, EvaluationGoesOn DEF aggregate_final, Tree
<1>9. CASE SaveRows(j)
  <2>1. /\ eval.files \subseteq eval'.files /\ eval'.verdict = eval.verdict
        /\ DOMAIN eval' = DOMAIN eval
    BY <1>a, <1>9 DEF SaveRows, Saves
  <2>2. QED  BY <1>9, <2>1, EvaluationGoesOn DEF SaveRows, Tree
<1>10. CASE EvaluateFails(j)
  <2>1. /\ eval.files \subseteq eval'.files /\ eval'.verdict = eval.verdict \union {"INVALID"}
        /\ DOMAIN eval' = DOMAIN eval
    BY <1>a, <1>10 DEF EvaluateFails
  <2>2. QED  BY <1>10, <2>1, EvaluationGoesOn DEF EvaluateFails, Tree
<1>11. QED
  BY <1>1, <1>2, <1>3, <1>4, <1>5, <1>6, <1>7, <1>8, <1>9, <1>10 DEF Evaluate

\* Editing the tree moves no launch and no file.
LEMMA EditedUnder ==
  ASSUME SealInv, version' \in Nat,
         UNCHANGED <<pc, seal, bench, eval, read, opened, witnessed>>
  PROVE  SealInv'
  BY DEF SealInv, SealTypes, SealSettled, GeneratedUnderSeal, EvaluatedUnderSeal,
         VerdictBehind, Under

LEMMA SealInvariance == ASSUME SealerIsOne PROVE Spec => []SealInv
<1>1. Init => SealInv
  <2> SUFFICES ASSUME Init PROVE SealInv
    OBVIOUS
  <2> USE DEF Init, NoSeal, NoManifest, Absent
  <2>0. \A j \in Jobs : pc[j] = "launched"
    OBVIOUS
  <2>1. SealTypes
    <3>1. [j \in Jobs |-> 0] \in [Jobs -> Nat]
      OBVIOUS
    <3>2. QED  BY <3>1 DEF SealTypes
  <2>2. SealSettled
    BY DEF SealSettled
  <2>3. GeneratedUnderSeal
    BY <2>0, Launched DEF GeneratedUnderSeal
  <2>4. EvaluatedUnderSeal
    BY <2>0, Launched DEF EvaluatedUnderSeal, InTry, Read
  <2>5. VerdictBehind
    BY DEF VerdictBehind
  <2>6. QED  BY <2>1, <2>2, <2>3, <2>4, <2>5 DEF SealInv
<1>2. SealInv /\ [Next]_vars => SealInv'
  <2> SUFFICES ASSUME SealInv, [Next]_vars PROVE SealInv'
    OBVIOUS
  <2>0. version \in Nat
    BY DEF SealInv, SealTypes
  <2>1. ASSUME NEW j \in Preflights, Preflight(j) PROVE SealInv'
    <3>1. j \in Jobs
      BY DEF Jobs
    <3>2. CASE PreflightStart(j)
      BY <3>1, <3>2, Leaving DEF PreflightStart, Refuse, files, Tree
    <3>3. CASE PreflightMkdir(j)
      BY <3>1, <3>3, Leaving DEF PreflightMkdir, Refuse, files, Tree
    <3>4. CASE PreflightSummary(j)
      BY <3>1, <3>4, Leaving DEF PreflightSummary, Tree
    <3>5. QED  BY <2>1, <3>2, <3>3, <3>4 DEF Preflight
  <2>2. ASSUME NEW j \in Jobs, Kill(j) PROVE SealInv'
    BY <2>2, Leaving DEF Kill, files, Tree
  <2>3. CASE Edit
    BY <2>0, <2>3, EditedUnder DEF Edit, files
  <2>4. CASE BreakLock
    BY <2>0, <2>4, EditedUnder DEF BreakLock, files
  <2>5. CASE UNCHANGED vars
    BY <2>0, <2>5, EditedUnder DEF vars, files
  <2>6. QED
    BY <2>1, <2>2, <2>3, <2>4, <2>5, SealerStep, GeneratorStep, EvaluatorStep DEF Next
<1>3. QED  BY <1>1, <1>2, PTL DEF Spec

\* When the sealer is launched once: whatever is edited, launched twice or
\* killed, a verdict other than INVALID was reached on predictions saved before
\* the witnesses, on a benchmark made under the seal on disk, by the sources it
\* seals.
THEOREM VerdictRestsOnSealHolds ==
  ASSUME SealerIsOne PROVE Spec => []VerdictRestsOnSeal
<1>1. SealInv => VerdictRestsOnSeal
  <2> SUFFICES ASSUME SealInv PROVE VerdictRestsOnSeal
    OBVIOUS
  <2>1. witnessed # {} => "predictions" \in eval.files
    BY DEF SealInv, VerdictBehind
  <2>2. ASSUME NEW c \in eval.verdict \ {"INVALID"}
        PROVE  /\ {"attempt_started", "predictions"} \subseteq eval.files
               /\ bench.manifest.seal = seal
               /\ \A j \in opened : seal = SealOf(read[j])
                                    /\ bench.manifest.sources = read[j]
    <3>1. {"attempt_started", "predictions"} \subseteq eval.files /\ bench.manifest # NoManifest
      BY <2>2 DEF SealInv, VerdictBehind
    <3>2. bench.manifest = [seal |-> seal, sources |-> seal.sources]
      BY <3>1 DEF SealInv, SealTypes
    <3>3. \A j \in opened : seal = SealOf(read[j])
      BY DEF SealInv, EvaluatedUnderSeal, Under
    <3>4. \A j \in opened : seal.sources = read[j]
      BY <3>3 DEF SealOf
    <3>5. QED  BY <3>1, <3>2, <3>3, <3>4
  <2>3. QED  BY <2>1, <2>2 DEF VerdictRestsOnSeal
<1>2. QED  BY <1>1, SealInvariance, PTL

-----------------------------------------------------------------------------
(* The frozen evaluation: what is on disk when a report is.                *)

LEMMA EvaluationInit == Evaluation!Init => Evaluation!IInv
<1> SUFFICES ASSUME Evaluation!Init PROVE Evaluation!IInv
  OBVIOUS
<1> USE DEF Evaluation!Init
<1>1. \A i \in DOMAIN Evaluation!WriteOrder : Evaluation!WriteOrder[i] # "left_by_earlier_attempt"
  BY DEF Evaluation!WriteOrder
<1>2. Evaluation!Types /\ Evaluation!LeftBehind /\ Evaluation!ReportedLast /\ Evaluation!WitnessesLate
  BY DEF Evaluation!Types, Evaluation!LeftBehind, Evaluation!ReportedLast,
         Evaluation!WitnessesLate, Evaluation!InTry
<1>3. Evaluation!WrittenInOrder
  BY <1>1 DEF Evaluation!WrittenInOrder
<1>4. QED  BY <1>2, <1>3 DEF Evaluation!IInv

\* A step that writes none of the results.
LEMMA ResultsLeft ==
  ASSUME Evaluation!IInv, written \subseteq written',
         \A i \in DOMAIN Evaluation!WriteOrder :
           Evaluation!WriteOrder[i] \in written' => Evaluation!WriteOrder[i] \in written,
         "decision" \in written => Evaluation!Audited'
  PROVE  Evaluation!WrittenInOrder'
<1>1. \A i \in DOMAIN Evaluation!WriteOrder : \A k \in 1..(i - 1) :
        k \in DOMAIN Evaluation!WriteOrder
  BY DEF Evaluation!WriteOrder
<1>2. "decision" = Evaluation!WriteOrder[7] /\ 7 \in DOMAIN Evaluation!WriteOrder
  BY DEF Evaluation!WriteOrder
<1>3. \A i \in DOMAIN Evaluation!WriteOrder : Evaluation!WriteOrder[i] \in written' =>
        \A k \in 1..(i - 1) : Evaluation!WriteOrder[k] \in written'
  BY <1>1 DEF Evaluation!IInv, Evaluation!WrittenInOrder
<1>4. "decision" \in written' => Evaluation!Audited'
  BY <1>2 DEF Evaluation!IInv
<1>5. QED  BY <1>3, <1>4 DEF Evaluation!WrittenInOrder

LEMMA WriteOrderNames ==
  /\ DOMAIN Evaluation!WriteOrder = 1..7
  /\ Len(Evaluation!WriteOrder) = 7
  /\ Evaluation!WriteOrder[7] = "decision" /\ Evaluation!WriteOrder[2] = "rows"
  /\ \A i, k \in 1..7 : Evaluation!WriteOrder[i] = Evaluation!WriteOrder[k] => i = k
  /\ \A i \in 1..7 : Evaluation!WriteOrder[i] \notin
       {"attempt_started", "predictions_before_witness", "results", "attempt_failure"}
  BY DEF Evaluation!WriteOrder

LEMMA EvaluationReads ==
  ASSUME Evaluation!IInv,
         \/ Evaluation!Main \/ Evaluation!load_final_items \/ Evaluation!evaluate_items
         \/ Evaluation!audit_witnesses_after_prediction \/ Evaluation!Decide
         \/ Evaluation!Kill
  PROVE  Evaluation!IInv'
<1> USE DEF Evaluation!IInv, Evaluation!Data, Evaluation!InTry
<1>1. written' = written /\ report' = report
  BY DEF Evaluation!Main, Evaluation!load_final_items, Evaluation!evaluate_items,
         Evaluation!audit_witnesses_after_prediction, Evaluation!Decide, Evaluation!Kill
<1>2. \/ witnesses' = witnesses
      \/ stage = "witness" /\ witnesses' = (Frozen \union Stress) \ Negative
  BY DEF Evaluation!Main, Evaluation!load_final_items, Evaluation!evaluate_items,
         Evaluation!audit_witnesses_after_prediction, Evaluation!Decide, Evaluation!Kill
<1>3. stage # "done" /\ (decision' = decision \/ stage = "decide")
  BY DEF Evaluation!Main, Evaluation!load_final_items, Evaluation!evaluate_items,
         Evaluation!audit_witnesses_after_prediction, Evaluation!Decide, Evaluation!Kill
<1>4. \/ stage = "main" /\ stage' \in {"sealed", "refused"}
      \/ stage = "load" /\ stage' = "evaluate"
      \/ stage = "evaluate" /\ stage' = "evaluate"
      \/ stage = "witness" /\ stage' = "decide" /\ Evaluation!Audited'
      \/ stage = "decide" /\ stage' = "write"
      \/ stage \in Evaluation!InTry /\ stage' = "killed"
  BY DEF Evaluation!Main, Evaluation!load_final_items, Evaluation!evaluate_items,
         Evaluation!audit_witnesses_after_prediction, Evaluation!Decide, Evaluation!Kill,
         Evaluation!Audited
<1>5. Evaluation!Audited => Evaluation!Audited'
  BY <1>2 DEF Evaluation!Audited
<1>6. Evaluation!Types'
  BY <1>4 DEF Evaluation!Types
<1>7. Evaluation!LeftBehind'
  BY <1>1, <1>4, <1>5 DEF Evaluation!LeftBehind
<1>8. Evaluation!WrittenInOrder'
  BY <1>1, <1>5, ResultsLeft DEF Evaluation!WrittenInOrder
<1>9. Evaluation!ReportedLast'
  BY <1>1, <1>3 DEF Evaluation!ReportedLast
<1>10. Evaluation!WitnessesLate'
  BY <1>1, <1>2, <1>5
     DEF Evaluation!WitnessesLate, Evaluation!LeftBehind, Evaluation!Audited
<1>11. QED  BY <1>6, <1>7, <1>8, <1>9, <1>10

\* The files that are no result: those of an attempt, and the report.
LEMMA EvaluationSaves ==
  ASSUME Evaluation!IInv,
         \/ Evaluation!Sealed \/ Evaluation!SavePredictions \/ Evaluation!WriteReport
         \/ Evaluation!Fails
  PROVE  Evaluation!IInv'
<1> USE DEF Evaluation!IInv, Evaluation!Data, Evaluation!InTry
<1>1. witnesses' = witnesses /\ decision' = decision /\ stage # "done"
  BY DEF Evaluation!Sealed, Evaluation!SavePredictions, Evaluation!WriteReport, Evaluation!Fails
<1>2. \/ written' = written
      \/ written = {} /\ written' = {"attempt_started"}
      \/ written' = written \union {"predictions_before_witness"}
      \/ written' = written \union {"results"}
      \/ written' = written \union {"attempt_failure"}
  BY DEF Evaluation!Sealed, Evaluation!SavePredictions, Evaluation!WriteReport, Evaluation!Fails
<1>3. \/ stage = "sealed" /\ stage' = "refused"
      \/ stage = "sealed" /\ stage' = "load" /\ "attempt_started" \in written'
      \/ stage = "evaluate" /\ stage' = "witness" /\ "predictions_before_witness" \in written'
      \/ stage = "report" /\ stage' = "done" /\ report' = decision
      \/ stage \in Evaluation!InTry /\ stage' = "failed"
  BY DEF Evaluation!Sealed, Evaluation!SavePredictions, Evaluation!WriteReport, Evaluation!Fails
<1>4. stage' # "done" => report' = report
  BY DEF Evaluation!Sealed, Evaluation!SavePredictions, Evaluation!WriteReport, Evaluation!Fails
<1>5. Evaluation!Audited => Evaluation!Audited'
  BY <1>1 DEF Evaluation!Audited
<1>6. Evaluation!Types'
  BY <1>3 DEF Evaluation!Types
<1>7. Evaluation!LeftBehind'
  BY <1>2, <1>3, <1>5 DEF Evaluation!LeftBehind
<1>8. Evaluation!WrittenInOrder'
  BY <1>2, <1>5, ResultsLeft, WriteOrderNames DEF Evaluation!WrittenInOrder
<1>9. Evaluation!ReportedLast'
  BY <1>1, <1>3, <1>4 DEF Evaluation!ReportedLast
<1>10. Evaluation!WitnessesLate'
  BY <1>1, <1>2, <1>5 DEF Evaluation!WitnessesLate
<1>11. QED  BY <1>6, <1>7, <1>8, <1>9, <1>10

LEMMA EvaluationWrites ==
  ASSUME Evaluation!IInv, Evaluation!WriteResult
  PROVE  Evaluation!IInv'
<1> USE DEF Evaluation!IInv, Evaluation!Data, Evaluation!InTry
<1>1. stage = "write" /\ witnesses' = witnesses /\ decision' = decision /\ report' = report
  BY DEF Evaluation!WriteResult
<1>2. PICK i \in 1..7 :
        /\ \A k \in 1..(i - 1) : Evaluation!WriteOrder[k] \in written
        /\ written' = written \union {Evaluation!WriteOrder[i]}
        /\ stage' = IF i = 7 THEN "report" ELSE "write"
  BY WriteOrderNames DEF Evaluation!WriteResult
<1>3. Evaluation!Audited /\ Evaluation!Audited'
  BY <1>1 DEF Evaluation!LeftBehind, Evaluation!Audited
<1>4. Evaluation!Types'
  BY <1>2 DEF Evaluation!Types
<1>5. Evaluation!LeftBehind'
  BY <1>1, <1>2, <1>3, WriteOrderNames DEF Evaluation!LeftBehind
<1>6. Evaluation!WrittenInOrder'
  <2>1. ASSUME NEW k \in 1..7, Evaluation!WriteOrder[k] \in written'
        PROVE  \A l \in 1..(k - 1) : Evaluation!WriteOrder[l] \in written'
    <3>1. CASE k = i
      BY <1>2, <3>1
    <3>2. CASE k # i
      BY <1>2, <2>1, <3>2, WriteOrderNames DEF Evaluation!WrittenInOrder
    <3>3. QED  BY <3>1, <3>2
  <2>2. QED  BY <1>3, <2>1, WriteOrderNames DEF Evaluation!WrittenInOrder
<1>7. Evaluation!ReportedLast'
  BY <1>1 DEF Evaluation!ReportedLast
<1>8. Evaluation!WitnessesLate'
  BY <1>1, <1>2, <1>3 DEF Evaluation!WitnessesLate
<1>9. QED  BY <1>4, <1>5, <1>6, <1>7, <1>8

LEMMA EvaluationInvariant == FinalSpec => [](part = "frozen_evaluation" => Evaluation!IInv)
<1>1. FinalInit => (part = "frozen_evaluation" => Evaluation!IInv)
  BY EvaluationInit DEF FinalInit
<1>2. (part = "frozen_evaluation" => Evaluation!IInv) /\ [FinalNext]_everything
        => (part = "frozen_evaluation" => Evaluation!IInv)'
  <2> SUFFICES ASSUME part = "frozen_evaluation", part' = "frozen_evaluation",
                      Evaluation!IInv, [FinalNext]_everything
               PROVE  Evaluation!IInv'
    BY DEF FinalNext, everything
  <2>1. CASE Evaluation!Next
    BY <2>1, EvaluationReads, EvaluationSaves, EvaluationWrites DEF Evaluation!Next
  <2>2. CASE UNCHANGED everything
    <3>1. UNCHANGED <<stage, written, witnesses, report, decision>>
      BY <2>2 DEF everything, evaluationOwn
    <3>2. QED
      BY <3>1 DEF Evaluation!IInv, Evaluation!Types, Evaluation!LeftBehind, Evaluation!Audited,
                  Evaluation!WrittenInOrder, Evaluation!ReportedLast, Evaluation!WitnessesLate
  <2>3. QED  BY <2>1, <2>2 DEF FinalNext
<1>3. QED  BY <1>1, <1>2, PTL DEF FinalSpec

\* Killed, failed or done, a report is of the decision on disk, which rests on
\* predictions saved before every witness of the audit was opened.
THEOREM ReportRestsOnDiskHolds == FinalSpec => []ReportRestsOnDisk
<1>1. Evaluation!IInv => Evaluation!ReportRestsOnDisk
  <2> SUFFICES ASSUME Evaluation!IInv PROVE Evaluation!ReportRestsOnDisk
    OBVIOUS
  <2> USE DEF Evaluation!IInv
  <2>1. report # "none" => report = decision
          /\ {"attempt_started", "predictions_before_witness", "decision"} \subseteq written
    BY DEF Evaluation!ReportedLast, Evaluation!LeftBehind
  <2>2. "decision" \in written => "rows" \in written
    <3>1. 2 \in 1..(7 - 1) /\ 7 \in 1..7
      OBVIOUS
    <3>2. QED  BY <3>1, WriteOrderNames DEF Evaluation!WrittenInOrder
  <2>3. "decision" \in written => witnesses # {} \/ Negative = Stress
    BY ItemsLoaded
       DEF Evaluation!WrittenInOrder, Evaluation!Audited, Evaluation!ItemsLoaded
  <2>4. witnesses # {} => "predictions_before_witness" \in written
    BY DEF Evaluation!WitnessesLate
  <2>5. QED  BY <2>1, <2>2, <2>3, <2>4 DEF Evaluation!ReportRestsOnDisk
<1>2. QED  BY <1>1, EvaluationInvariant, PTL DEF ReportRestsOnDisk

-----------------------------------------------------------------------------
(* The pilot: a summary rests on the one seal.                             *)

LEMMA PilotInit == Pilot!Init => Pilot!IInv
<1> SUFFICES ASSUME Pilot!Init PROVE Pilot!IInv
  OBVIOUS
<1> USE DEF Pilot!Init
<1>1. Pilot!Types
  BY DEF Pilot!Types, Pilot!NoShard
<1>2. Pilot!OneSeal /\ Pilot!JobsOfTheSeal
  BY DEF Pilot!OneSeal, Pilot!JobsOfTheSeal, Pilot!Validated, Pilot!Computed
<1>3. Pilot!ShardsOfTheSeal
  BY DEF Pilot!ShardsOfTheSeal, Pilot!NoShard
<1>4. Pilot!SummaryReadWriters /\ Pilot!SummaryRestsOnSeal
  BY DEF Pilot!SummaryReadWriters, Pilot!SummaryRestsOnSeal
<1>5. QED  BY <1>1, <1>2, <1>3, <1>4 DEF Pilot!IInv

\* A launch that moves without a shard.
LEMMA PilotMoves ==
  ASSUME Pilot!IInv, NEW j \in Launches,
         UNCHANGED <<source, targets, sealer, pilotSeal, shard, summary>>,
         DOMAIN job' = Launches, \A k \in Launches \ {j} : job'[k] = job[k],
         DOMAIN job'[j] = {"pc", "source", "targets"},
         job[j].pc \notin {"done", "refused", "killed"},
         job'[j].pc \in Pilot!Validated \union {"refused", "killed"},
         job'[j].pc \in Pilot!Validated =>
           Pilot!OfTheSeal(j)' /\ job'[j].pc \notin Pilot!Wrote \ {"done"},
         job'[j].pc \in Pilot!Computed => Pilot!SinceTheSeal(j)',
         job[j].pc \in Pilot!Wrote =>
           /\ job'[j].source = job[j].source /\ job'[j].targets = job[j].targets
           /\ job'[j].pc \in Pilot!Wrote
  PROVE  Pilot!IInv'
<1> USE DEF Pilot!IInv
<1>1. Pilot!Types'
  BY DEF Pilot!Types
<1>2. Pilot!OneSeal'
  BY DEF Pilot!OneSeal
<1>3. Pilot!JobsOfTheSeal'
  BY DEF Pilot!JobsOfTheSeal, Pilot!OfTheSeal, Pilot!SinceTheSeal
<1>4. Pilot!ShardsOfTheSeal'
  BY DEF Pilot!ShardsOfTheSeal, Pilot!OfTheSeal, Pilot!SinceTheSeal
<1>5. Pilot!SummaryReadWriters'
  BY DEF Pilot!SummaryReadWriters
<1>6. Pilot!SummaryRestsOnSeal'
  BY DEF Pilot!SummaryRestsOnSeal, Pilot!SummaryReadWriters
<1>7. QED  BY <1>1, <1>2, <1>3, <1>4, <1>5, <1>6

LEMMA PilotGo ==
  ASSUME Pilot!Types, NEW j \in Launches, NEW from, NEW to, Pilot!Go(j, from, to)
  PROVE  /\ job[j].pc = from /\ DOMAIN job' = Launches
         /\ job'[j].pc = to /\ job'[j].source = job[j].source
         /\ job'[j].targets = job[j].targets /\ DOMAIN job'[j] = {"pc", "source", "targets"}
         /\ \A k \in Launches \ {j} : job'[k] = job[k]
  BY DEF Pilot!Types, Pilot!Go

\* The steps of a launch that touch no shard.
LEMMA PilotLaunchStep ==
  ASSUME Pilot!IInv, NEW j \in Launches,
         \/ Pilot!EvaluateValidate(j) \/ Pilot!MarkerCheck(j) \/ Pilot!MarkerWrite(j)
         \/ Pilot!RunEvaluation(j) \/ Pilot!MarkComplete(j) \/ Pilot!Killed(j)
  PROVE  Pilot!IInv'
<1> USE DEF Pilot!disk, Pilot!Validated, Pilot!Computed, Pilot!Wrote
<1>a. Pilot!Types /\ Pilot!JobsOfTheSeal /\ Pilot!OneSeal
  BY DEF Pilot!IInv
<1>b. DOMAIN job = Launches /\ DOMAIN job[j] = {"pc", "source", "targets"}
  BY <1>a DEF Pilot!Types
<1>1. CASE Pilot!EvaluateValidate(j)
  <2>1. /\ job[j].pc = "new" /\ job'[j].pc = "validated" /\ job'[j].source = source
        /\ DOMAIN job' = Launches /\ DOMAIN job'[j] = {"pc", "source", "targets"}
        /\ \A k \in Launches \ {j} : job'[k] = job[k]
        /\ UNCHANGED <<source, targets, sealer, pilotSeal, shard, summary>>
    BY <1>b, <1>1 DEF Pilot!EvaluateValidate
  <2>2. pilotSeal.n > 0 /\ pilotSeal.source = source
    BY <1>1 DEF Pilot!EvaluateValidate, Pilot!validate_seal
  <2>3. pilotSeal # Pilot!NoSeal
    BY <2>2 DEF Pilot!NoSeal
  <2>4. Pilot!OfTheSeal(j)'
    BY <2>1, <2>2, <2>3 DEF Pilot!OfTheSeal
  <2>5. QED  BY <2>1, <2>4, PilotMoves
<1>2. CASE Pilot!MarkerCheck(j)
  <2>1. PICK to \in {"unmarked", "refused"} : Pilot!Go(j, "validated", to)
    BY <1>2 DEF Pilot!MarkerCheck
  <2>2. UNCHANGED <<source, targets, sealer, pilotSeal, shard, summary>>
    BY <1>2 DEF Pilot!MarkerCheck
  <2>3. job[j].pc = "validated" /\ Pilot!OfTheSeal(j)
    BY <1>a, <2>1, PilotGo DEF Pilot!JobsOfTheSeal
  <2>4. Pilot!OfTheSeal(j)'
    BY <1>a, <2>1, <2>2, <2>3, PilotGo DEF Pilot!OfTheSeal
  <2>5. QED  BY <1>a, <2>1, <2>2, <2>4, PilotGo, PilotMoves
<1>3. CASE Pilot!MarkerWrite(j)
  <2>1. /\ Pilot!Go(j, "unmarked", "marked")
        /\ UNCHANGED <<source, targets, sealer, pilotSeal, shard, summary>>
    BY <1>3 DEF Pilot!MarkerWrite
  <2>2. Pilot!OfTheSeal(j)
    BY <1>a, <2>1, PilotGo DEF Pilot!JobsOfTheSeal
  <2>3. Pilot!OfTheSeal(j)'
    BY <1>a, <2>1, <2>2, PilotGo DEF Pilot!OfTheSeal
  <2>4. QED  BY <1>a, <2>1, <2>3, PilotGo, PilotMoves
<1>4. CASE Pilot!RunEvaluation(j)
  <2>1. /\ job[j].pc = "marked" /\ job'[j].pc = "computed" /\ job'[j].targets = targets
        /\ job'[j].source = job[j].source
        /\ DOMAIN job' = Launches /\ DOMAIN job'[j] = {"pc", "source", "targets"}
        /\ \A k \in Launches \ {j} : job'[k] = job[k]
        /\ UNCHANGED <<source, targets, sealer, pilotSeal, shard, summary>>
    BY <1>b, <1>4 DEF Pilot!RunEvaluation
  <2>2. Pilot!OfTheSeal(j)
    BY <1>a, <2>1 DEF Pilot!JobsOfTheSeal
  <2>3. Pilot!OfTheSeal(j)'
    BY <2>1, <2>2 DEF Pilot!OfTheSeal
  <2>4. targets \in Nat /\ pilotSeal.targets <= targets
    BY <1>a, <2>2 DEF Pilot!Types, Pilot!OneSeal, Pilot!OfTheSeal
  <2>5. Pilot!SinceTheSeal(j)'
    BY <2>1, <2>4 DEF Pilot!SinceTheSeal
  <2>6. QED  BY <2>1, <2>3, <2>5, PilotMoves
<1>5. CASE Pilot!MarkComplete(j)
  <2>1. /\ Pilot!Go(j, "written", "done")
        /\ UNCHANGED <<source, targets, sealer, pilotSeal, shard, summary>>
    BY <1>5 DEF Pilot!MarkComplete
  <2>2. Pilot!OfTheSeal(j) /\ Pilot!SinceTheSeal(j)
    BY <1>a, <2>1, PilotGo DEF Pilot!JobsOfTheSeal
  <2>3. Pilot!OfTheSeal(j)' /\ Pilot!SinceTheSeal(j)'
    BY <1>a, <2>1, <2>2, PilotGo DEF Pilot!OfTheSeal, Pilot!SinceTheSeal
  <2>4. QED  BY <1>a, <2>1, <2>3, PilotGo, PilotMoves
<1>6. CASE Pilot!Killed(j)
  <2>1. /\ job[j].pc \notin {"done", "refused", "killed"} /\ job'[j].pc = "killed"
        /\ job'[j].targets = job[j].targets /\ job'[j].source = job[j].source
        /\ DOMAIN job' = Launches /\ DOMAIN job'[j] = {"pc", "source", "targets"}
        /\ \A k \in Launches \ {j} : job'[k] = job[k]
        /\ UNCHANGED <<source, targets, sealer, pilotSeal, shard, summary>>
    BY <1>b, <1>6 DEF Pilot!Killed
  <2>2. QED  BY <2>1, PilotMoves
<1>7. QED  BY <1>1, <1>2, <1>3, <1>4, <1>5, <1>6

LEMMA PilotShardStep ==
  ASSUME Pilot!IInv, NEW j \in Launches, Pilot!OpenShard(j) \/ Pilot!WriteShard(j)
  PROVE  Pilot!IInv'
<1> USE DEF Pilot!disk, Pilot!Validated, Pilot!Computed, Pilot!Wrote, Pilot!IInv
<1>1. UNCHANGED <<source, targets, sealer, pilotSeal, summary>>
  BY DEF Pilot!OpenShard, Pilot!WriteShard
<1>2. /\ job[j].pc \in {"computed", "writing"} /\ job'[j].pc \in {"writing", "written"}
      /\ DOMAIN job' = Launches /\ job'[j].source = job[j].source
      /\ job'[j].targets = job[j].targets /\ DOMAIN job'[j] = {"pc", "source", "targets"}
      /\ \A k \in Launches \ {j} : job'[k] = job[k]
  <2>1. Pilot!Go(j, "computed", "writing") \/ Pilot!Go(j, "writing", "written")
    BY DEF Pilot!OpenShard, Pilot!WriteShard
  <2>2. QED  BY <2>1, PilotGo
<1>3. Pilot!OfTheSeal(j) /\ Pilot!SinceTheSeal(j)
  BY <1>2 DEF Pilot!JobsOfTheSeal
<1>4. /\ DOMAIN shard' = PilotCells /\ \A c \in PilotCells : DOMAIN shard'[c] = {"rows", "by"}
      /\ \A c \in PilotCells : shard'[c].by \subseteq shard[c].by \union {j}
  BY DEF Pilot!OpenShard, Pilot!WriteShard, Pilot!Types
<1>5. Pilot!Types' /\ Pilot!OneSeal'
  BY <1>1, <1>2, <1>4 DEF Pilot!Types, Pilot!OneSeal
<1>6. Pilot!JobsOfTheSeal'
  <2> SUFFICES ASSUME NEW k \in Launches
               PROVE  /\ job'[k].pc \in Pilot!Validated => Pilot!OfTheSeal(k)'
                      /\ job'[k].pc \in Pilot!Computed => Pilot!SinceTheSeal(k)'
    BY DEF Pilot!JobsOfTheSeal
  <2>1. CASE k = j
    BY <1>1, <1>2, <1>3, <2>1 DEF Pilot!OfTheSeal, Pilot!SinceTheSeal
  <2>2. CASE k # j
    BY <1>1, <1>2, <2>2 DEF Pilot!JobsOfTheSeal, Pilot!OfTheSeal, Pilot!SinceTheSeal
  <2>3. QED  BY <2>1, <2>2
<1>7. Pilot!ShardsOfTheSeal'
  <2> SUFFICES ASSUME NEW c \in PilotCells, NEW k \in shard'[c].by
               PROVE  k \in Launches /\ job'[k].pc \in Pilot!Wrote
                      /\ Pilot!OfTheSeal(k)' /\ Pilot!SinceTheSeal(k)'
    BY DEF Pilot!ShardsOfTheSeal
  <2>1. CASE k = j
    BY <1>1, <1>2, <1>3, <2>1 DEF Pilot!OfTheSeal, Pilot!SinceTheSeal
  <2>2. CASE k # j
    BY <1>1, <1>2, <1>4, <2>2
       DEF Pilot!ShardsOfTheSeal, Pilot!OfTheSeal, Pilot!SinceTheSeal
  <2>3. QED  BY <2>1, <2>2
<1>8. Pilot!SummaryReadWriters' /\ Pilot!SummaryRestsOnSeal'
  BY <1>1, <1>2 DEF Pilot!SummaryReadWriters, Pilot!SummaryRestsOnSeal
<1>9. QED  BY <1>5, <1>6, <1>7, <1>8

\* The commands, once a seal can be written only once.
LEMMA PilotCommandStep ==
  ASSUME Pilot!IInv, MaxSeals = 1,
         \/ Pilot!Edit \/ Pilot!export_locked_preprocessor \/ Pilot!generate_a4_data
         \/ Pilot!develop \/ Pilot!SealCheck \/ Pilot!SealWrite
  PROVE  Pilot!IInv'
<1> USE DEF Pilot!IInv, Pilot!evaluation
<1>1. UNCHANGED <<job, shard, summary>>
  BY DEF Pilot!Edit, Pilot!export_locked_preprocessor, Pilot!generate_a4_data,
         Pilot!develop, Pilot!SealCheck, Pilot!SealWrite
<1>a. source' \in Versions
  BY DEF Pilot!Edit, Pilot!export_locked_preprocessor, Pilot!generate_a4_data,
         Pilot!develop, Pilot!SealCheck, Pilot!SealWrite, Pilot!Types
<1>2. Pilot!SummaryReadWriters' /\ Pilot!SummaryRestsOnSeal'
  BY <1>1 DEF Pilot!SummaryReadWriters, Pilot!SummaryRestsOnSeal
<1>3. CASE Pilot!SealWrite
  <2>1. /\ pilotSeal = Pilot!NoSeal /\ targets' = targets /\ sealer' = "idle"
        /\ pilotSeal' = [n |-> pilotSeal.n + 1, source |-> source, targets |-> targets]
    BY <1>3 DEF Pilot!SealWrite, Pilot!OneSeal
  <2>2. pilotSeal'.n = 1 /\ pilotSeal'.targets = targets
    BY <2>1 DEF Pilot!NoSeal
  <2>3. Pilot!ShardsOfTheSeal' /\ Pilot!JobsOfTheSeal'
    <3>1. \A k : ~ Pilot!OfTheSeal(k)
      BY <2>1 DEF Pilot!OfTheSeal
    <3>2. \A k \in Launches : job[k].pc \notin Pilot!Validated
      BY <3>1 DEF Pilot!JobsOfTheSeal
    <3>3. \A c \in PilotCells : shard[c].by = {}
      BY <3>1 DEF Pilot!ShardsOfTheSeal
    <3>4. QED
      BY <1>1, <3>2, <3>3
         DEF Pilot!JobsOfTheSeal, Pilot!ShardsOfTheSeal, Pilot!Validated, Pilot!Computed
  <2>4. Pilot!OneSeal'
    BY <2>1, <2>2 DEF Pilot!OneSeal, Pilot!Types
  <2>5. Pilot!Types'
    <3>1. source \in Versions
      BY DEF Pilot!Types
    <3>2. pilotSeal' \in [n : {1}, source : Versions, targets : Nat]
      BY <2>1, <3>1 DEF Pilot!Types, Pilot!NoSeal
    <3>3. QED  BY <1>1, <1>a, <2>1, <3>2 DEF Pilot!Types
  <2>6. QED  BY <1>2, <2>3, <2>4, <2>5
<1>4. CASE Pilot!SealCheck
  <2>1. pilotSeal' = pilotSeal /\ targets' = targets /\ pilotSeal.n < 1
    BY <1>4 DEF Pilot!SealCheck
  <2>2. pilotSeal = Pilot!NoSeal
    BY <2>1 DEF Pilot!Types
  <2>3. QED
    BY <1>1, <1>a, <1>2, <2>1, <2>2
       DEF Pilot!Types, Pilot!OneSeal, Pilot!JobsOfTheSeal, Pilot!ShardsOfTheSeal,
           Pilot!OfTheSeal, Pilot!SinceTheSeal
<1>5. CASE ~ Pilot!SealWrite /\ ~ Pilot!SealCheck
  <2>1. /\ pilotSeal' = pilotSeal /\ sealer' = sealer
        /\ targets' = targets \/ targets' = targets + 1
    BY <1>5 DEF Pilot!Edit, Pilot!export_locked_preprocessor, Pilot!generate_a4_data,
                Pilot!develop
  <2>2. targets \in Nat /\ targets' \in Nat /\ targets <= targets'
    BY <2>1 DEF Pilot!Types
  <2>3. Pilot!Types'
    BY <1>1, <1>a, <2>1, <2>2 DEF Pilot!Types
  <2>4. Pilot!OneSeal'
    BY <2>1, <2>2 DEF Pilot!OneSeal, Pilot!Types
  <2>5. Pilot!JobsOfTheSeal'
    BY <1>1, <2>1, <2>2
       DEF Pilot!JobsOfTheSeal, Pilot!Validated, Pilot!Computed, Pilot!Types,
           Pilot!OfTheSeal, Pilot!SinceTheSeal
  <2>6. Pilot!ShardsOfTheSeal'
    BY <1>1, <2>1, <2>2
       DEF Pilot!ShardsOfTheSeal, Pilot!Types, Pilot!OfTheSeal, Pilot!SinceTheSeal
  <2>7. QED  BY <1>2, <2>3, <2>4, <2>5, <2>6
<1>6. QED  BY <1>3, <1>4, <1>5

\* validate_seal lets aggregate through only while the targets are the sealed
\* ones, and targets are never written back.
LEMMA PilotAggregateStep ==
  ASSUME Pilot!IInv, Pilot!aggregate
  PROVE  Pilot!IInv'
<1> USE DEF Pilot!IInv
<1>1. /\ UNCHANGED <<source, targets, sealer, pilotSeal, shard, job>>
      /\ pilotSeal.targets = targets /\ pilotSeal.n > 0
  BY DEF Pilot!aggregate, Pilot!disk, Pilot!validate_seal
<1>2. /\ Pilot!Types' /\ Pilot!OneSeal' /\ Pilot!JobsOfTheSeal' /\ Pilot!ShardsOfTheSeal'
  BY <1>1 DEF Pilot!Types, Pilot!OneSeal, Pilot!JobsOfTheSeal, Pilot!ShardsOfTheSeal,
              Pilot!OfTheSeal, Pilot!SinceTheSeal
<1>3. PICK class \in {"CONTINUE", "STOP"} :
        /\ class = "CONTINUE" => Pilot!integrity
        /\ summary' = [class |-> class, seal |-> pilotSeal, read |-> shard]
  BY DEF Pilot!aggregate
<1>4. Pilot!SummaryReadWriters'
  BY <1>1, <1>3 DEF Pilot!SummaryReadWriters, Pilot!ShardsOfTheSeal
<1>5. Pilot!SummaryRestsOnSeal'
  <2>1. \A c \in PilotCells : \A k \in shard[c].by :
          job[k].source = pilotSeal.source /\ job[k].targets = pilotSeal.targets
    <3> SUFFICES ASSUME NEW c \in PilotCells, NEW k \in shard[c].by
                 PROVE  job[k].source = pilotSeal.source /\ job[k].targets = pilotSeal.targets
      OBVIOUS
    <3>1. Pilot!OfTheSeal(k) /\ Pilot!SinceTheSeal(k)
      BY DEF Pilot!ShardsOfTheSeal
    <3>2. QED  BY <1>1, <3>1 DEF Pilot!OfTheSeal, Pilot!SinceTheSeal, Pilot!Types
  <2>2. summary'.class = class /\ summary'.seal = pilotSeal /\ summary'.read = shard
    BY <1>3
  <2>3. QED  BY <1>1, <1>3, <2>1, <2>2 DEF Pilot!SummaryRestsOnSeal, Pilot!integrity
<1>6. QED  BY <1>2, <1>4, <1>5

LEMMA PilotInvariant ==
  ASSUME MaxSeals = 1 PROVE FinalSpec => [](part = "warm_start_pilot" => Pilot!IInv)
<1>1. FinalInit => (part = "warm_start_pilot" => Pilot!IInv)
  BY PilotInit DEF FinalInit
<1>2. (part = "warm_start_pilot" => Pilot!IInv) /\ [FinalNext]_everything
        => (part = "warm_start_pilot" => Pilot!IInv)'
  <2> SUFFICES ASSUME part = "warm_start_pilot", part' = "warm_start_pilot",
                      Pilot!IInv, [FinalNext]_everything
               PROVE  Pilot!IInv'
    BY DEF FinalNext, everything
  <2>1. CASE Pilot!Next
    BY <2>1, PilotLaunchStep, PilotShardStep, PilotCommandStep, PilotAggregateStep
       DEF Pilot!Next
  <2>2. CASE UNCHANGED everything
    <3>1. UNCHANGED <<source, targets, sealer, pilotSeal, shard, job, summary>>
      BY <2>2 DEF everything, pilotOwn
    <3>2. QED
      BY <3>1 DEF Pilot!IInv, Pilot!Types, Pilot!OneSeal, Pilot!JobsOfTheSeal,
                  Pilot!ShardsOfTheSeal, Pilot!OfTheSeal, Pilot!SinceTheSeal,
                  Pilot!SummaryReadWriters, Pilot!SummaryRestsOnSeal
  <2>3. QED  BY <2>1, <2>2 DEF FinalNext
<1>3. QED  BY <1>1, <1>2, PTL DEF FinalSpec

\* When the pilot is sealed once: whatever is edited and restored, developed
\* again, launched twice or killed, every row that the summary read was computed
\* by the sealed sources with the sealed targets, and to continue took them all.
THEOREM SummaryRestsOnSealHolds ==
  ASSUME MaxSeals = 1 PROVE FinalSpec => []SummaryRestsOnSeal
<1>1. Pilot!IInv => Pilot!SummaryRestsOnSeal
  BY DEF Pilot!IInv
<1>2. QED  BY <1>1, PilotInvariant, PTL DEF SummaryRestsOnSeal
=============================================================================
