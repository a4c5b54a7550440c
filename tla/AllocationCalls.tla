--------------------------- MODULE AllocationCalls ---------------------------
(***************************************************************************)
(* The calls of the allocation package that decide alone: the resource     *)
(* search, one repair of the ALNS, the pointer decoders, the anytime       *)
(* search, the repair of IdenticalRepair and the assignment solvers.  The  *)
(* calls share no state, so a behaviour is of one of them, named by part:  *)
(* the other components' variables are then unused.  Variables of several  *)
(* components that have the same name are one here.                        *)
(***************************************************************************)
EXTENDS ResourceStart, SequencesExt

CONSTANTS
  Parts,     \* the components explored
  RepairUnits,  \* atomic units of a repair
  RepairStarts, RepairConfigs,                 \* RepairLoop
  PointerInstances, Modes, TeacherPlans,       \* PointerRollout
  States, InitialState, NoState, Values, MaxTime, MaxAdvance,
  AnytimeConfigs,                              \* AnytimeSearch
  None, CostTables, Infinite, Objectives, TargetScore, Amounts,
  RepairIterations, Budgets,                   \* IdenticalRepair
  UnitCount, SolverInstances, NoPlan, Forbidden, SolverIterations,
  DestroyCount, BeamWidth, SearchNodes         \* AssignmentSolvers

VARIABLES
  part,  \* which of the components this behaviour is of
  mask, kept, destroyed, remaining, evaluations, cut, late,  \* Repair
  mode, actions, status,                                     \* Pointer
  quality, ready, clock, incumbents, steps, idle, completed, \* Anytime
  costs, budget, now, iteration, currentEval, bestEval, firstTime, targetTime,
  row,                                                       \* Identical
  method, step, nodes, result, outcome,                      \* Solvers
  config, orders, verdict, given, best, current, started

Repair == INSTANCE RepairLoop WITH
  Units <- RepairUnits, Starts <- RepairStarts, Configs <- RepairConfigs
Pointer == INSTANCE PointerRollout WITH Instances <- PointerInstances
Anytime == INSTANCE AnytimeSearch WITH Configs <- AnytimeConfigs
Identical == INSTANCE IdenticalRepair WITH
  Units <- RepairUnits, Iterations <- RepairIterations
Solvers == INSTANCE AssignmentSolvers WITH
  Instances <- SolverInstances, Iterations <- SolverIterations

\* What the constants of each component are.
ASSUME RepairConstants == Repair!StartsAssumption
ASSUME PointerConstants == Pointer!InstancesAssumption
ASSUME AnytimeConstants ==
  /\ Anytime!StatesAssumption /\ Anytime!ValuesAssumption /\ Anytime!TimeAssumption
  /\ Anytime!ConfigsAssumption
ASSUME IdenticalConstants == Identical!RepairAssumption
ASSUME SolverConstants == Solvers!SolverAssumption

-----------------------------------------------------------------------------
(* The variables only one component has, and what the others make of them. *)
resourceOwn == <<plan, seg, base, cand, pc>>
repairOwn == <<mask, kept, destroyed, remaining, evaluations, cut, late>>
pointerOwn == <<mode, actions, status>>
anytimeOwn == <<quality, ready, clock, incumbents, steps, idle, completed>>
identicalOwn == <<costs, budget, now, iteration, currentEval, bestEval, firstTime,
                  targetTime, row>>
solversOwn == <<method, step, nodes, result, outcome>>

Unused == "unused"
ResourceAtRest ==
  /\ plan = Unused /\ seg = Unused /\ base = Unused /\ cand = Unused
  /\ pc = Unused
RepairAtRest ==
  /\ mask = Unused /\ kept = Unused /\ destroyed = Unused
  /\ remaining = Unused /\ evaluations = Unused /\ cut = Unused
  /\ late = Unused
PointerAtRest == mode = Unused /\ actions = Unused /\ status = Unused
AnytimeAtRest ==
  /\ quality = Unused /\ ready = Unused /\ clock = Unused
  /\ incumbents = Unused /\ steps = Unused /\ idle = Unused
  /\ completed = Unused
IdenticalAtRest ==
  /\ costs = Unused /\ budget = Unused /\ now = Unused /\ iteration = Unused
  /\ currentEval = Unused /\ bestEval = Unused /\ firstTime = Unused
  /\ targetTime = Unused /\ row = Unused
SolversAtRest ==
  /\ method = Unused /\ step = Unused /\ nodes = Unused /\ result = Unused
  /\ outcome = Unused

CallInit ==
  /\ part \in Parts
  /\ \/ /\ part = "resource_start" /\ Init
        /\ RepairAtRest /\ PointerAtRest /\ AnytimeAtRest /\ IdenticalAtRest
        /\ SolversAtRest
        /\ config = Unused /\ orders = Unused /\ verdict = Unused
        /\ given = Unused /\ best = Unused /\ current = Unused
        /\ started = Unused
     \/ /\ part = "repair_loop" /\ Repair!Init
        /\ ResourceAtRest /\ PointerAtRest /\ AnytimeAtRest /\ IdenticalAtRest
        /\ SolversAtRest
        /\ inst = Unused /\ given = Unused /\ best = Unused
        /\ current = Unused /\ started = Unused
     \/ /\ part = "pointer_rollout" /\ Pointer!Init
        /\ ResourceAtRest /\ RepairAtRest /\ AnytimeAtRest /\ IdenticalAtRest
        /\ SolversAtRest
        /\ config = Unused /\ verdict = Unused /\ best = Unused
        /\ current = Unused /\ started = Unused
     \/ /\ part = "anytime_search" /\ Anytime!Init
        /\ ResourceAtRest /\ RepairAtRest /\ PointerAtRest /\ IdenticalAtRest
        /\ SolversAtRest
        /\ inst = Unused /\ orders = Unused /\ given = Unused
     \/ /\ part = "identical_repair" /\ Identical!Init
        /\ ResourceAtRest /\ RepairAtRest /\ PointerAtRest /\ AnytimeAtRest
        /\ SolversAtRest
        /\ inst = Unused /\ config = Unused /\ orders = Unused
        /\ verdict = Unused /\ given = Unused /\ best = Unused
     \/ /\ part = "assignment_solvers" /\ Solvers!Init
        /\ ResourceAtRest /\ RepairAtRest /\ PointerAtRest /\ AnytimeAtRest
        /\ IdenticalAtRest
        /\ inst = Unused /\ config = Unused /\ orders = Unused
        /\ verdict = Unused /\ current = Unused /\ started = Unused

CallNext ==
  \/ /\ part = "resource_start" /\ Next
     /\ UNCHANGED <<part, repairOwn, pointerOwn, anytimeOwn, identicalOwn, solversOwn,
                    config, orders, verdict, given, best, current, started>>
  \/ /\ part = "repair_loop" /\ Repair!Next
     /\ UNCHANGED <<part, resourceOwn, pointerOwn, anytimeOwn, identicalOwn, solversOwn,
                    inst, given, best, current, started>>
  \/ /\ part = "pointer_rollout" /\ Pointer!Next
     /\ UNCHANGED <<part, resourceOwn, repairOwn, anytimeOwn, identicalOwn, solversOwn,
                    config, verdict, best, current, started>>
  \/ /\ part = "anytime_search" /\ Anytime!Next
     /\ UNCHANGED <<part, resourceOwn, repairOwn, pointerOwn, identicalOwn, solversOwn,
                    inst, orders, given>>
  \/ /\ part = "identical_repair" /\ Identical!Next
     /\ UNCHANGED <<part, resourceOwn, repairOwn, pointerOwn, anytimeOwn, solversOwn,
                    inst, config, orders, verdict, given, best>>
  \/ /\ part = "assignment_solvers" /\ Solvers!Next
     /\ UNCHANGED <<part, resourceOwn, repairOwn, pointerOwn, anytimeOwn, identicalOwn,
                    inst, config, orders, verdict, current, started>>

everything == <<part, resourceOwn, repairOwn, pointerOwn, anytimeOwn, identicalOwn,
                solversOwn, inst, config, orders, verdict, given, best, current, started>>

repairState == Repair!vars

\* The repair is not suspended, and time passes.
CallSpec ==
  CallInit /\ [][CallNext]_everything
  /\ WF_repairState(part = "repair_loop" /\ Repair!Loop)
  /\ WF_repairState(part = "repair_loop" /\ Repair!DeadlinePasses)

-----------------------------------------------------------------------------
(* The components' properties, of their own behaviours; the comment of each  *)
(* is in its module.  ReturnsEarliest is ResourceStart's own.                 *)

\* A repair moves nothing it did not take out and puts every unit back on one robot.
RepairIsLocal == part = "repair_loop" => Repair!RepairIsLocal

\* The repair loop ends, however the budget and the deadline cut it.
RepairEnds == (part = "repair_loop" /\ Repair!MayEnd) ~> (part = "repair_loop" => Repair!Ended)

\* Blocks of units taken in the order of the mask never deadlock.
BlocksNeverDeadlock == part = "pointer_rollout" => Pointer!BlocksNeverDeadlock

\* The mask runs empty only where no sequence of pairs completes the instance.
DeadEndExact == part = "pointer_rollout" => Pointer!DeadEndExact

\* The state rebuilt from a verified plan schedules again without deadlock.
RoundTripSchedules == part = "pointer_rollout" => Pointer!RoundTripSchedules

\* The plan returned is a best one of those completed by the deadline.
ReturnsCutoffPlan == part = "anytime_search" => Anytime!ReturnsCutoffPlan

\* The incumbent and the times reported about it agree.
IncumbentBookkeeping == part = "identical_repair" => Identical!IncumbentBookkeeping

\* The joint reference claims optimality and infeasibility only when proved.
JointReferenceExact == part = "assignment_solvers" => Solvers!JointReferenceExact
=============================================================================
