---------------------------- MODULE SearchTrace ----------------------------
(***************************************************************************)
(* What the search engines share: the evaluation of states, the acceptance *)
(* rule, the bookkeeping of one judged candidate, and the readers of the   *)
(* trace they leave behind (search/trace.py).                              *)
(*                                                                         *)
(* A state is an assignment of atomic units with an order per robot; only  *)
(* its evaluation matters here, so states are values with a quality: does  *)
(* the rebuilt plan verify, and its objective or, without one, its         *)
(* surrogate.  Evaluation is a function of the state.  The tolerance of    *)
(* 1e-12 in every comparison is the equality of exact values.              *)
(***************************************************************************)
EXTENDS Integers, Sequences, FiniteSets

CONSTANTS States,         \* canonical states of the instance
          InitialState,   \* the one the initializer delivers
          NoState,        \* Python's None
          Values,         \* objectives and surrogates
          MaxTime,        \* bound: the last reading of the clock
          MaxAdvance      \* bound: how far the clock moves between readings

ASSUME StatesAssumption == InitialState \in States /\ NoState \notin States
ASSUME ValuesAssumption == Values \subseteq Int
ASSUME TimeAssumption == MaxTime \in Nat /\ MaxAdvance \in Nat

VARIABLES quality,      \* evaluate_state
          config,         \* the limits of the run
          ready,          \* completion of the initializer, from its start
          clock,          \* the last reading of the monotonic clock
          current,        \* current_state
          best,           \* best_state
          incumbents,     \* IncumbentEvents
          steps,          \* SearchSteps
          idle            \* no_improvement

trace == <<incumbents, steps>>
search == <<current, best, idle>>

Qualities == [verified : BOOLEAN, value : Values]
Times == 0 .. MaxTime

Verified(s) == quality[s].verified
Value(s) == quality[s].value

\* The next readings a monotonic clock may give.
Later(t) == {u \in Times : t <= u /\ u <= t + MaxAdvance}
-----------------------------------------------------------------------------
\* _accept: a verified plan is never given up for an unverified one, nor an
\* equal or better value refused; for a worse one annealing may decide either
\* way, its probability being positive and less than one.
MayAccept(cur, cand) == Verified(cur) => Verified(cand)

MustAccept(cur, cand) ==
  \/ Verified(cand) /\ ~Verified(cur)
  \/ Verified(cand) = Verified(cur) /\ Value(cand) <= Value(cur)

Decision(cur, cand, accepted) ==
  /\ accepted => MayAccept(cur, cand)
  /\ MustAccept(cur, cand) => accepted

\* Mutant of Improves: an equal objective is taken for an improvement.
ImprovesOrEquals(cand) ==
  Verified(cand) /\ (best = NoState \/ Value(cand) <= Value(best))

\* Mutant of Improves: the candidate is compared with the current state.
ImprovesOnCurrent(cand) ==
  Verified(cand) /\ (~Verified(current) \/ Value(cand) < Value(current))

\* global_best
Improves(cand) == Verified(cand) /\ (best = NoState \/ Value(cand) < Value(best))

\* Mutant of Incumbent: the time is read before the repair.
IncumbentAtHead(iteration, time, s) ==
  [iteration |-> iteration, time |-> clock, objective |-> Value(s)]

\* _incumbent_event
Incumbent(iteration, time, s) ==
  [iteration |-> iteration, time |-> time, objective |-> Value(s)]

\* Mutant of RestartState: a restart forgets the best state.
RestartAtInitial(b) == InitialState

\* Where the search restarts.
RestartState(b) == IF b = NoState THEN InitialState ELSE b

\* The bookkeeping of one judged candidate, and the restart after too many
\* candidates without a new best.
Judge(iteration, time, cand, accepted) ==
  LET found == Improves(cand)
      newBest == IF found THEN cand ELSE best
      newIdle == IF found THEN 0 ELSE idle + 1
      restart == newIdle >= config.restart
  IN  /\ best' = newBest
      /\ incumbents' = IF found THEN Append(incumbents, Incumbent(iteration, time, cand))
                                ELSE incumbents
      /\ idle' = IF restart THEN 0 ELSE newIdle
      /\ current' = CASE restart -> RestartState(newBest)
                      [] accepted /\ ~restart -> cand
                      [] OTHER -> current

\* The initial state is evaluated after the initializer has finished, and its
\* plan enters the log with the time the initializer finished.
StartSearch ==
  /\ quality \in [States -> Qualities]
  /\ clock = ready
  /\ steps = <<>>
  /\ current = InitialState
  /\ best = IF Verified(InitialState) THEN InitialState ELSE NoState
  /\ incumbents = IF Verified(InitialState)
                  THEN <<Incumbent(0, ready, InitialState)>> ELSE <<>>
  /\ idle = 0
-----------------------------------------------------------------------------
\* best_at_budget, on the part of the log it may use.
Precedes(e, f) ==
  \/ e.objective < f.objective
  \/ e.objective = f.objective /\ e.time < f.time
  \/ e.objective = f.objective /\ e.time = f.time /\ e.iteration <= f.iteration

Select(eligible) ==
  CHOOSE e \in eligible : \A f \in eligible : Precedes(e, f)

Entries == {incumbents[i] : i \in DOMAIN incumbents}

AtBudget(b) == {e \in Entries : e.time <= b}
\* Why a budget has no plan.
FailureReason(b) ==
  IF ready > b THEN "initializer_timeout" ELSE "no_feasible_incumbent"
-----------------------------------------------------------------------------
\* replay_trace: every recorded state before a step must be the candidate of
\* the last accepted step, or the initial state.
ReplayedBefore(k) ==
  LET taken == {i \in 1 .. k - 1 : steps[i].accepted}
  IN  IF taken = {} THEN InitialState
      ELSE steps[CHOOSE i \in taken : \A j \in taken : j <= i].candidate
=============================================================================
