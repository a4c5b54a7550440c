---------------------------- MODULE AlnsSearch ----------------------------
(***************************************************************************)
(* run_search, the first adaptive large neighbourhood search: each         *)
(* iteration destroys and repairs the current state, judges the candidate  *)
(* and records a step.  The operators, their weights and the repair decide *)
(* which state is the candidate; every state is possible here.  The time   *)
(* limit is looked at between iterations only, so the last candidate may   *)
(* be late and still counts.                                               *)
(***************************************************************************)
EXTENDS SearchTrace

CONSTANTS Configs       \* [iterations, limit, restart]

ASSUME ConfigsAssumption ==
  Configs \subseteq [iterations : Nat \ {0}, limit : Nat \ {0}, restart : Nat]

VARIABLE verdict        \* termination, "running" before the loop ends

vars == <<quality, config, ready, clock, current, best, incumbents, steps, idle, verdict>>

Step(cand, accepted, time) ==
  [before |-> current, candidate |-> cand, accepted |-> accepted,
   updated |-> Improves(cand), time |-> time]

Init ==
  /\ config \in Configs
  /\ ready \in Times
  /\ StartSearch
  /\ verdict = "running"

Running == verdict = "running"

\* One iteration of the loop that is begun in time.  (The code takes the
\* larger of the reading and the initializer's completion, which is the reading.)
Iterate ==
  /\ Running
  /\ Len(steps) < config.iterations
  /\ \E head \in Later(clock) :
       /\ head < config.limit
       /\ \E done \in Later(head), cand \in States, accepted \in BOOLEAN :
            /\ Decision(current, cand, accepted)
            /\ Judge(Len(steps) + 1, done, cand, accepted)
            /\ steps' = Append(steps, Step(cand, accepted, done))
            /\ clock' = done
  /\ UNCHANGED <<quality, config, ready, verdict>>

OutOfTime ==
  /\ Running
  /\ Len(steps) < config.iterations
  /\ \E head \in Later(clock) : head >= config.limit /\ clock' = head
  /\ verdict' = "end_to_end_time_budget"
  /\ UNCHANGED <<quality, config, ready, search, trace>>

Exhausted ==
  /\ Running
  /\ Len(steps) = config.iterations
  /\ verdict' = "iteration_budget"
  /\ UNCHANGED <<quality, config, ready, clock, search, trace>>

Next == Iterate \/ OutOfTime \/ Exhausted

Spec == Init /\ [][Next]_vars /\ WF_vars(Next)
-----------------------------------------------------------------------------
\* The states the search has evaluated, with the iteration and the time of it.
Seen ==
  {[state |-> InitialState, iteration |-> 0, time |-> ready]}
  \cup {[state |-> steps[i].candidate, iteration |-> i, time |-> steps[i].time] :
          i \in DOMAIN steps}
Plans == {x \in Seen : Verified(x.state)}

TypeOK ==
  /\ quality \in [States -> Qualities]
  /\ config \in Configs
  /\ ready \in Times
  /\ clock \in Times
  /\ current \in States
  /\ best \in States \cup {NoState}
  /\ incumbents \in Seq([iteration : Nat, time : Times, objective : Values])
  /\ steps \in Seq([before : States, candidate : States, accepted : BOOLEAN,
                    updated : BOOLEAN, time : Times])
  /\ idle \in Nat
  /\ verdict \in {"running", "iteration_budget", "end_to_end_time_budget"}

\* Of all states the search has evaluated, best is one of least objective, and
\* there is none only if no plan was ever verified (run_search's best_state).
BestIsBest ==
  /\ best = NoState <=> Plans = {}
  /\ \A x \in Plans : Value(best) <= Value(x.state)
  /\ best /= NoState => \E x \in Plans : x.state = best

\* The snapshot at any time budget is the best plan evaluated by then, although
\* the log holds strict improvements only and the search went on afterwards; a
\* budget without a snapshot has no plan (best_at_budget).
SnapshotExact ==
  \A b \in Times :
    LET known == {x \in Plans : x.time <= b}
    IN  /\ AtBudget(b) = {} <=> known = {}
        /\ \A x \in known : Select(AtBudget(b)).objective <= Value(x.state)
        /\ known /= {} => \E x \in known : Select(AtBudget(b)).objective = Value(x.state)
        /\ FailureReason(b) = "initializer_timeout" => known = {}

\* Once the current state has a verified plan it always has one: neither
\* annealing nor a restart goes back to an unverified state.
KeepsFeasible == [][Verified(current) => Verified(current)']_vars

Log == INSTANCE IncumbentLog WITH
  Objectives <- Values,
  log <- [i \in DOMAIN incumbents |->
            [time |-> incumbents[i].time, objective |-> incumbents[i].objective]]

\* The incumbents form a log of strict improvements in time order.
RefinesLog == Log!Spec

\* replay_trace accepts the trace of every run: its doc string promises to
\* replay every candidate transition and verify the recorded state hash.
ReplayPasses == \A k \in DOMAIN steps : ReplayedBefore(k) = steps[k].before
=============================================================================
