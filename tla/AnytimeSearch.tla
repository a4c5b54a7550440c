--------------------------- MODULE AnytimeSearch ---------------------------
(***************************************************************************)
(* run_search_v2 and run_search_protocol_r, which differ in the repair     *)
(* they call and not in their control.  Both run against a deadline: the   *)
(* end-to-end budget in fixed-time mode, a safety watchdog when the number *)
(* of iterations is fixed.  A candidate that completes after the deadline  *)
(* is traced and ends the search, but is never judged.                     *)
(***************************************************************************)
EXTENDS SearchTrace

CONSTANTS Configs       \* [mode, iterations, deadline, restart, allowInfeasible]

\* What the limits are.
ConfigsAssumption ==
  Configs \subseteq [mode : {"fixed_time", "fixed_iterations"},
                     iterations : Nat \ {0}, deadline : Nat \ {0},
                     restart : Nat, allowInfeasible : BOOLEAN]

VARIABLES completed,    \* iterations_completed
          started,      \* iterations_started
          verdict       \* termination, "running" before the loop ends

counters == <<completed, started>>
vars == <<quality, config, ready, clock, current, best, incumbents, steps, idle,
          completed, started, verdict>>

Step(cand, accepted, updated, counted, time) ==
  [before |-> current, candidate |-> cand, accepted |-> accepted,
   updated |-> updated, counted |-> counted, time |-> time]

\* The call raises for an unverified initial state it may not work on.
Init ==
  /\ config \in Configs
  /\ ready \in Times
  /\ StartSearch
  /\ Verified(InitialState) \/ config.allowInfeasible
  /\ completed = 0
  /\ started = 0
  /\ verdict = "running"

Running == verdict = "running"

TimeUp ==
  IF config.mode = "fixed_time" THEN "end_to_end_time_budget" ELSE "safety_watchdog"

\* The head of the loop finds time left, and the clock is read again when the
\* repair has returned.
Work(cand, done) ==
  /\ Running
  /\ started < config.iterations
  /\ \E head \in Later(clock) : head < config.deadline /\ done \in Later(head)
  /\ clock' = done
  /\ started' = started + 1

\* Mutant of Timely: the clock is not compared with the deadline again.
TimelyOrLate ==
  /\ \E done \in Times, cand \in States, accepted \in BOOLEAN :
       /\ Work(cand, done)
       /\ Decision(current, cand, accepted)
       /\ accepted => Verified(cand) \/ config.allowInfeasible
       /\ Judge(started + 1, done, cand, accepted)
       /\ steps' = Append(steps, Step(cand, accepted, Improves(cand), TRUE, done))
  /\ completed' = completed + 1
  /\ UNCHANGED <<quality, config, ready, verdict>>

\* A candidate in time is judged.  _accept also refuses unverified candidates
\* where the configuration prohibits them.
Timely ==
  /\ \E done \in Times, cand \in States, accepted \in BOOLEAN :
       /\ Work(cand, done)
       /\ done <= config.deadline
       /\ Decision(current, cand, accepted)
       /\ accepted => Verified(cand) \/ config.allowInfeasible
       /\ Judge(started + 1, done, cand, accepted)
       /\ steps' = Append(steps, Step(cand, accepted, Improves(cand), TRUE, done))
  /\ completed' = completed + 1
  /\ UNCHANGED <<quality, config, ready, verdict>>

\* A late one is recorded, and the loop ends.
Late ==
  /\ \E done \in Times, cand \in States :
       /\ Work(cand, done)
       /\ done > config.deadline
       /\ steps' = Append(steps, Step(cand, FALSE, FALSE, FALSE, done))
  /\ verdict' = TimeUp
  /\ UNCHANGED <<quality, config, ready, search, incumbents, completed>>

OutOfTime ==
  /\ Running
  /\ started < config.iterations
  /\ \E head \in Later(clock) : head >= config.deadline /\ clock' = head
  /\ verdict' = TimeUp
  /\ UNCHANGED <<quality, config, ready, search, trace, counters>>

Exhausted ==
  /\ Running
  /\ started = config.iterations
  /\ verdict' = "iteration_budget"
  /\ UNCHANGED <<quality, config, ready, clock, search, trace, counters>>

Next == Timely \/ Late \/ OutOfTime \/ Exhausted

Spec == Init /\ [][Next]_vars

-----------------------------------------------------------------------------
\* The steps that ended in time, and the plans seen by the deadline.
InTime == {i \in DOMAIN steps : steps[i].time <= config.deadline}
Plans == {s \in {InitialState} \cup {steps[i].candidate : i \in InTime} : Verified(s)}

\* The plan that is returned is a best one of the initializer's and of all
\* candidates completed by the deadline: nothing that was found later is in it,
\* and nothing found in time was lost.  It is also what the log shows at the
\* deadline, unless the initializer itself came too late.
ReturnsCutoffPlan ==
  /\ best = NoState <=> Plans = {}
  /\ best /= NoState => best \in Plans /\ \A s \in Plans : Value(best) <= Value(s)
  /\ ready <= config.deadline =>
       LET cut == AtBudget(config.deadline)
       IN  /\ best = NoState <=> cut = {}
           /\ best /= NoState => Value(best) = Select(cut).objective

-----------------------------------------------------------------------------
\* Why: the log holds one entry per improvement, each of them made in time, and
\* the best plan is the last.
Types ==
  /\ quality \in [States -> Qualities] /\ config \in Configs /\ ready \in Times
  /\ best \in States \cup {NoState}
  /\ steps \in Seq([before : States, candidate : States, accepted : BOOLEAN,
                    updated : BOOLEAN, counted : BOOLEAN, time : Times])
  /\ incumbents \in Seq([iteration : Nat, time : Times, objective : Values])

BestOfPlans ==
  /\ best = NoState <=> Plans = {}
  /\ best /= NoState => best \in Plans /\ \A s \in Plans : Value(best) <= Value(s)

LogOfBest ==
  /\ best = NoState => incumbents = <<>>
  /\ best /= NoState => \E i \in DOMAIN incumbents : incumbents[i].objective = Value(best)
  /\ \A i \in DOMAIN incumbents :
       /\ Value(best) <= incumbents[i].objective
       /\ incumbents[i].time \in {ready} \cup 0 .. config.deadline
       /\ \A j \in DOMAIN incumbents :
            incumbents[i].objective = incumbents[j].objective => i = j

IInv == Types /\ BestOfPlans /\ LogOfBest /\ current \in States /\ started \in Nat

=============================================================================
