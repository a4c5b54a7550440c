-------------------------- MODULE AlnsSearchProofs --------------------------
(***************************************************************************)
(* run_search keeps its promises for any states, qualities and limits: it  *)
(* returns the best state it has evaluated, never loses a verified current *)
(* state, and its incumbents are the log whose cuts best_at_budget reads.  *)
(***************************************************************************)
EXTENDS AlnsSearch, WellFoundedInduction, TLAPS

\* Everything evaluated so far was evaluated since the initializer finished, and the current state is
\* one of the states that were.
SeenSound ==
  /\ \A x \in Seen : ready <= x.time /\ x.time <= clock
  /\ \E x \in Seen : x.state = current

\* Every incumbent was a plan when it was recorded, and none is better than best.
LogSound ==
  \A i \in DOMAIN incumbents :
    /\ \E x \in Plans : /\ incumbents[i].iteration = x.iteration
                        /\ incumbents[i].time = x.time
                        /\ incumbents[i].objective = Value(x.state)
    /\ best /= NoState
    /\ Value(best) <= incumbents[i].objective

\* Every plan was matched by an incumbent that was no later and no worse.
LogComplete ==
  \A x \in Plans : \E i \in DOMAIN incumbents :
    /\ incumbents[i].iteration <= x.iteration
    /\ incumbents[i].time <= x.time
    /\ incumbents[i].objective <= Value(x.state)

\* Later incumbents are better.
LogOrdered ==
  \A i, j \in DOMAIN incumbents :
    i < j => /\ incumbents[i].time <= incumbents[j].time
             /\ incumbents[i].iteration <= incumbents[j].iteration
             /\ incumbents[j].objective < incumbents[i].objective

IInv == TypeOK /\ BestIsBest /\ SeenSound /\ LogSound /\ LogComplete /\ LogOrdered
-----------------------------------------------------------------------------
\* Readings of the clock only grow.
LEMMA LaterReading ==
  ASSUME NEW t \in Times, NEW u \in Later(t)
  PROVE  u \in Times /\ t <= u
BY DEF Later

\* What the invariant says of values.
LEMMA ValueTypes ==
  ASSUME TypeOK
  PROVE  \A s \in States : Verified(s) \in BOOLEAN /\ Value(s) \in Values /\ Value(s) \in Int
BY ValuesAssumption DEF TypeOK, Qualities, Verified, Value

LEMMA SequenceTypes ==
  ASSUME NEW S, NEW s \in Seq(S)
  PROVE  /\ Len(s) \in Nat /\ DOMAIN s = 1 .. Len(s)
         /\ \A i \in DOMAIN s : s[i] \in S
OBVIOUS

LEMMA SeenTypes ==
  ASSUME TypeOK
  PROVE  /\ \A x \in Seen : /\ x.state \in States /\ x.time \in Times
                            /\ x.iteration \in 0 .. Len(steps)
         /\ Plans \subseteq Seen
<1> DEFINE S == [before : States, candidate : States, accepted : BOOLEAN,
                 updated : BOOLEAN, time : Times]
<1>1. /\ Len(steps) \in Nat /\ DOMAIN steps = 1 .. Len(steps)
      /\ \A i \in DOMAIN steps : steps[i].candidate \in States /\ steps[i].time \in Times
  <2>1. steps \in Seq(S)
    BY DEF TypeOK
  <2>2. /\ Len(steps) \in Nat /\ DOMAIN steps = 1 .. Len(steps)
        /\ \A i \in DOMAIN steps : steps[i] \in S
    BY <2>1, SequenceTypes
  <2>3. QED  BY <2>2
<1>2. ready \in Times /\ InitialState \in States
  BY StatesAssumption DEF TypeOK
<1>3. QED  BY <1>1, <1>2 DEF Seen, Plans

LEMMA EntryTypes ==
  ASSUME TypeOK
  PROVE  /\ DOMAIN incumbents = 1 .. Len(incumbents)
         /\ Len(incumbents) \in Nat
         /\ \A i \in DOMAIN incumbents :
              /\ incumbents[i].time \in Times /\ incumbents[i].iteration \in Nat
              /\ incumbents[i].objective \in Values /\ incumbents[i].objective \in Int
<1> DEFINE S == [iteration : Nat, time : Times, objective : Values]
<1>1. incumbents \in Seq(S)
  BY DEF TypeOK
<1>2. /\ Len(incumbents) \in Nat /\ DOMAIN incumbents = 1 .. Len(incumbents)
      /\ \A i \in DOMAIN incumbents : incumbents[i] \in S
  BY <1>1, SequenceTypes
<1>3. QED  BY <1>2, ValuesAssumption
-----------------------------------------------------------------------------
\* The initial state, with its plan or without.
THEOREM InitIInv == Init => IInv
<1> SUFFICES ASSUME Init PROVE IInv
  OBVIOUS
<1>1. quality \in [States -> Qualities] /\ clock = ready /\ steps = <<>> /\ idle = 0
      /\ config \in Configs /\ verdict = "running" /\ current = InitialState
  BY DEF Init, StartSearch
<1>2. InitialState \in States /\ Verified(InitialState) \in BOOLEAN
      /\ Value(InitialState) \in Values /\ Value(InitialState) \in Int
  BY <1>1, StatesAssumption, ValuesAssumption DEF Qualities, Verified, Value
<1>3. Seen = {[state |-> InitialState, iteration |-> 0, time |-> ready]}
  BY <1>1 DEF Seen
<1>4. ready \in Times /\ ready \in Int
  BY DEF Init, Times
<1>5. TypeOK
  <2>1. best \in States \cup {NoState} /\ current \in States
    BY <1>1, <1>2 DEF Init, StartSearch
  <2>2. Incumbent(0, ready, InitialState) \in [iteration : Nat, time : Times, objective : Values]
    BY <1>2, <1>4 DEF Incumbent
  <2>3. incumbents \in Seq([iteration : Nat, time : Times, objective : Values])
    <3>1. incumbents = <<>> \/ incumbents = <<Incumbent(0, ready, InitialState)>>
      BY DEF Init, StartSearch
    <3> DEFINE e == Incumbent(0, ready, InitialState)
    <3> DEFINE S == [iteration : Nat, time : Times, objective : Values]
    <3>2. e \in S /\ (incumbents = <<>> \/ incumbents = <<e>>)
      BY <3>1, <2>2
    <3> HIDE DEF e, S
    <3>3. \A i \in 1 .. 1 : <<e>>[i] \in S
      BY <3>2
    <3>4. <<e>> \in Seq(S) /\ <<>> \in Seq(S)
      BY <3>3
    <3>5. incumbents \in Seq(S)
      BY <3>2, <3>4
    <3>6. QED  BY <3>5 DEF S
  <2>4. steps \in Seq([before : States, candidate : States, accepted : BOOLEAN,
                        updated : BOOLEAN, time : Times])
    BY <1>1
  <2>5. QED  BY <1>1, <1>4, <2>1, <2>3, <2>4 DEF TypeOK
<1>6. SeenSound
  BY <1>1, <1>3, <1>4 DEF SeenSound
<1>7. CASE Verified(InitialState)
  <2>1. best = InitialState /\ incumbents = <<Incumbent(0, ready, InitialState)>>
    BY <1>7 DEF Init, StartSearch
  <2>2. Plans = Seen
    BY <1>3, <1>7 DEF Plans
  <2>3. DOMAIN incumbents = {1} /\ incumbents[1] = Incumbent(0, ready, InitialState)
    BY <2>1
  <2>4. BestIsBest
    <3>1. Plans /= {} /\ best /= NoState
      BY <2>1, <2>2, <1>2, <1>3, StatesAssumption
    <3>2. \A x \in Plans : x.state = best
      BY <2>1, <2>2, <1>3
    <3>3. Value(best) <= Value(best)
      BY <2>1, <1>2
    <3>4. QED  BY <3>1, <3>2, <3>3 DEF BestIsBest
  <2>5. LogSound /\ LogComplete /\ LogOrdered
    BY <2>1, <2>2, <2>3, <1>2, <1>3, <1>4, StatesAssumption
    DEF LogSound, LogComplete, LogOrdered, Incumbent
  <2>6. QED  BY <1>5, <1>6, <2>4, <2>5 DEF IInv
<1>8. CASE ~Verified(InitialState)
  <2>1. best = NoState /\ incumbents = <<>>
    BY <1>8 DEF Init, StartSearch
  <2>2. Plans = {}
    BY <1>3, <1>8 DEF Plans
  <2>3. BestIsBest /\ LogSound /\ LogComplete /\ LogOrdered
    BY <2>1, <2>2 DEF BestIsBest, LogSound, LogComplete, LogOrdered
  <2>4. QED  BY <1>5, <1>6, <2>3 DEF IInv
<1>9. QED  BY <1>7, <1>8
-----------------------------------------------------------------------------
\* A step that leaves search and trace alone keeps the invariant.
LEMMA Rest ==
  ASSUME IInv, clock' \in Times, clock <= clock',
         UNCHANGED <<quality, config, ready, search, trace>>,
         verdict' \in {"running", "iteration_budget", "end_to_end_time_budget"}
  PROVE  IInv'
<1>1. /\ quality' = quality /\ config' = config /\ ready' = ready
      /\ current' = current /\ best' = best /\ idle' = idle
      /\ incumbents' = incumbents /\ steps' = steps
  BY DEF search, trace
<1>2. Seen' = Seen /\ Plans' = Plans
  BY <1>1 DEF Seen, Plans, Verified
<1>3. TypeOK'
  BY <1>1 DEF IInv, TypeOK
<1>4. SeenSound'
  <2>1. \A x \in Seen : x.time \in Int
    BY SeenTypes DEF IInv, Times
  <2>2. clock \in Int /\ clock' \in Int
    BY DEF IInv, TypeOK, Times
  <2>3. QED  BY <1>1, <1>2, <2>1, <2>2 DEF IInv, SeenSound
<1>5. BestIsBest' /\ LogSound' /\ LogComplete' /\ LogOrdered'
  BY <1>1, <1>2 DEF IInv, BestIsBest, LogSound, LogComplete, LogOrdered, Value
<1>6. QED  BY <1>3, <1>4, <1>5 DEF IInv

\* One judged candidate, whatever the operators, the weights and the random
\* numbers made of it.
Iteration(cand, accepted, done) ==
  /\ Decision(current, cand, accepted)
  /\ Judge(Len(steps) + 1, done, cand, accepted)
  /\ steps' = Append(steps, Step(cand, accepted, done))
  /\ clock' = done
  /\ UNCHANGED <<quality, config, ready, verdict>>

\* The candidate joins what has been seen.
LEMMA SeenStep ==
  ASSUME TypeOK, NEW cand \in States, NEW accepted \in BOOLEAN, NEW done \in Times,
         Iteration(cand, accepted, done)
  PROVE  LET new == [state |-> cand, iteration |-> Len(steps) + 1, time |-> done]
         IN  /\ Seen' = Seen \cup {new}
             /\ Plans' = Plans \cup {x \in {new} : Verified(cand)}
             /\ \A s : Verified(s)' = Verified(s) /\ Value(s)' = Value(s)
<1> DEFINE S == [before : States, candidate : States, accepted : BOOLEAN,
                 updated : BOOLEAN, time : Times]
<1> DEFINE new == [state |-> cand, iteration |-> Len(steps) + 1, time |-> done]
<1>1. quality' = quality /\ ready' = ready
      /\ steps' = Append(steps, Step(cand, accepted, done))
  BY DEF Iteration
<1>2. steps \in Seq(S)
  BY DEF TypeOK
<1>3. /\ DOMAIN steps = 1 .. Len(steps) /\ Len(steps) \in Nat
      /\ DOMAIN steps' = 1 .. Len(steps) + 1
      /\ \A i \in DOMAIN steps : steps'[i] = steps[i]
      /\ steps'[Len(steps) + 1] = Step(cand, accepted, done)
  BY <1>1, <1>2
<1>4. Seen' = Seen \cup {new}
  <2> DEFINE Of(i) == [state |-> steps[i].candidate, iteration |-> i, time |-> steps[i].time]
  <2> DEFINE Then(i) == [state |-> steps'[i].candidate, iteration |-> i, time |-> steps'[i].time]
  <2>1. \A i \in DOMAIN steps : Then(i) = Of(i)
    BY <1>3
  <2>2. Then(Len(steps) + 1) = new
    BY <1>3 DEF Step
  <2>3. DOMAIN steps' = DOMAIN steps \cup {Len(steps) + 1}
    BY <1>3
  <2>4. {Then(i) : i \in DOMAIN steps'} = {Of(i) : i \in DOMAIN steps} \cup {new}
    <3> HIDE DEF Then, Of, new
    <3>1. QED  BY <2>1, <2>2, <2>3
  <2>5. Seen = {[state |-> InitialState, iteration |-> 0, time |-> ready]}
               \cup {Of(i) : i \in DOMAIN steps}
    BY DEF Seen
  <2>6. Seen' = {[state |-> InitialState, iteration |-> 0, time |-> ready]}
                \cup {Then(i) : i \in DOMAIN steps'}
    BY <1>1 DEF Seen
  <2>7. QED  BY <2>4, <2>5, <2>6
<1>5. \A s : Verified(s)' = Verified(s) /\ Value(s)' = Value(s)
  BY <1>1 DEF Verified, Value
<1>6. Plans' = Plans \cup {x \in {new} : Verified(cand)}
  BY <1>4, <1>5 DEF Plans
<1>7. QED  BY <1>4, <1>5, <1>6

\* The two things that may happen to the log.
LEMMA LogStep ==
  ASSUME TypeOK, NEW cand \in States, NEW accepted \in BOOLEAN, NEW done \in Times,
         Iteration(cand, accepted, done)
  PROVE  \/ /\ Improves(cand)
            /\ best' = cand
            /\ DOMAIN incumbents' = DOMAIN incumbents \cup {Len(incumbents) + 1}
            /\ \A i \in DOMAIN incumbents : incumbents'[i] = incumbents[i]
            /\ incumbents' = Append(incumbents, Incumbent(Len(steps) + 1, done, cand))
            /\ incumbents'[Len(incumbents) + 1] = Incumbent(Len(steps) + 1, done, cand)
         \/ /\ ~Improves(cand)
            /\ best' = best
            /\ incumbents' = incumbents
<1> DEFINE S == [iteration : Nat, time : Times, objective : Values]
<1>1. incumbents \in Seq(S)
  BY DEF TypeOK
<1>2. CASE Improves(cand)
  <2>1. best' = cand /\ incumbents' = Append(incumbents, Incumbent(Len(steps) + 1, done, cand))
    BY <1>2 DEF Iteration, Judge
  <2>2. /\ DOMAIN incumbents' = DOMAIN incumbents \cup {Len(incumbents) + 1}
        /\ \A i \in DOMAIN incumbents : incumbents'[i] = incumbents[i]
        /\ incumbents'[Len(incumbents) + 1] = Incumbent(Len(steps) + 1, done, cand)
    BY <1>1, <2>1
  <2>3. QED  BY <1>2, <2>1, <2>2
<1>3. CASE ~Improves(cand)
  BY <1>3 DEF Iteration, Judge
<1>4. QED  BY <1>2, <1>3

\* Where the search goes on from.
LEMMA CurrentStep ==
  ASSUME NEW cand, NEW accepted \in BOOLEAN, NEW done, Iteration(cand, accepted, done)
  PROVE  \/ current' = current /\ ~accepted
         \/ current' = cand /\ accepted
         \/ current' = RestartState(best')
BY DEF Iteration, Judge

\* The types after an iteration.
LEMMA TypeStep ==
  ASSUME TypeOK, NEW cand \in States, NEW accepted \in BOOLEAN, NEW done \in Times,
         Iteration(cand, accepted, done)
  PROVE  TypeOK'
<1> DEFINE E == [iteration : Nat, time : Times, objective : Values]
<1> DEFINE S == [before : States, candidate : States, accepted : BOOLEAN,
                 updated : BOOLEAN, time : Times]
<1>1. /\ quality' = quality /\ config' = config /\ ready' = ready
      /\ clock' = done /\ verdict' = verdict
  BY DEF Iteration
<1>2. Len(steps) \in Nat
  BY SequenceTypes DEF TypeOK
<1>3. best' \in States \cup {NoState}
  BY LogStep DEF TypeOK
<1>4. current' \in States
  BY <1>3, CurrentStep, StatesAssumption DEF TypeOK, RestartState
<1>5. incumbents' \in Seq(E)
  <2> DEFINE e == Incumbent(Len(steps) + 1, done, cand)
  <2>1. e \in E
    BY <1>2, ValueTypes DEF Incumbent
  <2>2. incumbents' = incumbents \/ incumbents' = Append(incumbents, e)
    BY LogStep
  <2>3. incumbents \in Seq(E)
    BY DEF TypeOK
  <2> HIDE DEF e, E
  <2>4. QED  BY <2>1, <2>2, <2>3
<1>6. steps' \in Seq(S)
  <2> DEFINE s == Step(cand, accepted, done)
  <2>1. Improves(cand) \in BOOLEAN /\ current \in States
    BY DEF Improves, Verified, TypeOK, Qualities
  <2>2. s \in S
    BY <2>1 DEF Step
  <2>3. steps' = Append(steps, s) /\ steps \in Seq(S)
    BY DEF TypeOK, Iteration
  <2> HIDE DEF s, S
  <2>4. QED  BY <2>2, <2>3
<1>7. idle' \in Nat
  <2>1. idle \in Nat
    BY DEF TypeOK
  <2>2. idle' \in {0, idle + 1}
    BY DEF Iteration, Judge
  <2>3. QED  BY <2>1, <2>2
<1>8. QED  BY <1>1, <1>3, <1>4, <1>5, <1>6, <1>7 DEF TypeOK

\* An iteration keeps the invariant.
LEMMA IterationKeeps ==
  ASSUME IInv, NEW cand \in States, NEW accepted \in BOOLEAN, NEW done \in Times,
         clock <= done, Iteration(cand, accepted, done)
  PROVE  IInv'
<1> DEFINE new == [state |-> cand, iteration |-> Len(steps) + 1, time |-> done]
<1> DEFINE e == Incumbent(Len(steps) + 1, done, cand)
<1>1. TypeOK /\ TypeOK'
  BY TypeStep DEF IInv
<1>2. /\ Seen' = Seen \cup {new}
      /\ Plans' = Plans \cup {x \in {new} : Verified(cand)}
      /\ \A s : Verified(s)' = Verified(s) /\ Value(s)' = Value(s)
  BY <1>1, SeenStep
<1>3. /\ Len(steps) \in Nat /\ done \in Int /\ clock \in Int
      /\ \A x \in Seen : /\ x.state \in States /\ x.time \in Int /\ x.time <= done
                         /\ x.iteration \in Int /\ x.iteration <= Len(steps)
      /\ Plans \subseteq Seen
  <2>1. Len(steps) \in Nat /\ done \in Int /\ clock \in Int
    BY <1>1, SequenceTypes DEF TypeOK, Times
  <2>2. \A x \in Seen : x.time \in Int /\ x.time <= clock
    BY <1>1, SeenTypes DEF IInv, SeenSound, Times
  <2>3. \A x \in Seen : x.state \in States /\ x.iteration \in 0 .. Len(steps)
    BY <1>1, SeenTypes
  <2>4. QED  BY <2>1, <2>2, <2>3, <1>1, SeenTypes
<1>4. \A s \in States : Verified(s) \in BOOLEAN /\ Value(s) \in Int
  BY <1>1, ValueTypes
<1>5. /\ DOMAIN incumbents = 1 .. Len(incumbents) /\ Len(incumbents) \in Nat
      /\ \A i \in DOMAIN incumbents : /\ incumbents[i].time \in Int
                                      /\ incumbents[i].iteration \in Int
                                      /\ incumbents[i].objective \in Int
  BY <1>1, EntryTypes DEF Times
<1>6. e = [iteration |-> Len(steps) + 1, time |-> done, objective |-> Value(cand)]
  BY DEF Incumbent
<1>7. best /= NoState => best \in States
  BY <1>1 DEF TypeOK
<1>8. new.state = cand /\ new.time = done /\ new.iteration = Len(steps) + 1
  OBVIOUS
<1>9. \A i \in DOMAIN incumbents :
        /\ incumbents[i].time <= done /\ incumbents[i].iteration <= Len(steps)
        /\ best /= NoState /\ Value(best) <= incumbents[i].objective
  BY <1>3 DEF IInv, LogSound
<1> HIDE DEF new, e
<1>10. SeenSound'
  <2>1. \A x \in Seen' : ready' <= x.time /\ x.time <= clock'
    <3>1. \A x \in Seen : ready <= x.time
      BY DEF IInv, SeenSound
    <3>2. \E x \in Seen : ready <= x.time /\ x.time <= done
      BY <1>3, <3>1 DEF Seen
    <3>3. ready \in Int /\ ready <= done
      BY <1>1, <1>3, <3>2 DEF TypeOK, Times
    <3>4. QED  BY <1>2, <1>3, <1>8, <3>1, <3>3 DEF Iteration
  <2>2. \E x \in Seen' : x.state = current'
    <3>1. CASE current' = current
      BY <3>1, <1>2 DEF IInv, SeenSound
    <3>2. CASE current' = cand
      BY <3>2, <1>2, <1>8
    <3>3. CASE current' = RestartState(best')
      <4>1. CASE best' = NoState
        <5> DEFINE first == [state |-> InitialState, iteration |-> 0, time |-> ready]
        <5>1. first \in Seen /\ first.state = InitialState
          BY DEF Seen
        <5>2. QED  BY <3>3, <4>1, <5>1, <1>2 DEF RestartState
      <4>2. CASE best' /= NoState /\ best' = cand
        BY <3>3, <4>2, <1>2, <1>8 DEF RestartState
      <4>3. CASE best' /= NoState /\ best' = best
        BY <3>3, <4>3, <1>2, <1>3 DEF RestartState, IInv, BestIsBest
      <4>4. QED  BY <4>1, <4>2, <4>3, <1>1, LogStep
    <3>4. QED  BY <3>1, <3>2, <3>3, CurrentStep
  <2>3. QED  BY <2>1, <2>2 DEF SeenSound
<1>11. CASE Improves(cand)
  <2>1. /\ best' = cand
        /\ DOMAIN incumbents' = DOMAIN incumbents \cup {Len(incumbents) + 1}
        /\ \A i \in DOMAIN incumbents : incumbents'[i] = incumbents[i]
        /\ incumbents'[Len(incumbents) + 1] = e
    BY <1>1, <1>11, LogStep DEF e
  <2>2. Verified(cand) /\ (best = NoState \/ Value(cand) < Value(best))
    BY <1>11 DEF Improves
  <2>3. Plans' = Plans \cup {new}
    BY <1>2, <2>2
  <2>4. cand /= NoState
    BY StatesAssumption
  <2>5. \A x \in Plans : Value(cand) <= Value(x.state)
    BY <2>2, <1>3, <1>4, <1>7 DEF IInv, BestIsBest
  <2>6. \A i \in DOMAIN incumbents : Value(cand) < incumbents[i].objective
    BY <2>2, <1>4, <1>5, <1>7, <1>9
  <2>7. BestIsBest'
    BY <2>1, <2>3, <2>4, <2>5, <1>2, <1>4, <1>8 DEF BestIsBest
  <2>8. LogSound'
    <3>1. ASSUME NEW i \in DOMAIN incumbents
          PROVE  \E x \in Plans' : /\ incumbents'[i].iteration = x.iteration
                                   /\ incumbents'[i].time = x.time
                                   /\ incumbents'[i].objective = Value(x.state)'
      BY <2>1, <2>3, <1>2 DEF IInv, LogSound
    <3>2. \E x \in Plans' : /\ e.iteration = x.iteration /\ e.time = x.time
                            /\ e.objective = Value(x.state)'
      BY <2>3, <1>2, <1>6, <1>8
    <3>3. \A i \in DOMAIN incumbents' : best' /= NoState /\ Value(best)' <= incumbents'[i].objective
      BY <2>1, <2>4, <2>6, <1>2, <1>4, <1>5, <1>6
    <3>4. QED  BY <3>1, <3>2, <3>3, <2>1 DEF LogSound
  <2>9. LogComplete'
    <3>1. ASSUME NEW x \in Plans
          PROVE  \E i \in DOMAIN incumbents' :
                   /\ incumbents'[i].iteration <= x.iteration
                   /\ incumbents'[i].time <= x.time
                   /\ incumbents'[i].objective <= Value(x.state)'
      BY <2>1, <1>2 DEF IInv, LogComplete
    <3>2. \E i \in DOMAIN incumbents' :
            /\ incumbents'[i].iteration <= new.iteration
            /\ incumbents'[i].time <= new.time
            /\ incumbents'[i].objective <= Value(cand)
      BY <2>1, <1>3, <1>4, <1>6, <1>8
    <3>3. \A x \in Plans' : \E i \in DOMAIN incumbents' :
            /\ incumbents'[i].iteration <= x.iteration
            /\ incumbents'[i].time <= x.time
            /\ incumbents'[i].objective <= Value(x.state)'
      BY <3>1, <3>2, <2>3, <1>2, <1>8
    <3>4. QED  BY <3>3 DEF LogComplete
  <2>10. LogOrdered'
    <3>1. ASSUME NEW i \in DOMAIN incumbents', NEW j \in DOMAIN incumbents', i < j
          PROVE  /\ incumbents'[i].time <= incumbents'[j].time
                 /\ incumbents'[i].iteration <= incumbents'[j].iteration
                 /\ incumbents'[j].objective < incumbents'[i].objective
      <4>1. i \in DOMAIN incumbents
        BY <3>1, <2>1, <1>5
      <4>2. CASE j \in DOMAIN incumbents
        BY <3>1, <4>1, <4>2, <2>1 DEF IInv, LogOrdered
      <4>3. CASE j = Len(incumbents) + 1
        BY <4>1, <4>3, <2>1, <2>6, <1>3, <1>5, <1>6, <1>9
      <4>4. QED  BY <4>2, <4>3, <2>1
    <3>2. QED  BY <3>1 DEF LogOrdered
  <2>11. QED  BY <1>1, <1>10, <2>7, <2>8, <2>9, <2>10 DEF IInv
<1>12. CASE ~Improves(cand)
  <2>1. best' = best /\ incumbents' = incumbents
    BY <1>1, <1>12, LogStep
  <2>2. Verified(cand) => best /= NoState /\ Value(best) <= Value(cand)
    BY <1>12, <1>4, <1>7 DEF Improves
  <2>3. BestIsBest'
    <3>1. best = NoState => Plans' = {}
      BY <2>2, <1>2 DEF IInv, BestIsBest
    <3>2. best /= NoState => \E x \in Plans' : x.state = best
      BY <1>2 DEF IInv, BestIsBest
    <3>3. \A x \in Plans' : Value(best) <= Value(x.state)
      BY <2>2, <1>2, <1>8 DEF IInv, BestIsBest
    <3>4. QED  BY <3>1, <3>2, <3>3, <2>1, <1>2 DEF BestIsBest
  <2>4. LogSound'
    BY <2>1, <1>2 DEF IInv, LogSound
  <2>5. LogComplete'
    <3>1. ASSUME Verified(cand)
          PROVE  \E i \in DOMAIN incumbents :
                   /\ incumbents[i].iteration <= new.iteration
                   /\ incumbents[i].time <= new.time
                   /\ incumbents[i].objective <= Value(new.state)
      <4>1. PICK x \in Plans : x.state = best
        BY <3>1, <2>2 DEF IInv, BestIsBest
      <4>2. PICK i \in DOMAIN incumbents : incumbents[i].objective <= Value(x.state)
        BY <4>1 DEF IInv, LogComplete
      <4>3. incumbents[i].objective <= Value(cand)
        BY <3>1, <4>1, <4>2, <2>2, <1>4, <1>5, <1>7
      <4>4. QED  BY <4>3, <1>3, <1>5, <1>8, <1>9
    <3>2. \A x \in Plans' : \E i \in DOMAIN incumbents :
            /\ incumbents[i].iteration <= x.iteration
            /\ incumbents[i].time <= x.time
            /\ incumbents[i].objective <= Value(x.state)
      BY <3>1, <1>2 DEF IInv, LogComplete
    <3>3. QED  BY <3>2, <2>1, <1>2 DEF LogComplete
  <2>6. LogOrdered'
    BY <2>1 DEF IInv, LogOrdered
  <2>7. QED  BY <1>1, <1>10, <2>3, <2>4, <2>5, <2>6 DEF IInv
<1>13. QED  BY <1>11, <1>12

\* Every action keeps the invariant.
THEOREM StepIInv == IInv /\ [Next]_vars => IInv'
<1> SUFFICES ASSUME IInv, [Next]_vars PROVE IInv'
  OBVIOUS
<1>1. clock \in Times /\ clock \in Int /\ Times \subseteq Int
      /\ verdict \in {"running", "iteration_budget", "end_to_end_time_budget"}
  BY DEF IInv, TypeOK, Times
<1>2. CASE Iterate
  <2>1. PICK head \in Later(clock) :
          \E done \in Later(head), cand \in States, accepted \in BOOLEAN :
            Iteration(cand, accepted, done)
    BY <1>2 DEF Iterate, Iteration
  <2>2. head \in Times /\ clock <= head
    BY <1>1, LaterReading
  <2>3. PICK done \in Later(head), cand \in States, accepted \in BOOLEAN :
          Iteration(cand, accepted, done)
    BY <2>1
  <2>4. done \in Times /\ head <= done
    BY <2>2, LaterReading
  <2>5. clock <= done
    BY <1>1, <2>2, <2>4
  <2>6. QED  BY <2>3, <2>4, <2>5, IterationKeeps
<1>3. CASE OutOfTime
  <2>1. clock' \in Times /\ clock <= clock'
    BY <1>1, <1>3, LaterReading DEF OutOfTime
  <2>2. QED  BY <1>3, <2>1, Rest DEF OutOfTime
<1>4. CASE Exhausted
  <2>1. clock' \in Times /\ clock <= clock'
    BY <1>1, <1>4 DEF Exhausted
  <2>2. QED  BY <1>4, <2>1, Rest DEF Exhausted
<1>5. CASE UNCHANGED vars
  <2>1. clock' \in Times /\ clock <= clock'
    BY <1>1, <1>5 DEF vars
  <2>2. QED  BY <1>1, <1>5, <2>1, Rest DEF vars, search, trace
<1>6. QED  BY <1>2, <1>3, <1>4, <1>5 DEF Next

LEMMA Invariance == Spec => []IInv
BY InitIInv, StepIInv, PTL DEF Spec

\* The variables of the search keep their types.
THEOREM TypeCorrect == Spec => []TypeOK
<1>1. IInv => TypeOK
  BY DEF IInv
<1>2. QED  BY <1>1, Invariance, PTL

\* The best state is a best one of all states evaluated.
THEOREM BestIsBestHolds == Spec => []BestIsBest
<1>1. IInv => BestIsBest
  BY DEF IInv
<1>2. QED  BY <1>1, Invariance, PTL
-----------------------------------------------------------------------------
\* A verified current state is never left for an unverified one: annealing
\* does not, and a restart finds a best state because the current one is there.
THEOREM KeepsFeasibleHolds == Spec => KeepsFeasible
<1>1. IInv /\ [Next]_vars => [Verified(current) => Verified(current)']_vars
  <2> SUFFICES ASSUME IInv, Next, Verified(current) PROVE Verified(current)'
    OBVIOUS
  <2>1. CASE Iterate
    <3>1. PICK done : \E cand \in States, accepted \in BOOLEAN :
            Iteration(cand, accepted, done)
      BY <2>1 DEF Iterate, Iteration
    <3>2. PICK cand \in States, accepted \in BOOLEAN : Iteration(cand, accepted, done)
      BY <3>1
    <3>3. quality' = quality
      BY <3>2 DEF Iteration
    <3>4. CASE current' = current
      BY <3>3, <3>4 DEF Verified
    <3>5. CASE current' = cand /\ accepted
      BY <3>2, <3>3, <3>5 DEF Iteration, Decision, MayAccept, Verified
    <3>6. CASE current' = RestartState(best')
      <4>1. best /= NoState /\ Verified(best)
        BY DEF IInv, SeenSound, BestIsBest, Plans
      <4>2. cand /= NoState
        BY StatesAssumption
      <4>3. best' = best \/ (best' = cand /\ Verified(cand))
        <5>1. best' = best \/ (best' = cand /\ Improves(cand))
          <6>1. best' = IF Improves(cand) THEN cand ELSE best
            BY <3>2 DEF Iteration, Judge
          <6>2. QED  BY <6>1 DEF Improves
        <5>2. QED  BY <5>1 DEF Improves
      <4>4. current' = best'
        BY <3>6, <4>1, <4>2, <4>3 DEF RestartState
      <4>5. QED  BY <3>3, <4>1, <4>3, <4>4 DEF Verified
    <3>7. QED  BY <3>2, <3>4, <3>5, <3>6, CurrentStep
  <2>2. CASE OutOfTime
    BY <2>2 DEF OutOfTime, search, Verified
  <2>3. CASE Exhausted
    BY <2>3 DEF Exhausted, search, Verified
  <2>4. QED  BY <2>1, <2>2, <2>3 DEF Next
<1>2. QED  BY <1>1, Invariance, PTL DEF Spec, KeepsFeasible
-----------------------------------------------------------------------------
\* max of a set of naturals.
LEMMA GreatestIndex ==
  ASSUME NEW n \in Nat, NEW S \in SUBSET (1 .. n), S # {}
  PROVE  \E m \in S : \A i \in S : i <= m
<1> DEFINE T == {n - i : i \in S}
<1>1. T \in SUBSET Nat /\ T # {}
  <2>1. \A i \in S : i \in Nat /\ i <= n
    OBVIOUS
  <2>2. \A i \in S : n - i \in Nat
    BY <2>1
  <2>3. QED  BY <2>2
<1>2. \E k \in T : \A j \in T : <<j, k>> \notin OpToRel(<, Nat)
  BY <1>1, NatLessThanWellFounded, WFMin
<1>3. PICK k \in T : \A j \in T : ~(j < k)
  BY <1>1, <1>2 DEF OpToRel
<1>4. PICK m \in S : k = n - m
  BY <1>3
<1>5. \A i \in S : ~(n - i < n - m)
  BY <1>3, <1>4
<1> HIDE DEF T
<1>6. \A i \in S : i \in Nat
  OBVIOUS
<1>7. \A i \in S : ~(m < i)
  BY <1>5, <1>6
<1>8. QED  BY <1>6, <1>7

\* What best_at_budget and best_at_iteration select from an eligible part of
\* the log is its last entry, which is better than the others.
LEMMA SelectsBest ==
  ASSUME IInv, NEW A \in SUBSET Entries, A # {}
  PROVE  Select(A) \in A /\ \A f \in A : Select(A).objective <= f.objective
<1> DEFINE I == {i \in DOMAIN incumbents : incumbents[i] \in A}
<1>1. /\ DOMAIN incumbents = 1 .. Len(incumbents) /\ Len(incumbents) \in Nat
      /\ \A i \in DOMAIN incumbents : /\ incumbents[i].time \in Int
                                      /\ incumbents[i].iteration \in Int
                                      /\ incumbents[i].objective \in Int
  BY EntryTypes DEF IInv, Times
<1>2. I \in SUBSET (1 .. Len(incumbents)) /\ I # {}
  BY <1>1 DEF Entries
<1>3. PICK m \in I : \A i \in I : i <= m
  BY <1>1, <1>2, GreatestIndex
<1>4. \A i \in I : i = m \/ incumbents[m].objective < incumbents[i].objective
  BY <1>1, <1>2, <1>3 DEF IInv, LogOrdered
<1>5. \A f \in A : \E i \in I : f = incumbents[i]
  BY DEF Entries
<1>6. \A f \in A : Precedes(incumbents[m], f)
  BY <1>1, <1>3, <1>4, <1>5 DEF Precedes
<1>7. Select(A) \in A /\ \A f \in A : Precedes(Select(A), f)
  BY <1>3, <1>6 DEF Select
<1>8. \A f \in A : f.objective \in Int
  BY <1>1, <1>5
<1>9. QED  BY <1>7, <1>8 DEF Precedes

\* A cut of the log at any time shows the best plan known at that time.
THEOREM SnapshotExactHolds == Spec => []SnapshotExact
<1>1. IInv => SnapshotExact
  <2> SUFFICES ASSUME IInv, NEW b \in Times
               PROVE  LET known == {x \in Plans : x.time <= b}
                      IN  /\ AtBudget(b) = {} <=> known = {}
                          /\ \A x \in known : Select(AtBudget(b)).objective <= Value(x.state)
                          /\ known /= {} => \E x \in known :
                               Select(AtBudget(b)).objective = Value(x.state)
                          /\ FailureReason(b) = "initializer_timeout" => known = {}
    BY DEF SnapshotExact
  <2> DEFINE known == {x \in Plans : x.time <= b}
  <2>1. /\ b \in Int
        /\ \A i \in DOMAIN incumbents : incumbents[i].time \in Int
                                        /\ incumbents[i].objective \in Int
        /\ \A x \in Plans : x.time \in Int /\ Value(x.state) \in Int
    BY EntryTypes, SeenTypes, ValueTypes DEF IInv, Times
  <2>2. \A f \in AtBudget(b) : \E x \in known : f.objective = Value(x.state)
    BY DEF AtBudget, Entries, IInv, LogSound
  <2>3. \A x \in known : \E f \in AtBudget(b) : f.objective <= Value(x.state)
    BY <2>1 DEF AtBudget, Entries, IInv, LogComplete
  <2>4. \A f \in AtBudget(b) : f.objective \in Int
    BY <2>1 DEF AtBudget, Entries
  <2>5. AtBudget(b) = {} <=> known = {}
    BY <2>2, <2>3
  <2>6. AtBudget(b) # {} =>
          /\ Select(AtBudget(b)) \in AtBudget(b)
          /\ \A f \in AtBudget(b) : Select(AtBudget(b)).objective <= f.objective
    BY SelectsBest DEF AtBudget
  <2>7. \A x \in known : Select(AtBudget(b)).objective <= Value(x.state)
    BY <2>1, <2>3, <2>4, <2>6
  <2>8. known /= {} => \E x \in known : Select(AtBudget(b)).objective = Value(x.state)
    BY <2>2, <2>5, <2>6
  <2>9. FailureReason(b) = "initializer_timeout" => known = {}
    <3>1. FailureReason(b) = "initializer_timeout" => ready > b
      BY DEF FailureReason
    <3>2. \A x \in Plans : ready <= x.time
      BY SeenTypes DEF IInv, SeenSound
    <3>3. ready \in Int
      BY DEF IInv, TypeOK, Times
    <3>4. QED  BY <2>1, <3>1, <3>2, <3>3
  <2>10. QED  BY <2>5, <2>7, <2>8, <2>9
<1>2. QED  BY <1>1, Invariance, PTL
-----------------------------------------------------------------------------
\* The log a reader of the trace sees, as the mapping of AlnsSearch writes it.
Entry(f) == [time |-> f.time, objective |-> f.objective]
View == [i \in DOMAIN incumbents |-> Entry(incumbents[i])]

\* A sequence that is viewed entry by entry grows as the sequence does.
LEMMA ViewAppend ==
  ASSUME NEW S, NEW s \in Seq(S), NEW e,
         NEW v, v = [i \in DOMAIN s |-> Entry(s[i])],
         NEW w, w = [i \in DOMAIN Append(s, e) |-> Entry(Append(s, e)[i])]
  PROVE  w = Append(v, Entry(e)) /\ DOMAIN v = DOMAIN s
<1>1. /\ Len(s) \in Nat /\ DOMAIN s = 1 .. Len(s)
      /\ DOMAIN Append(s, e) = 1 .. Len(s) + 1
      /\ \A i \in 1 .. Len(s) : Append(s, e)[i] = s[i]
      /\ Append(s, e)[Len(s) + 1] = e
  OBVIOUS
<1> DEFINE T == {Entry(s[i]) : i \in DOMAIN s}
<1>2. v \in [1 .. Len(s) -> T]
  BY <1>1
<1>3. v \in Seq(T) /\ Len(v) = Len(s)
  BY <1>1, <1>2
<1>4. /\ Append(v, Entry(e)) = [i \in 1 .. Len(s) + 1 |->
                                  IF i = Len(s) + 1 THEN Entry(e) ELSE v[i]]
  BY <1>1, <1>3
<1>5. w = [i \in 1 .. Len(s) + 1 |-> Entry(Append(s, e)[i])]
  BY <1>1
<1>6. \A i \in 1 .. Len(s) + 1 :
        Entry(Append(s, e)[i]) = IF i = Len(s) + 1 THEN Entry(e) ELSE v[i]
  BY <1>1
<1>7. QED  BY <1>1, <1>4, <1>5, <1>6

\* The incumbents are a log of strict improvements in time order.
THEOREM RefinesLogHolds == Spec => RefinesLog
<1>1. Init => Log!Init
  <2> SUFFICES ASSUME Init PROVE Log!Init
    OBVIOUS
  <2>1. CASE incumbents = <<>>
    <3>1. [i \in DOMAIN incumbents |->
             [time |-> incumbents[i].time, objective |-> incumbents[i].objective]] = <<>>
      BY <2>1
    <3>2. QED  BY <3>1 DEF Log!Init
  <2>2. CASE incumbents = <<Incumbent(0, ready, InitialState)>>
    <3> DEFINE e == [time |-> ready, objective |-> Value(InitialState)]
    <3>1. e \in Log!Entries
      BY StatesAssumption, ValueTypes, InitIInv DEF Log!Entries, Init, IInv
    <3>2. DOMAIN incumbents = 1 .. 1 /\ incumbents[1] = Incumbent(0, ready, InitialState)
      BY <2>2
    <3>3. Entry(incumbents[1]) = e
      BY <3>2 DEF Incumbent, Entry
    <3> HIDE DEF e
    <3>4. [i \in DOMAIN incumbents |-> Entry(incumbents[i])] = <<e>>
      BY <3>2, <3>3
    <3>5. QED  BY <3>1, <3>4 DEF Log!Init, Entry
  <2>3. QED  BY <2>1, <2>2 DEF Init, StartSearch
<1>2. IInv /\ [Next]_vars => [Log!Next]_View
  <2> SUFFICES ASSUME IInv, Next PROVE Log!Next \/ View' = View
    BY DEF vars, View
  <2>1. CASE Iterate
    <3>1. PICK head \in Later(clock) :
            \E done \in Later(head), cand \in States, accepted \in BOOLEAN :
              Iteration(cand, accepted, done)
      BY <2>1 DEF Iterate, Iteration
    <3>2. clock \in Times /\ head \in Times /\ clock <= head
      BY LaterReading DEF IInv, TypeOK
    <3>3. PICK done \in Later(head), cand \in States, accepted \in BOOLEAN :
            Iteration(cand, accepted, done)
      BY <3>1
    <3>4. done \in Times /\ clock <= done /\ done \in Int /\ clock \in Int
      BY <3>2, LaterReading DEF Times
    <3>5. CASE ~Improves(cand)
      BY <3>3, <3>4, <3>5, LogStep DEF IInv, View
    <3>6. CASE Improves(cand)
      <4> DEFINE f == Incumbent(Len(steps) + 1, done, cand)
      <4> DEFINE e == Entry(f)
      <4>1. incumbents' = Append(incumbents, f)
        BY <3>3, <3>4, <3>6, LogStep DEF IInv
      <4>2. e \in Log!Entries /\ e.time = done /\ e.objective = Value(cand)
        BY <3>4, ValueTypes DEF IInv, Entry, Incumbent, Log!Entries
      <4>3. \A i \in DOMAIN incumbents :
              /\ incumbents[i].time <= done
              /\ Value(cand) < incumbents[i].objective
        <5>1. \A i \in DOMAIN incumbents : incumbents[i].time <= clock
              /\ incumbents[i].time \in Int /\ incumbents[i].objective \in Int
          BY EntryTypes, SeenTypes DEF IInv, LogSound, SeenSound, Times
        <5>2. \A i \in DOMAIN incumbents : Value(cand) < Value(best)
              /\ Value(best) <= incumbents[i].objective
              /\ Value(cand) \in Int /\ Value(best) \in Int
          BY <3>6, ValueTypes DEF IInv, LogSound, Improves, TypeOK
        <5>3. QED  BY <3>4, <5>1, <5>2
      <4>4. View' = Append(View, e) /\ DOMAIN View = DOMAIN incumbents
        <5>1. incumbents \in Seq([iteration : Nat, time : Times, objective : Values])
          BY DEF IInv, TypeOK
        <5>2. View' = [i \in DOMAIN incumbents' |-> Entry(incumbents'[i])]
          BY DEF View
        <5> HIDE DEF e, f
        <5>3. View' = [i \in DOMAIN Append(incumbents, f) |-> Entry(Append(incumbents, f)[i])]
          BY <4>1, <5>2
        <5>4. QED  BY <5>1, <5>3, ViewAppend DEF View, e
      <4>5. \A i \in DOMAIN View : View[i].time = incumbents[i].time
                                   /\ View[i].objective = incumbents[i].objective
        BY DEF View, Entry
      <4> HIDE DEF e, f
      <4>6. Log!Record(e)
        BY <4>2, <4>3, <4>4, <4>5 DEF Log!Record, View, Entry
      <4>7. QED  BY <4>2, <4>6 DEF Log!Next, Log!Record
    <3>7. QED  BY <3>5, <3>6
  <2>2. CASE OutOfTime
    BY <2>2 DEF OutOfTime, trace, View
  <2>3. CASE Exhausted
    BY <2>3 DEF Exhausted, trace, View
  <2>4. QED  BY <2>1, <2>2, <2>3 DEF Next
<1>3. QED  BY <1>1, <1>2, Invariance, PTL DEF Spec, RefinesLog, Log!Spec, View, Entry

\* best_at_budget has no ties to break: the entries it may use are a prefix of
\* the log, and the last of them is strictly better than the others.
THEOREM CutEndsInBestHolds == Spec => []Log!CutEndsInBest
<1>1. IInv => Log!CutEndsInBest
  <2> SUFFICES ASSUME IInv, NEW b \in Times,
                      NEW j \in Log!Eligible(b), NEW i \in DOMAIN View, i < j
               PROVE  i \in Log!Eligible(b) /\ View[j].objective < View[i].objective
    BY DEF Log!CutEndsInBest, Log!Eligible, View, Entry
  <2>1. /\ j \in DOMAIN incumbents /\ incumbents[j].time <= b
        /\ i \in DOMAIN incumbents
    BY DEF Log!Eligible, View, Entry
  <2>2. /\ incumbents[i].time <= incumbents[j].time
        /\ incumbents[j].objective < incumbents[i].objective
    BY <2>1 DEF IInv, LogOrdered
  <2>3. incumbents[i].time \in Int /\ incumbents[j].time \in Int /\ b \in Int
    BY <2>1, EntryTypes DEF IInv, Times
  <2>4. incumbents[i].time <= b
    BY <2>1, <2>2, <2>3
  <2>5. QED  BY <2>1, <2>2, <2>4 DEF Log!Eligible, View, Entry
<1>2. QED  BY <1>1, Invariance, PTL
=============================================================================
