----------------------------- MODULE RepairLoop -----------------------------
(***************************************************************************)
(* Destroy and repair: a set of atomic units is taken out of a state and   *)
(* put back one at a time, by repair_destroyed_state (engine v1), by       *)
(* repair_destroyed_state_v2 or its protocol R twin _repair_impl (engine   *)
(* v2).  One step is one round of the loop.  Ranks, regrets and hashes     *)
(* only decide which evaluated insertion is taken, so any of them may be.  *)
(***************************************************************************)
EXTENDS Naturals, FiniteSets, SequencesExt

CONSTANTS Units, Robots,   \* naturals, in the order of the code's lists
          Starts,          \* states to repair: robot_orders
          Configs          \* [engine, cap, timed, amount]

\* Units are indices, no state lists one twice on a robot, and a ratio asks for
\* a number of them.
StartsAssumption ==
  /\ Units \subseteq Nat /\ IsFiniteSet(Units)
  /\ \A start \in Starts : \A r \in Robots : start[r] \in Seq(Units) /\ IsInjective(start[r])
  /\ \A c \in Configs : c.amount \in Nat

VARIABLES config,
          mask,         \* per unit, the robots of finite cost
          kept,         \* the state to repair
          destroyed,    \* the units to take out
          orders,       \* the state being rebuilt
          remaining,    \* the destroyed units that are not back yet
          evaluations,
          cut,          \* budget_exhausted or deadline_exhausted
          late,         \* the clock has passed the deadline
          verdict

input == <<config, mask, kept, destroyed>>
loop == <<orders, remaining, evaluations, cut>>
vars == <<input, loop, late, verdict>>
-----------------------------------------------------------------------------
\* select_destroy_set: distinct atomic units, as many as the ratio asks for.
DestroySets(amount) ==
  {s \in [1..amount -> Units] : IsInjective(s)}

\* What the code's remove leaves: the k-th of the units that stay is k-th.
Without(order, units) ==
  LET stay == {i \in DOMAIN order : order[i] \notin units}
  IN  [k \in 1..Cardinality(stay) |->
         order[CHOOSE i \in stay : Cardinality({j \in stay : j < i}) = k - 1]]

Init ==
  /\ config \in Configs
  /\ mask \in [Units -> SUBSET Robots]
  /\ kept \in Starts
  /\ destroyed \in DestroySets(config.amount)
  /\ orders = [r \in Robots |-> Without(kept[r], Range(destroyed))]
  /\ remaining = destroyed
  /\ evaluations = 0 /\ cut = FALSE /\ late = FALSE
  /\ verdict = "running"
-----------------------------------------------------------------------------
\* Where v1 looks for a place (_candidate_positions); v2 tries every place.
Positions(length) ==
  IF config.engine = "v1" THEN {0, length \div 2, length} ELSE 0..length

Insertions(unit) ==
  {[unit |-> unit, robot |-> r, place |-> p] :
     r \in mask[unit], p \in 0..Cardinality(Units)}

\* The candidates of a round, and the first k of them in the order of the
\* three loops over units, robots and positions.
Candidates ==
  {c \in UNION {Insertions(u) : u \in Range(remaining)} :
     c.place \in Positions(Len(orders[c.robot]))}

At(unit) == CHOOSE i \in DOMAIN remaining : remaining[i] = unit

Before(c, d) ==
  \/ At(c.unit) < At(d.unit)
  \/ c.unit = d.unit /\ c.robot < d.robot
  \/ c.unit = d.unit /\ c.robot = d.robot /\ c.place < d.place

First(k) == {c \in Candidates : Cardinality({d \in Candidates : Before(d, c)}) < k}

\* Mutant of Insert: the unit takes the place of the one that was there.
Overwrite(c) ==
  /\ orders' = [orders EXCEPT ![c.robot] =
       SubSeq(@, 1, c.place) \o <<c.unit>> \o SubSeq(@, c.place + 2, Len(@))]
  /\ remaining' = Without(remaining, {c.unit})

Insert(c) ==
  /\ orders' = [orders EXCEPT ![c.robot] = InsertAt(@, c.place + 1, c.unit)]
  /\ remaining' = Without(remaining, {c.unit})

Running == verdict = "running" /\ remaining # <<>>

\* Mutant of HeadCut: the budget is only looked at among the candidates.
HeadCutByClock == config.engine = "v2" /\ late

\* v2 looks at budget and clock at the head of the loop as well, and gives up
\* ranking for good once either is exhausted.
HeadCut == config.engine = "v2" /\ (cut \/ late \/ evaluations >= config.cap)

\* The candidates are evaluated until all are, the budget is reached, or the
\* deadline passes; what has been ranked by then is used.  Without a
\* candidate v2 goes round again, and v1 appends the least unit.
Round ==
  /\ Running /\ ~HeadCut
  /\ \E n \in {Cardinality(Candidates)} : \E k \in 0..n :
       /\ evaluations + k <= config.cap
       /\ \/ k = n /\ UNCHANGED <<cut, late>>
          \/ k < n /\ evaluations + k = config.cap /\ cut' = TRUE /\ UNCHANGED late
          \/ k < n /\ config.engine = "v2" /\ config.timed /\ cut' = TRUE /\ late' = TRUE
       /\ evaluations' = evaluations + k
       /\ IF k = 0
          THEN config.engine = "v2" /\ UNCHANGED <<orders, remaining>>
          ELSE \E c \in First(k) : Insert(c)
  /\ UNCHANGED <<input, verdict>>

Least == Min(Range(remaining))

\* _fallback_insert: the least unit at its best place, whatever that costs.
FallbackInsert ==
  /\ Running /\ HeadCut
  /\ \E c \in Insertions(Least) : c.place <= Len(orders[c.robot]) /\ Insert(c)
  /\ cut' = TRUE
  /\ UNCHANGED <<input, evaluations, late, verdict>>

\* v1 falls back when a round evaluates nothing.
NoRound ==
  config.engine = "v1" /\ (Candidates = {} \/ evaluations >= config.cap)

\* The fallback of v1: at the end of the order of the cheapest robot.
FallbackAppend ==
  /\ Running /\ NoRound
  /\ \E r \in mask[Least] :
       Insert([unit |-> Least, robot |-> r, place |-> Len(orders[r])])
  /\ cut' = (cut \/ Candidates # {})
  /\ UNCHANGED <<input, evaluations, late, verdict>>

\* Either fallback raises when no robot can take the unit.
FallbackFails ==
  /\ Running
  /\ HeadCut \/ NoRound
  /\ mask[Least] = {}
  /\ verdict' = "error"
  /\ UNCHANGED <<input, loop, late>>

Return ==
  /\ verdict = "running" /\ remaining = <<>>
  /\ verdict' = "repaired"
  /\ UNCHANGED <<input, loop, late>>

\* Time passes.
DeadlinePasses ==
  /\ verdict = "running" /\ config.timed /\ ~late
  /\ late' = TRUE
  /\ UNCHANGED <<input, loop, verdict>>

Loop == Round \/ FallbackInsert \/ FallbackAppend \/ FallbackFails \/ Return
Next == Loop \/ DeadlinePasses

Spec == Init /\ [][Next]_vars /\ WF_vars(Loop) /\ WF_vars(DeadlinePasses)
-----------------------------------------------------------------------------
\* The unit is on one robot, which can take it.
Settled(u) == \E q \in mask[u] : \A r \in Robots : Contains(orders[r], u) <=> r = q

\* A repair moves nothing it did not take out: what remained keeps its robot
\* and its order, and every destroyed unit is back, on one robot that may run it.
\* Canonicalisation and insertion each rewrite all orders; a unit lost or
\* doubled by a cut round would go unnoticed until the plan is rebuilt.
RepairIsLocal ==
  verdict = "repaired" =>
    /\ \A r \in Robots :
         /\ Without(orders[r], Range(destroyed)) = Without(kept[r], Range(destroyed))
         /\ IsInjective(orders[r])
    /\ \A u \in Range(destroyed) : Settled(u)

\* At every round the units still out are on no robot, and the others back.
IInv ==
  /\ mask \in [Units -> SUBSET Robots]
  /\ destroyed \in Seq(Units) /\ remaining \in Seq(Units)
  /\ orders \in [Robots -> Seq(Units)]
  /\ Range(remaining) \subseteq Range(destroyed)
  /\ \A r \in Robots :
       /\ Without(orders[r], Range(destroyed)) = Without(kept[r], Range(destroyed))
       /\ IsInjective(orders[r])
       /\ \A u \in Range(remaining) : ~ Contains(orders[r], u)
  /\ \A u \in Range(destroyed) \ Range(remaining) : Settled(u)
  /\ verdict = "repaired" => remaining = <<>>

\* The loop ends: always when there is a deadline, and without one when every
\* unit has a robot.  (The candidate budget alone does not end it: a round
\* without candidates spends none.)
MayEnd ==
  config.timed \/ config.engine = "v1" \/ \A u \in Range(destroyed) : mask[u] # {}
Ended == verdict # "running"
RepairEnds == MayEnd ~> Ended
=============================================================================
