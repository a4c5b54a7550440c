--------------------------- MODULE AllocationLemmas ---------------------------
(***************************************************************************)
(* Facts about the shared operators of AllocationModel that the proofs of  *)
(* the components rest on: the least and greatest elements the code's min  *)
(* and max return exist, a finite set can be put in order, occupancy is a  *)
(* finite count, and sampling it at the event times is as good as looking  *)
(* at every instant.                                                       *)
(***************************************************************************)
EXTENDS PlanVerifier, FiniteSetTheorems, WellFoundedInduction, TLAPS

\* The instants before n, as the invariants enumerate them.
LEMMA Before == \A n \in Nat : \A u \in 0 .. n - 1 : u \in Nat /\ u < n /\ ~ (n <= u)
OBVIOUS

\* min(S) exists: every non-empty set of naturals has a least element.
LEMMA LeastNatural ==
  ASSUME NEW S \in SUBSET Nat, S # {}
  PROVE  \E m \in S : \A n \in S : m <= n
<1>1. \E m \in S : \A n \in S : <<n, m>> \notin OpToRel(<, Nat)
  BY NatLessThanWellFounded, WFMin
<1>2. \A m, n \in Nat : <<n, m>> \notin OpToRel(<, Nat) => m <= n
  BY DEF OpToRel
<1>3. QED  BY <1>1, <1>2

\* max(S) exists when S is bounded.
LEMMA GreatestNatural ==
  ASSUME NEW S \in SUBSET Nat, S # {}, NEW b \in Nat, \A n \in S : n <= b
  PROVE  \E m \in S : \A n \in S : n <= m
<1> DEFINE T == {b - n : n \in S}
<1>1. T \in SUBSET Nat /\ T # {}
  <2>1. \A n \in S : n \in Nat /\ n <= b
    OBVIOUS
  <2>2. \A n \in S : b - n \in Nat
    BY <2>1
  <2>3. QED  BY <2>2
<1>2. PICK k \in T : \A j \in T : k <= j
  BY <1>1, LeastNatural
<1>3. PICK m \in S : k = b - m
  BY <1>2
<1>4. \A n \in S : b - m <= b - n
  BY <1>2, <1>3
<1>5. \A n \in S : n <= m
  BY <1>4
<1>6. QED  BY <1>5

\* The members of S that come before x.
Smaller(S, x) == {y \in S : y < x}

LEMMA SmallerCount ==
  ASSUME NEW S \in SUBSET Nat, IsFiniteSet(S), NEW x \in S, NEW y \in S, x < y
  PROVE  /\ Cardinality(Smaller(S, x)) \in Nat /\ Cardinality(Smaller(S, y)) \in Nat
         /\ Cardinality(Smaller(S, x)) < Cardinality(Smaller(S, y))
<1>1. Smaller(S, x) \cup {x} \subseteq Smaller(S, y) /\ x \notin Smaller(S, x)
  <2>1. \A z \in S : z \in Nat
    OBVIOUS
  <2>2. \A z \in S : z < x => z < y
    BY <2>1
  <2>3. ~ (x < x)
    BY <2>1
  <2>4. QED  BY <2>2, <2>3 DEF Smaller
<1>2. Smaller(S, x) \subseteq S /\ Smaller(S, y) \subseteq S
  BY DEF Smaller
<1>3. /\ IsFiniteSet(Smaller(S, x)) /\ IsFiniteSet(Smaller(S, y))
      /\ Cardinality(Smaller(S, x)) \in Nat /\ Cardinality(Smaller(S, y)) \in Nat
  BY <1>2, FS_Subset, FS_CardinalityType
<1>4. Cardinality(Smaller(S, x) \cup {x}) = Cardinality(Smaller(S, x)) + 1
  BY <1>1, <1>3, FS_AddElement
<1>5. Cardinality(Smaller(S, x) \cup {x}) <= Cardinality(Smaller(S, y))
  BY <1>1, <1>3, FS_Subset
<1>6. QED  BY <1>3, <1>4, <1>5

\* Each member of a finite set of naturals has a place of its own, and each place
\* is taken.
LEMMA Places ==
  ASSUME NEW S \in SUBSET Nat, IsFiniteSet(S)
  PROVE  /\ Cardinality(S) \in Nat
         /\ \A x \in S : Cardinality(Smaller(S, x)) \in 0 .. Cardinality(S) - 1
         /\ \A x, y \in S : Cardinality(Smaller(S, x)) = Cardinality(Smaller(S, y)) => x = y
         /\ \A k \in 1 .. Cardinality(S) :
              \E x \in S : Cardinality(Smaller(S, x)) = k - 1
<1> DEFINE n == Cardinality(S)
           rank == [x \in S |-> Cardinality(Smaller(S, x))]
<1>1. n \in Nat /\ IsFiniteSet(0 .. n - 1) /\ Cardinality(0 .. n - 1) = n
  <2>1. n \in Nat
    BY FS_CardinalityType
  <2> HIDE DEF n
  <2>2. 0 \in Int /\ n - 1 \in Int /\ (0 > n - 1 => n = 0)
    BY <2>1
  <2>3. IsFiniteSet(0 .. n - 1)
        /\ Cardinality(0 .. n - 1) = IF 0 > n - 1 THEN 0 ELSE n - 1 - 0 + 1
    BY <2>2, FS_Interval
  <2>4. QED  BY <2>1, <2>2, <2>3
<1>2. \A x \in S : Cardinality(Smaller(S, x)) \in 0 .. n - 1
  <2> SUFFICES ASSUME NEW x \in S PROVE Cardinality(Smaller(S, x)) \in 0 .. n - 1
    OBVIOUS
  <2>1. x \notin Smaller(S, x) /\ Smaller(S, x) \cup {x} \subseteq S
        /\ Smaller(S, x) \subseteq S
    BY DEF Smaller
  <2>2. IsFiniteSet(Smaller(S, x)) /\ Cardinality(Smaller(S, x)) \in Nat
    BY <2>1, FS_Subset, FS_CardinalityType
  <2>3. Cardinality(Smaller(S, x) \cup {x}) = Cardinality(Smaller(S, x)) + 1
    BY <2>1, <2>2, FS_AddElement
  <2>4. Cardinality(Smaller(S, x) \cup {x}) <= n
    BY <2>1, FS_Subset
  <2>5. QED  BY <1>1, <2>2, <2>3, <2>4
<1>3. \A x, y \in S : Cardinality(Smaller(S, x)) = Cardinality(Smaller(S, y)) => x = y
  <2> SUFFICES ASSUME NEW x \in S, NEW y \in S, x # y,
                      Cardinality(Smaller(S, x)) = Cardinality(Smaller(S, y))
               PROVE  FALSE
    OBVIOUS
  <2>1. x < y \/ y < x
    OBVIOUS
  <2>2. CASE x < y
    BY <2>2, SmallerCount
  <2>3. CASE y < x
    BY <2>3, SmallerCount
  <2>4. QED  BY <2>1, <2>2, <2>3
<1>4. rank \in Surjection(S, 0 .. n - 1)
  <2>1. rank \in [S -> 0 .. n - 1]
    BY <1>2
  <2>2. rank \in Injection(S, 0 .. n - 1)
    BY <2>1, <1>3 DEF Injection, IsInjective
  <2>3. QED  BY <1>1, <2>2, FS_Injection
<1>5. \A k \in 1 .. n : \E x \in S : rank[x] = k - 1
  <2> SUFFICES ASSUME NEW k \in 1 .. n PROVE \E x \in S : rank[x] = k - 1
    OBVIOUS
  <2>1. k - 1 \in 0 .. n - 1
    BY <1>1
  <2>2. QED  BY <1>4, <2>1 DEF Surjection
<1>6. QED  BY <1>1, <1>2, <1>3, <1>5

\* The image of a finite set is finite.
LEMMA FiniteImage ==
  ASSUME NEW f, IsFiniteSet(DOMAIN f)
  PROVE  IsFiniteSet({f[x] : x \in DOMAIN f})
<1> DEFINE g == [x \in DOMAIN f |-> f[x]]
           T == {f[x] : x \in DOMAIN f}
<1>1. g \in Surjection(DOMAIN f, T)
  BY DEF Surjection
<1>2. QED  BY <1>1, FS_Surjection

\* The parts of a placed item the resource rules look at.
Spanned(p) ==
  /\ DOMAIN p \subseteq Segments
  /\ \A x \in DOMAIN p : p[x].start \in Nat /\ p[x].end \in Nat

\* The number of holders active at an instant is a natural number, and a
\* smaller set of holders counts no more.
LEMMA ActiveCount ==
  ASSUME NEW I, NEW p, Spanned(p), NEW q, NEW u
  PROVE  /\ IsFiniteSet(ActiveAt(I, p, q, u))
         /\ Cardinality(ActiveAt(I, p, q, u)) \in Nat
         /\ \A A \in SUBSET ActiveAt(I, p, q, u) :
              /\ IsFiniteSet(A)
              /\ Cardinality(A) \in Nat
              /\ Cardinality(A) <= Cardinality(ActiveAt(I, p, q, u))
<1>1. ActiveAt(I, p, q, u) \in SUBSET Segments
  BY DEF ActiveAt, Holders, Spanned
<1>2. IsFiniteSet(ActiveAt(I, p, q, u))
  BY <1>1, SegmentsAssumption, FS_Subset
<1>3. QED  BY <1>2, FS_Subset, FS_CardinalityType

\* Occupancy only rises when a span starts: whoever is active at an instant of
\* [t, t + d) is already active at some event time before it.
LEMMA LastEvent ==
  ASSUME NEW I, NEW p, Spanned(p), NEW q, NEW t \in Nat, NEW d \in Nat,
         NEW u \in Nat, t <= u, u < t + d
  PROVE  \E e \in EventTimes(I, p, q, t, d) :
           ActiveAt(I, p, q, u) \subseteq ActiveAt(I, p, q, e)
<1> DEFINE E == {e \in EventTimes(I, p, q, t, d) : e <= u}
<1>1. EventTimes(I, p, q, t, d) \subseteq Nat
  BY DEF EventTimes, Holders, Spanned
<1>2. E \in SUBSET Nat /\ E # {} /\ \A e \in E : e <= u
  <2>1. t \in E
    BY DEF EventTimes
  <2>2. QED  BY <2>1, <1>1
<1>3. PICK e \in E : \A x \in E : x <= e
  BY <1>2, GreatestNatural
<1>4. ASSUME NEW x \in ActiveAt(I, p, q, u)
      PROVE  x \in ActiveAt(I, p, q, e)
  <2>1. x \in Holders(I, p, q) /\ p[x].start <= u /\ u < p[x].end
    BY <1>4 DEF ActiveAt
  <2>2. p[x].start \in Nat /\ p[x].end \in Nat
    BY <2>1 DEF Holders, Spanned
  <2>3. p[x].start <= e
    <3>1. CASE p[x].start <= t
      <4>1. t \in E
        BY DEF EventTimes
      <4>2. t <= e /\ e \in Nat
        BY <4>1, <1>3, <1>2
      <4>3. QED  BY <3>1, <4>2, <2>2
    <3>2. CASE t < p[x].start
      <4>1. p[x].start \in E
        BY <3>2, <2>1, <2>2 DEF EventTimes
      <4>2. QED  BY <4>1, <1>3
    <3>3. QED  BY <3>1, <3>2, <2>2
  <2>4. e \in Nat /\ e <= u
    BY <1>2
  <2>5. QED  BY <2>1, <2>2, <2>3, <2>4 DEF ActiveAt
<1>5. QED  BY <1>3, <1>4

\* The sampled test is exact: a start that passes it leaves room for one more
\* holder at every instant of the span.
LEMMA SampledRoom ==
  ASSUME NEW I, NEW p, Spanned(p), NEW q, NEW t \in Nat, NEW d \in Nat,
         I.cap[q] \in Nat, ~ Overloaded(I, p, q, t, d),
         NEW u \in Nat, t <= u, u < t + d
  PROVE  Cardinality(ActiveAt(I, p, q, u)) + 1 <= I.cap[q]
<1>1. PICK e \in EventTimes(I, p, q, t, d) :
        ActiveAt(I, p, q, u) \subseteq ActiveAt(I, p, q, e)
  BY LastEvent
<1>2. ~ (Cardinality(ActiveAt(I, p, q, e)) + 1 > I.cap[q])
  BY <1>1 DEF Overloaded
<1>3. /\ Cardinality(ActiveAt(I, p, q, u)) \in Nat
      /\ Cardinality(ActiveAt(I, p, q, e)) \in Nat
      /\ Cardinality(ActiveAt(I, p, q, u)) <= Cardinality(ActiveAt(I, p, q, e))
  BY <1>1, ActiveCount
<1>4. QED  BY <1>2, <1>3

-----------------------------------------------------------------------------
\* The types of the ingredients of an instance.
LEMMA InstanceTypes ==
  ASSUME NEW I \in Instances
  PROVE  /\ \A s \in Segments :
              /\ I.dur[s] \in Nat /\ I.dur[s] > 0
              /\ I.opens[s] \in Nat /\ I.closes[s] \in Nat
              /\ I.from[s] \in Points /\ I.to[s] \in Points
              /\ I.uses[s] \subseteq Resources
              /\ I.pred[s] \subseteq Segments
         /\ \A r \in Robots :
              I.base[r] \in Points /\ I.on[r] \in Nat /\ I.off[r] \in Nat /\ I.pace[r] \in Nat
         /\ \A q \in Resources :
              I.cap[q] \in Nat /\ I.free[q] \in Nat /\ I.shut[q] \in Nat
         /\ I.on \in [Robots -> Nat] /\ I.base \in [Robots -> Points]
<1>1. I \in InstanceType /\ ValidInstance(I)
  BY InstancesAssumption
<1>2. QED  BY <1>1 DEF InstanceType, ValidInstance

\* A tool position stays a tool position, and an approach takes a natural time.
LEMMA MotionTypes ==
  ASSUME NEW I \in Instances, NEW s \in Segments, NEW r \in Robots, NEW p \in Points
  PROVE  Approach(I, r, s, p) \in Nat /\ ExitPoint(I, s, p) \in Points
<1>1. I.from[s] \in Points /\ I.to[s] \in Points /\ I.pace[r] \in Nat
  BY InstanceTypes
<1>2. Entry(I, s, p) \in Points /\ ExitPoint(I, s, p) \in Points
  BY <1>1 DEF Entry, ExitPoint
<1>3. Distance(p, Entry(I, s, p)) \in Nat
  BY <1>2, DistanceAssumption
<1>4. QED  BY <1>1, <1>2, <1>3 DEF Approach

LEMMA DepsTypes ==
  ASSUME NEW I \in Instances, NEW s \in Segments
  PROVE  Deps(I, s) \subseteq Segments /\ s \notin Deps(I, s)
<1>1. I \in InstanceType /\ ValidInstance(I)
  BY InstancesAssumption
<1>2. I.index[s] \in Nat /\ I.pred[s] \subseteq Segments /\ s \notin I.pred[s]
  BY <1>1 DEF InstanceType, ValidInstance
<1>3. QED  BY <1>2 DEF Deps, ParentPrevious, SameCurve

\* A segment whose dependencies are placed can only start at a natural time.
LEMMA NaturalStart ==
  ASSUME NEW I \in Instances, NEW s \in Segments, NEW r \in Robots, NEW p,
         \A x \in DOMAIN p : p[x].end \in Nat, Deps(I, s) \subseteq DOMAIN p,
         NEW ready \in Nat, NEW source \in Points,
         NEW t \in StartChoices(I, p, s, r, ready, source)
  PROVE  t \in Nat
<1>1. /\ I.opens[s] \in Nat /\ I.on[r] \in Nat
      /\ \A q \in I.uses[s] : I.free[q] \in Nat
  BY InstanceTypes
<1>2. ready + Approach(I, r, s, source) \in Nat
  BY MotionTypes
<1>3. LowerBounds(I, p, s, r, ready, source) \subseteq Nat
  BY <1>1, <1>2 DEF LowerBounds
<1>4. QED  BY <1>3 DEF StartChoices

\* Room only shrinks: what fits beside the items of pp fits beside fewer of them.
LEMMA FitsShrinks ==
  ASSUME NEW I \in Instances, NEW p, NEW pp, Spanned(pp),
         DOMAIN p \subseteq DOMAIN pp, \A x \in DOMAIN p : pp[x] = p[x],
         NEW s \in Segments, NEW t, Fits(I, pp, s, t)
  PROVE  Fits(I, p, s, t)
<1> SUFFICES ASSUME NEW q \in I.uses[s], NEW u \in EventTimes(I, p, q, t, I.dur[s])
             PROVE  ~ (Cardinality(ActiveAt(I, p, q, u)) + 1 > I.cap[q])
  BY DEF Fits, Overloaded
<1>1. u \in EventTimes(I, pp, q, t, I.dur[s])
  BY DEF EventTimes, Holders
<1>2. ActiveAt(I, p, q, u) \in SUBSET ActiveAt(I, pp, q, u)
  BY DEF ActiveAt, Holders
<1>3. /\ Cardinality(ActiveAt(I, pp, q, u)) \in Nat
      /\ Cardinality(ActiveAt(I, p, q, u)) \in Nat
      /\ Cardinality(ActiveAt(I, p, q, u)) <= Cardinality(ActiveAt(I, pp, q, u))
  BY <1>2, ActiveCount
<1>4. ~ (Cardinality(ActiveAt(I, pp, q, u)) + 1 > I.cap[q])
  BY <1>1 DEF Fits, Overloaded
<1>5. I.cap[q] \in Nat
  BY InstanceTypes
<1>6. QED  BY <1>3, <1>4, <1>5

\* Between a choice and the next one nothing changes for the better: whatever has
\* room at an instant u has room at the last choice before it.
LEMMA RoomAtChoice ==
  ASSUME NEW I \in Instances, NEW p, Spanned(p), NEW s \in Segments,
         NEW LB \in SUBSET Nat, LB # {},
         NEW u \in Nat, \A b \in LB : b <= u, Fits(I, p, s, u)
  PROVE  \E c \in LB \cup {p[x].end : x \in DOMAIN p} :
           c \in Nat /\ c <= u /\ (\A b \in LB : b <= c) /\ Fits(I, p, s, c)
<1> DEFINE choices == LB \cup {p[x].end : x \in DOMAIN p}
           C == {c \in choices : c <= u}
<1>1. choices \in SUBSET Nat
  BY DEF Spanned
<1>2. C \in SUBSET Nat /\ C # {} /\ LB \subseteq C /\ \A c \in C : c <= u
  BY <1>1
<1>3. PICK c \in C : \A x \in C : x <= c
  BY <1>2, GreatestNatural
<1>4. c \in Nat /\ c <= u /\ c \in choices
  BY <1>1
<1>5. \A x \in DOMAIN p : p[x].start \in Nat /\ p[x].end \in Nat
                          /\ (c < p[x].end => u < p[x].end)
  <2> SUFFICES ASSUME NEW x \in DOMAIN p, c < p[x].end, ~ (u < p[x].end)
               PROVE  FALSE
    BY DEF Spanned
  <2>1. p[x].end \in Nat
    BY DEF Spanned
  <2>2. p[x].end \in C
    BY <2>1
  <2>3. QED  BY <2>1, <2>2, <1>3, <1>4
<1>6. Fits(I, p, s, c)
  <2> SUFFICES ASSUME NEW q \in I.uses[s], NEW e \in EventTimes(I, p, q, c, I.dur[s])
               PROVE  ~ (Cardinality(ActiveAt(I, p, q, e)) + 1 > I.cap[q])
    BY DEF Fits, Overloaded
  <2>1. I.dur[s] \in Nat /\ I.dur[s] > 0 /\ I.cap[q] \in Nat
    BY InstanceTypes
  <2>2. \A v \in EventTimes(I, p, q, u, I.dur[s]) :
          ~ (Cardinality(ActiveAt(I, p, q, v)) + 1 > I.cap[q])
    BY DEF Fits, Overloaded
  <2>3. e \in Nat /\ c <= e /\ e < c + I.dur[s]
    BY <1>4, <1>5, <2>1 DEF EventTimes, Holders
  <2>4. CASE e <= u
    <3>1. ActiveAt(I, p, q, e) \in SUBSET ActiveAt(I, p, q, u)
      <4> SUFFICES ASSUME NEW x \in ActiveAt(I, p, q, e) PROVE x \in ActiveAt(I, p, q, u)
        OBVIOUS
      <4>1. x \in Holders(I, p, q) /\ p[x].start <= e /\ e < p[x].end
        BY DEF ActiveAt
      <4>2. p[x].start \in Nat /\ p[x].end \in Nat /\ (c < p[x].end => u < p[x].end)
        BY <4>1, <1>5 DEF Holders
      <4>3. p[x].start <= u /\ u < p[x].end
        BY <4>1, <4>2, <2>3, <2>4, <1>4
      <4>4. QED  BY <4>1, <4>3 DEF ActiveAt
    <3>2. u \in EventTimes(I, p, q, u, I.dur[s])
      BY DEF EventTimes
    <3>3. /\ Cardinality(ActiveAt(I, p, q, u)) \in Nat
          /\ Cardinality(ActiveAt(I, p, q, e)) \in Nat
          /\ Cardinality(ActiveAt(I, p, q, e)) <= Cardinality(ActiveAt(I, p, q, u))
      BY <3>1, ActiveCount
    <3>4. QED  BY <2>1, <2>2, <3>2, <3>3
  <2>5. CASE u < e
    <3>1. e # c /\ e < u + I.dur[s]
      BY <2>1, <2>3, <2>5, <1>4
    <3>2. e \in EventTimes(I, p, q, u, I.dur[s])
      BY <3>1, <2>5 DEF EventTimes
    <3>3. QED  BY <3>2, <2>2
  <2>6. QED  BY <2>3, <2>4, <2>5
<1>7. \A b \in LB : b <= c
  BY <1>2, <1>3
<1>8. QED  BY <1>4, <1>6, <1>7

\* Hence the earliest of the choices is the earliest of all instants.
LEMMA EarliestOfAll ==
  ASSUME NEW I \in Instances, NEW p, Spanned(p), NEW s \in Segments,
         NEW LB \in SUBSET Nat, LB # {}, NEW t, IsEarliest(I, p, s, LB, t),
         NEW u \in Nat, \A b \in LB : b <= u, Fits(I, p, s, u)
  PROVE  t <= u
<1> DEFINE choices == LB \cup {p[x].end : x \in DOMAIN p}
<1>1. choices \in SUBSET Nat
  BY DEF Spanned
<1>2. PICK c \in choices :
        c \in Nat /\ c <= u /\ (\A b \in LB : b <= c) /\ Fits(I, p, s, c)
  BY RoomAtChoice
<1>3. t \in choices /\ t <= c
  BY <1>2 DEF IsEarliest
<1>4. QED  BY <1>1, <1>2, <1>3

\* And there is an earliest choice as soon as some instant has room.
LEMMA EarliestExists ==
  ASSUME NEW I \in Instances, NEW p, Spanned(p), NEW s \in Segments,
         NEW LB \in SUBSET Nat, LB # {},
         NEW u \in Nat, \A b \in LB : b <= u, Fits(I, p, s, u)
  PROVE  \E t \in LB \cup {p[x].end : x \in DOMAIN p} : IsEarliest(I, p, s, LB, t)
<1> DEFINE choices == LB \cup {p[x].end : x \in DOMAIN p}
           open == {c \in choices : (\A b \in LB : b <= c) /\ Fits(I, p, s, c)}
<1>1. open \in SUBSET Nat /\ open # {}
  <2>1. choices \in SUBSET Nat
    BY DEF Spanned
  <2>2. open # {}
    BY RoomAtChoice
  <2>3. QED  BY <2>1, <2>2
<1>2. PICK t \in open : \A c \in open : t <= c
  BY <1>1, LeastNatural
<1>3. IsEarliest(I, p, s, LB, t)
  BY <1>2 DEF IsEarliest
<1>4. QED  BY <1>2, <1>3

\* The bounds of a segment whose dependencies are placed are naturals.
LEMMA NaturalBounds ==
  ASSUME NEW I \in Instances, NEW s \in Segments, NEW r \in Robots, NEW p,
         \A x \in DOMAIN p : p[x].end \in Nat, Deps(I, s) \subseteq DOMAIN p,
         NEW ready \in Nat, NEW source \in Points
  PROVE  /\ LowerBounds(I, p, s, r, ready, source) \in SUBSET Nat
         /\ LowerBounds(I, p, s, r, ready, source) # {}
<1>1. /\ I.opens[s] \in Nat /\ I.on[r] \in Nat
      /\ \A q \in I.uses[s] : I.free[q] \in Nat
  BY InstanceTypes
<1>2. ready + Approach(I, r, s, source) \in Nat
  BY MotionTypes
<1>3. QED  BY <1>1, <1>2 DEF LowerBounds
-----------------------------------------------------------------------------
(***************************************************************************)
(* What a dispatch preserves, whoever chooses the segment.  A search state *)
(* N holds the partial schedule N.plan and the running totals of each      *)
(* robot, N.lastEnd, N.lastExit and N.count (scheduled, robot_last_end,    *)
(* robot_last_exit and the length of robot_orders in the code); A is the   *)
(* robot of each segment.  Sound says what the totals remember about the   *)
(* items and what each item satisfied when it was placed: the constraints  *)
(* of the verifier follow from it, and are not inductive without it.       *)
(***************************************************************************)

\* What each item satisfied on its own when it was placed.
ItemsSound(I, A, N) ==
  \A x \in DOMAIN N.plan :
    /\ N.plan[x].robot = A[x]
    /\ N.plan[x].end = N.plan[x].start + I.dur[x]
    /\ I.opens[x] <= N.plan[x].start
    /\ I.on[A[x]] <= N.plan[x].start
    /\ \A q \in I.uses[x] : I.free[q] <= N.plan[x].start
    /\ InTime(I, x, A[x], N.plan[x].end)

\* The scheduled set is closed under dependencies, and none is overtaken.
DepsSound(I, N) ==
  \A x \in DOMAIN N.plan : \A d \in Deps(I, x) :
    d \in DOMAIN N.plan /\ N.plan[d].end <= N.plan[x].start

\* Indices of a robot count up from 0 without gap or repetition.
IndicesSound(N) ==
  \A x \in DOMAIN N.plan :
    /\ N.plan[x].index < N.count[N.plan[x].robot]
    /\ N.plan[x].index # 0 => \E p \in DOMAIN N.plan :
         N.plan[p].robot = N.plan[x].robot /\ N.plan[p].index = N.plan[x].index - 1
    /\ \A y \in DOMAIN N.plan :
         N.plan[y].robot = N.plan[x].robot /\ N.plan[y].index = N.plan[x].index => y = x

\* The totals of a robot are those of its last item, or of its base.
TotalsSound(I, N) ==
  \A r \in Robots :
    /\ N.count[r] = 0 => N.lastEnd[r] = I.on[r] /\ N.lastExit[r] = I.base[r]
    /\ N.count[r] # 0 => \E x \in DOMAIN N.plan :
         N.plan[x].robot = r /\ N.plan[x].index = N.count[r] - 1
    /\ \A x \in DOMAIN N.plan : N.plan[x].robot = r =>
         /\ N.plan[x].end <= N.lastEnd[r]
         /\ N.plan[x].index = N.count[r] - 1 =>
              N.lastEnd[r] = N.plan[x].end /\ N.lastExit[r] = N.plan[x].exit

\* The recorded exits are the tool path, and every approach had its time.
ChainSound(I, N) ==
  \A b \in DOMAIN N.plan :
    LET r == N.plan[b].robot
    IN  /\ N.plan[b].index = 0 =>
             /\ N.plan[b].exit = ExitPoint(I, b, I.base[r])
             /\ I.on[r] + Approach(I, r, b, I.base[r]) <= N.plan[b].start
        /\ \A a \in DOMAIN N.plan :
             N.plan[a].robot = r /\ N.plan[a].index = N.plan[b].index - 1 =>
               /\ N.plan[b].exit = ExitPoint(I, b, N.plan[a].exit)
               /\ N.plan[a].end + Approach(I, r, b, N.plan[a].exit) <= N.plan[b].start

\* Items of a robot are disjoint in time and ordered by index.
OrderSound(N) ==
  \A a, b \in DOMAIN N.plan :
    N.plan[a].robot = N.plan[b].robot /\ N.plan[a].index < N.plan[b].index =>
      N.plan[a].end <= N.plan[b].start

RoomSound(I, N) ==
  \A q \in Resources, u \in Nat : Cardinality(ActiveAt(I, N.plan, q, u)) <= I.cap[q]

\* The fields of a search state have their types.
Typed(I, A, N) ==
  /\ A \in [Segments -> Robots]
  /\ DOMAIN N.plan \subseteq Segments
  /\ N.plan \in [DOMAIN N.plan -> ItemType]
  /\ N.lastEnd \in [Robots -> Nat]
  /\ N.lastExit \in [Robots -> Points]
  /\ N.count \in [Robots -> Nat]

Sound(I, A, N) ==
  /\ Typed(I, A, N)
  /\ I \in Instances
  /\ ItemsSound(I, A, N)
  /\ DepsSound(I, N)
  /\ IndicesSound(N)
  /\ TotalsSound(I, N)
  /\ ChainSound(I, N)
  /\ OrderSound(N)
  /\ RoomSound(I, N)
-----------------------------------------------------------------------------
\* M is N with s dispatched at t, after the checks a dispatch makes.
Placed(I, A, N, s, t, M) ==
  LET r == A[s]
  IN  /\ s \notin DOMAIN N.plan /\ r \in Robots
      /\ DOMAIN M.plan = DOMAIN N.plan \cup {s}
      /\ \A x \in DOMAIN N.plan : M.plan[x] = N.plan[x]
      /\ M.plan \in [DOMAIN M.plan -> ItemType]
      /\ M.plan[s].robot = r
      /\ M.plan[s].index = N.count[r]
      /\ M.plan[s].start = t
      /\ M.plan[s].end = t + I.dur[s]
      /\ M.plan[s].exit = ExitPoint(I, s, N.lastExit[r])
      /\ M.lastEnd = [N.lastEnd EXCEPT ![r] = t + I.dur[s]]
      /\ M.lastExit = [N.lastExit EXCEPT ![r] = ExitPoint(I, s, N.lastExit[r])]
      /\ M.count = [N.count EXCEPT ![r] = @ + 1]
      /\ \A d \in Deps(I, s) : d \in DOMAIN N.plan /\ N.plan[d].end <= t
      /\ I.opens[s] <= t /\ I.on[r] <= t
      /\ N.lastEnd[r] + Approach(I, r, s, N.lastExit[r]) <= t
      /\ \A q \in I.uses[s] : I.free[q] <= t
      /\ InTime(I, s, r, t + I.dur[s])
      /\ Fits(I, N.plan, s, t)

LEMMA DispatchPlaces ==
  ASSUME NEW I, NEW A, NEW N, NEW M, Sound(I, A, N), NEW s \in Segments, Ready(I, N.plan, s),
         NEW r, r = A[s],
         NEW t \in StartChoices(I, N.plan, s, r, N.lastEnd[r], N.lastExit[r]),
         EarliestOn(I, N.plan, s, r, N.lastEnd[r], N.lastExit[r], t),
         InTime(I, s, r, t + I.dur[s]),
         M.plan = Extend(N.plan, s, Item(I, s, r, N.count[r], t, N.lastExit[r])),
         M.lastEnd = [N.lastEnd EXCEPT ![r] = t + I.dur[s]],
         M.lastExit = [N.lastExit EXCEPT ![r] = ExitPoint(I, s, N.lastExit[r])],
         M.count = [N.count EXCEPT ![r] = @ + 1]
  PROVE  t \in Nat /\ Placed(I, A, N, s, t, M)
<1>1. /\ I \in Instances /\ r \in Robots
      /\ N.lastEnd[r] \in Nat /\ N.lastExit[r] \in Points /\ N.count[r] \in Nat
      /\ DOMAIN N.plan \subseteq Segments /\ N.plan \in [DOMAIN N.plan -> ItemType]
  BY DEF Sound, Typed
<1>2. /\ I.dur[s] \in Nat /\ I.opens[s] \in Nat /\ I.on[r] \in Nat
      /\ \A q \in I.uses[s] : I.free[q] \in Nat
  BY <1>1, InstanceTypes
<1>3. Approach(I, r, s, N.lastExit[r]) \in Nat /\ ExitPoint(I, s, N.lastExit[r]) \in Points
  BY <1>1, MotionTypes
<1>6. \A x \in DOMAIN N.plan : N.plan[x].end \in Nat /\ N.plan[x].start \in Nat
  BY <1>1 DEF ItemType
<1>7. Deps(I, s) \subseteq DOMAIN N.plan /\ s \notin DOMAIN N.plan
  BY DEF Ready
<1>8. /\ \A b \in LowerBounds(I, N.plan, s, r, N.lastEnd[r], N.lastExit[r]) : b <= t
      /\ Fits(I, N.plan, s, t)
  BY DEF EarliestOn, IsEarliest
<1>10. t \in Nat
  BY <1>1, <1>6, <1>7, NaturalStart
<1>11. /\ I.opens[s] <= t /\ I.on[r] <= t
       /\ N.lastEnd[r] + Approach(I, r, s, N.lastExit[r]) <= t
       /\ \A q \in I.uses[s] : I.free[q] <= t
       /\ \A d \in Deps(I, s) : d \in DOMAIN N.plan /\ N.plan[d].end <= t
  BY <1>8, <1>7 DEF LowerBounds
<1> DEFINE item == Item(I, s, r, N.count[r], t, N.lastExit[r])
<1>12. /\ item \in ItemType
       /\ item.robot = r /\ item.index = N.count[r] /\ item.start = t
       /\ item.end = t + I.dur[s] /\ item.exit = ExitPoint(I, s, N.lastExit[r])
  BY <1>1, <1>2, <1>3, <1>10 DEF Item, ItemType
<1>13. M.plan = Extend(N.plan, s, item)
  OBVIOUS
<1>14. /\ DOMAIN M.plan = DOMAIN N.plan \cup {s} /\ M.plan[s] = item
       /\ \A x \in DOMAIN N.plan : M.plan[x] = N.plan[x]
       /\ M.plan \in [DOMAIN M.plan -> ItemType]
  <2>1. DOMAIN M.plan = DOMAIN N.plan \cup {s}
    BY <1>13 DEF Extend
  <2>2. M.plan[s] = item /\ \A x \in DOMAIN N.plan : M.plan[x] = N.plan[x]
    BY <1>13, <1>7 DEF Extend
  <2>3. M.plan \in [DOMAIN N.plan \cup {s} -> ItemType]
    BY <1>13, <1>12, <1>1 DEF Extend
  <2>4. QED  BY <2>1, <2>2, <2>3
<1> HIDE DEF item
<1>15. QED
  BY <1>1, <1>7, <1>8, <1>10, <1>11, <1>12, <1>14 DEF Placed
-----------------------------------------------------------------------------
\* Nothing is placed yet: the search state every construction starts from.
LEMMA StartSound ==
  ASSUME NEW I \in Instances, NEW A \in [Segments -> Robots], NEW N, N.plan = EmptyPlan,
         N.lastEnd = I.on, N.lastExit = I.base, N.count = [r \in Robots |-> 0]
  PROVE  Sound(I, A, N)
<1>1. /\ I \in Instances /\ I \in InstanceType /\ A \in [Segments -> Robots]
      /\ DOMAIN N.plan = {} /\ N.plan = [x \in {} |-> 0]
      /\ N.lastEnd = I.on /\ N.lastExit = I.base /\ N.count = [r \in Robots |-> 0]
  BY InstancesAssumption DEF EmptyPlan
<1>2. N.lastEnd \in [Robots -> Nat] /\ N.lastExit \in [Robots -> Points]
  BY <1>1, InstanceTypes
<1>3. Typed(I, A, N)
  <2>1. N.plan \in [DOMAIN N.plan -> ItemType]
    BY <1>1
  <2>2. QED  BY <1>1, <1>2, <2>1 DEF Typed
<1>4. RoomSound(I, N)
  <2> SUFFICES ASSUME NEW q \in Resources, NEW u \in Nat
               PROVE  Cardinality(ActiveAt(I, N.plan, q, u)) <= I.cap[q]
    BY DEF RoomSound
  <2>1. ActiveAt(I, N.plan, q, u) = {}
    BY <1>1 DEF ActiveAt, Holders
  <2>2. I.cap[q] \in Nat
    BY <1>1, InstanceTypes
  <2>3. QED  BY <2>1, <2>2, FS_EmptySet
<1>5. ItemsSound(I, A, N) /\ DepsSound(I, N) /\ IndicesSound(N) /\ ChainSound(I, N) /\ OrderSound(N)
  BY <1>1 DEF ItemsSound, DepsSound, IndicesSound, ChainSound, OrderSound
<1>6. TotalsSound(I, N)
  BY <1>1 DEF TotalsSound
<1>7. QED  BY <1>1, <1>3, <1>4, <1>5, <1>6 DEF Sound

LEMMA StepTyped ==
  ASSUME NEW I, NEW A, NEW N, NEW M, Sound(I, A, N), NEW s \in Segments, NEW t \in Nat,
         Placed(I, A, N, s, t, M)
  PROVE  Typed(I, A, M)
<1>1. Typed(I, A, N) /\ I \in Instances
  BY DEF Sound
<1>2. ExitPoint(I, s, N.lastExit[A[s]]) \in Points /\ I.dur[s] \in Nat
  BY <1>1, MotionTypes, InstanceTypes DEF Typed
<1>3. QED
  BY <1>1, <1>2 DEF Typed, Placed

LEMMA StepItems ==
  ASSUME NEW I, NEW A, NEW N, NEW M, Sound(I, A, N), NEW s \in Segments, NEW t \in Nat,
         Placed(I, A, N, s, t, M)
  PROVE  ItemsSound(I, A, M)
BY DEF Sound, Placed, ItemsSound

LEMMA StepDeps ==
  ASSUME NEW I, NEW A, NEW N, NEW M, Sound(I, A, N), NEW s \in Segments, NEW t \in Nat,
         Placed(I, A, N, s, t, M)
  PROVE  DepsSound(I, M)
BY DEF Sound, Placed, DepsSound

\* The parts about indices and totals, for the items that were there before.
LEMMA Bookkeeping ==
  ASSUME NEW I, NEW A, NEW N, Sound(I, A, N)
  PROVE  /\ \A x \in DOMAIN N.plan :
              /\ N.plan[x].robot \in Robots /\ N.plan[x].index \in Nat
              /\ N.plan[x].start \in Nat /\ N.plan[x].end \in Nat /\ N.plan[x].exit \in Points
         /\ \A r \in Robots : N.count[r] \in Nat /\ N.lastEnd[r] \in Nat /\ N.lastExit[r] \in Points
BY DEF Sound, Typed, ItemType

LEMMA StepIndices ==
  ASSUME NEW I, NEW A, NEW N, NEW M, Sound(I, A, N), NEW s \in Segments, NEW t \in Nat,
         Placed(I, A, N, s, t, M)
  PROVE  IndicesSound(M)
<1> DEFINE r == A[s]
<1>1. IndicesSound(N) /\ TotalsSound(I, N)
  BY DEF Sound
<1>2. /\ r \in Robots /\ M.count = [N.count EXCEPT ![r] = @ + 1] /\ N.count \in [Robots -> Nat]
      /\ DOMAIN M.plan = DOMAIN N.plan \cup {s} /\ s \notin DOMAIN N.plan
      /\ \A x \in DOMAIN N.plan : M.plan[x] = N.plan[x]
      /\ M.plan[s].robot = r /\ M.plan[s].index = N.count[r]
  BY DEF Placed, Sound, Typed
<1>3. \A x \in DOMAIN N.plan :
        N.plan[x].robot \in Robots /\ N.plan[x].index \in Nat /\ N.plan[x].index < N.count[N.plan[x].robot]
  BY <1>1, Bookkeeping DEF IndicesSound
<1>4. \A x \in DOMAIN N.plan : N.plan[x].robot = r => N.plan[x].index < N.count[r]
  BY <1>3
<1>5. ASSUME NEW x \in DOMAIN M.plan
      PROVE  M.plan[x].index < M.count[M.plan[x].robot]
  BY <1>2, <1>3
<1>6. ASSUME NEW x \in DOMAIN M.plan, M.plan[x].index # 0
      PROVE  \E p \in DOMAIN M.plan :
               M.plan[p].robot = M.plan[x].robot /\ M.plan[p].index = M.plan[x].index - 1
  <2>1. CASE x = s
    <3>1. PICK p \in DOMAIN N.plan : N.plan[p].robot = r /\ N.plan[p].index = N.count[r] - 1
      BY <2>1, <1>1, <1>2, <1>6 DEF TotalsSound
    <3>2. QED  BY <3>1, <2>1, <1>2
  <2>2. CASE x \in DOMAIN N.plan
    BY <2>2, <1>1, <1>2, <1>6 DEF IndicesSound
  <2>3. QED  BY <2>1, <2>2, <1>2
<1>7. ASSUME NEW x \in DOMAIN M.plan, NEW y \in DOMAIN M.plan,
             M.plan[y].robot = M.plan[x].robot, M.plan[y].index = M.plan[x].index
      PROVE  y = x
  <2>1. CASE x = s /\ y \in DOMAIN N.plan
    BY <2>1, <1>2, <1>3, <1>4, <1>7
  <2>2. CASE y = s /\ x \in DOMAIN N.plan
    BY <2>2, <1>2, <1>3, <1>4, <1>7
  <2>3. CASE x \in DOMAIN N.plan /\ y \in DOMAIN N.plan
    BY <2>3, <1>1, <1>2, <1>7 DEF IndicesSound
  <2>4. QED  BY <2>1, <2>2, <2>3, <1>2
<1>8. QED  BY <1>5, <1>6, <1>7 DEF IndicesSound

LEMMA StepTotals ==
  ASSUME NEW I, NEW A, NEW N, NEW M, Sound(I, A, N), NEW s \in Segments, NEW t \in Nat,
         Placed(I, A, N, s, t, M)
  PROVE  TotalsSound(I, M)
<1> DEFINE r == A[s]
<1>1. TotalsSound(I, N) /\ IndicesSound(N)
  BY DEF Sound
<1>2. /\ r \in Robots
      /\ M.count = [N.count EXCEPT ![r] = @ + 1] /\ N.count \in [Robots -> Nat]
      /\ M.lastEnd = [N.lastEnd EXCEPT ![r] = t + I.dur[s]] /\ N.lastEnd \in [Robots -> Nat]
      /\ M.lastExit = [N.lastExit EXCEPT ![r] = M.plan[s].exit] /\ N.lastExit \in [Robots -> Points]
      /\ DOMAIN M.plan = DOMAIN N.plan \cup {s} /\ s \notin DOMAIN N.plan
      /\ \A x \in DOMAIN N.plan : M.plan[x] = N.plan[x]
      /\ M.plan[s].robot = r /\ M.plan[s].index = N.count[r] /\ M.plan[s].end = t + I.dur[s]
  BY DEF Placed, Sound, Typed
<1>3. N.lastEnd[r] <= t + I.dur[s] /\ I.dur[s] \in Nat
  <2>1. Approach(I, r, s, N.lastExit[r]) \in Nat /\ I.dur[s] \in Nat
    BY <1>2, MotionTypes, InstanceTypes DEF Sound
  <2>2. N.lastEnd[r] + Approach(I, r, s, N.lastExit[r]) <= t
    BY DEF Placed
  <2>3. QED  BY <2>1, <2>2, <1>2
<1>4. \A x \in DOMAIN N.plan :
        /\ N.plan[x].robot \in Robots /\ N.plan[x].index \in Nat /\ N.plan[x].end \in Nat
        /\ N.plan[x].index < N.count[N.plan[x].robot]
  BY <1>1, Bookkeeping DEF IndicesSound
<1>5. ASSUME NEW v \in Robots
      PROVE  /\ M.count[v] = 0 => M.lastEnd[v] = I.on[v] /\ M.lastExit[v] = I.base[v]
             /\ M.count[v] # 0 => \E x \in DOMAIN M.plan :
                  M.plan[x].robot = v /\ M.plan[x].index = M.count[v] - 1
             /\ \A x \in DOMAIN M.plan : M.plan[x].robot = v =>
                  /\ M.plan[x].end <= M.lastEnd[v]
                  /\ M.plan[x].index = M.count[v] - 1 =>
                       M.lastEnd[v] = M.plan[x].end /\ M.lastExit[v] = M.plan[x].exit
  <2>1. CASE v = r
    <3>1. M.count[v] = N.count[r] + 1 /\ M.lastEnd[v] = M.plan[s].end /\ M.lastExit[v] = M.plan[s].exit
      BY <2>1, <1>2
    <3>2. M.count[v] # 0 /\ M.count[v] - 1 = M.plan[s].index
      BY <3>1, <1>2
    <3>3. ASSUME NEW x \in DOMAIN N.plan, N.plan[x].robot = r
          PROVE  N.plan[x].end <= M.lastEnd[v] /\ N.plan[x].index # M.count[v] - 1
      <4>1. N.plan[x].end <= N.lastEnd[r]
        BY <1>1, <1>2, <3>3 DEF TotalsSound
      <4>2. N.plan[x].index < N.count[r]
        BY <1>4, <3>3
      <4>3. QED  BY <4>1, <4>2, <3>1, <1>2, <1>3, <1>4
    <3>4. M.plan[s].end <= M.lastEnd[v]
      BY <3>1, <1>2, <1>3
    <3>5. QED  BY <3>1, <3>2, <3>3, <3>4, <2>1, <1>2
  <2>2. CASE v # r
    <3>1. M.count[v] = N.count[v] /\ M.lastEnd[v] = N.lastEnd[v] /\ M.lastExit[v] = N.lastExit[v]
      BY <2>2, <1>2
    <3>2. \A x \in DOMAIN M.plan : M.plan[x].robot = v => x \in DOMAIN N.plan
      BY <2>2, <1>2
    <3>3. QED  BY <3>1, <3>2, <1>1, <1>2 DEF TotalsSound
  <2>3. QED  BY <2>1, <2>2
<1>6. QED  BY <1>5 DEF TotalsSound

LEMMA StepChain ==
  ASSUME NEW I, NEW A, NEW N, NEW M, Sound(I, A, N), NEW s \in Segments, NEW t \in Nat,
         Placed(I, A, N, s, t, M)
  PROVE  ChainSound(I, M)
<1> DEFINE r == A[s]
<1>1. ChainSound(I, N) /\ TotalsSound(I, N) /\ IndicesSound(N)
  BY DEF Sound
<1>2. /\ r \in Robots /\ N.count[r] \in Nat
      /\ DOMAIN M.plan = DOMAIN N.plan \cup {s} /\ s \notin DOMAIN N.plan
      /\ \A x \in DOMAIN N.plan : M.plan[x] = N.plan[x]
      /\ M.plan[s].robot = r /\ M.plan[s].index = N.count[r] /\ M.plan[s].start = t
      /\ M.plan[s].exit = ExitPoint(I, s, N.lastExit[r])
      /\ N.lastEnd[r] + Approach(I, r, s, N.lastExit[r]) <= t
  BY DEF Placed, Sound, Typed
<1>3. \A x \in DOMAIN N.plan :
        /\ N.plan[x].robot \in Robots /\ N.plan[x].index \in Nat
        /\ N.plan[x].index < N.count[N.plan[x].robot]
  BY <1>1, Bookkeeping DEF IndicesSound
<1>4. ASSUME NEW b \in DOMAIN M.plan, M.plan[b].index = 0
      PROVE  /\ M.plan[b].exit = ExitPoint(I, b, I.base[M.plan[b].robot])
             /\ I.on[M.plan[b].robot]
                  + Approach(I, M.plan[b].robot, b, I.base[M.plan[b].robot])
                  <= M.plan[b].start
  <2>1. CASE b = s
    <3>1. N.lastEnd[r] = I.on[r] /\ N.lastExit[r] = I.base[r]
      BY <2>1, <1>1, <1>2, <1>4 DEF TotalsSound
    <3>2. QED  BY <3>1, <2>1, <1>2
  <2>2. CASE b \in DOMAIN N.plan
    BY <2>2, <1>1, <1>2, <1>4 DEF ChainSound
  <2>3. QED  BY <2>1, <2>2, <1>2
<1>5. ASSUME NEW b \in DOMAIN M.plan, NEW a \in DOMAIN M.plan,
             M.plan[a].robot = M.plan[b].robot, M.plan[a].index = M.plan[b].index - 1
      PROVE  /\ M.plan[b].exit = ExitPoint(I, b, M.plan[a].exit)
             /\ M.plan[a].end + Approach(I, M.plan[b].robot, b, M.plan[a].exit)
                  <= M.plan[b].start
  <2>1. CASE b = s
    <3>1. a \in DOMAIN N.plan
      BY <2>1, <1>2, <1>5
    <3>2. N.lastEnd[r] = N.plan[a].end /\ N.lastExit[r] = N.plan[a].exit
      BY <3>1, <2>1, <1>1, <1>2, <1>5 DEF TotalsSound
    <3>3. QED  BY <3>1, <3>2, <2>1, <1>2
  <2>2. CASE b \in DOMAIN N.plan /\ a = s
    <3>1. N.plan[b].index < N.count[r] /\ N.plan[b].index \in Nat
      BY <2>2, <1>2, <1>3, <1>5
    <3>2. N.count[r] = N.plan[b].index - 1
      BY <2>2, <1>2, <1>5
    <3>3. QED  BY <3>1, <3>2, <1>2
  <2>3. CASE b \in DOMAIN N.plan /\ a \in DOMAIN N.plan
    BY <2>3, <1>1, <1>2, <1>5 DEF ChainSound
  <2>4. QED  BY <2>1, <2>2, <2>3, <1>2
<1>6. QED  BY <1>4, <1>5, <1>2 DEF ChainSound

LEMMA StepOrder ==
  ASSUME NEW I, NEW A, NEW N, NEW M, Sound(I, A, N), NEW s \in Segments, NEW t \in Nat,
         Placed(I, A, N, s, t, M)
  PROVE  OrderSound(M)
<1> DEFINE r == A[s]
<1>1. OrderSound(N) /\ TotalsSound(I, N) /\ IndicesSound(N)
  BY DEF Sound
<1>2. /\ r \in Robots /\ N.count[r] \in Nat
      /\ DOMAIN M.plan = DOMAIN N.plan \cup {s} /\ s \notin DOMAIN N.plan
      /\ \A x \in DOMAIN N.plan : M.plan[x] = N.plan[x]
      /\ M.plan[s].robot = r /\ M.plan[s].index = N.count[r] /\ M.plan[s].start = t
      /\ N.lastEnd[r] + Approach(I, r, s, N.lastExit[r]) <= t
  BY DEF Placed, Sound, Typed
<1>3. N.lastEnd[r] \in Nat /\ N.lastEnd[r] <= t
  <2>1. Approach(I, r, s, N.lastExit[r]) \in Nat /\ N.lastEnd[r] \in Nat
    BY <1>2, MotionTypes, Bookkeeping DEF Sound
  <2>2. QED  BY <2>1, <1>2
<1>4. \A x \in DOMAIN N.plan :
        /\ N.plan[x].index \in Nat /\ N.plan[x].end \in Nat
        /\ N.plan[x].robot = r => N.plan[x].index < N.count[r] /\ N.plan[x].end <= N.lastEnd[r]
  BY <1>1, <1>2, Bookkeeping DEF IndicesSound, TotalsSound
<1>5. ASSUME NEW a \in DOMAIN M.plan, NEW b \in DOMAIN M.plan,
             M.plan[a].robot = M.plan[b].robot, M.plan[a].index < M.plan[b].index
      PROVE  M.plan[a].end <= M.plan[b].start
  <2>1. CASE a \in DOMAIN N.plan /\ b = s
    BY <2>1, <1>2, <1>3, <1>4, <1>5
  <2>2. CASE a = s /\ b \in DOMAIN N.plan
    BY <2>2, <1>2, <1>4, <1>5
  <2>3. CASE a \in DOMAIN N.plan /\ b \in DOMAIN N.plan
    BY <2>3, <1>1, <1>2, <1>5 DEF OrderSound
  <2>4. CASE a = s /\ b = s
    BY <2>4, <1>2, <1>5
  <2>5. QED  BY <2>1, <2>2, <2>3, <2>4, <1>2
<1>6. QED  BY <1>5 DEF OrderSound

\* A span placed where it fits keeps every resource within capacity, also at
\* the instants the scheduler never sampled.
LEMMA StepRoom ==
  ASSUME NEW I, NEW A, NEW N, NEW M, Sound(I, A, N), NEW s \in Segments, NEW t \in Nat,
         Placed(I, A, N, s, t, M)
  PROVE  RoomSound(I, M)
<1>1. /\ I \in Instances
      /\ DOMAIN M.plan = DOMAIN N.plan \cup {s} /\ s \notin DOMAIN N.plan
      /\ \A x \in DOMAIN N.plan : M.plan[x] = N.plan[x]
      /\ M.plan[s].start = t /\ M.plan[s].end = t + I.dur[s]
      /\ Fits(I, N.plan, s, t)
  BY DEF Placed, Sound
<1>2. I.dur[s] \in Nat /\ \A q \in Resources : I.cap[q] \in Nat
  BY <1>1, InstanceTypes
<1>3. Spanned(N.plan)
  BY Bookkeeping DEF Spanned, Sound, Typed
<1> SUFFICES ASSUME NEW q \in Resources, NEW u \in Nat
             PROVE  Cardinality(ActiveAt(I, M.plan, q, u)) <= I.cap[q]
  BY <1>1 DEF RoomSound
<1>4. Cardinality(ActiveAt(I, N.plan, q, u)) <= I.cap[q]
  BY DEF Sound, RoomSound
<1>5. CASE q \in I.uses[s] /\ t <= u /\ u < t + I.dur[s]
  <2>1. ActiveAt(I, M.plan, q, u) = ActiveAt(I, N.plan, q, u) \cup {s}
    BY <1>1, <1>5 DEF ActiveAt, Holders
  <2>2. s \notin ActiveAt(I, N.plan, q, u)
    BY <1>1 DEF ActiveAt, Holders
  <2>3. IsFiniteSet(ActiveAt(I, N.plan, q, u))
    BY <1>3, ActiveCount
  <2>4. Cardinality(ActiveAt(I, M.plan, q, u)) = Cardinality(ActiveAt(I, N.plan, q, u)) + 1
    BY <2>1, <2>2, <2>3, FS_AddElement
  <2>5. ~ Overloaded(I, N.plan, q, t, I.dur[s])
    BY <1>1, <1>5 DEF Fits
  <2>6. Cardinality(ActiveAt(I, N.plan, q, u)) + 1 <= I.cap[q]
    BY <2>5, <1>2, <1>3, <1>5, SampledRoom
  <2>7. QED  BY <2>4, <2>6
<1>6. CASE ~ (q \in I.uses[s] /\ t <= u /\ u < t + I.dur[s])
  <2>1. ActiveAt(I, M.plan, q, u) = ActiveAt(I, N.plan, q, u)
    BY <1>1, <1>6 DEF ActiveAt, Holders
  <2>2. QED  BY <2>1, <1>4
<1>7. QED  BY <1>5, <1>6

\* A dispatch leads from a sound search state to a sound one.
LEMMA StepSound ==
  ASSUME NEW I, NEW A, NEW N, NEW M, Sound(I, A, N), NEW s \in Segments, NEW t \in Nat,
         Placed(I, A, N, s, t, M)
  PROVE  Sound(I, A, M)
<1>1. Typed(I, A, M) /\ I \in Instances
  BY StepTyped DEF Sound
<1>2. ItemsSound(I, A, M) /\ DepsSound(I, M) /\ IndicesSound(M) /\ TotalsSound(I, M)
  BY StepItems, StepDeps, StepIndices, StepTotals
<1>3. ChainSound(I, M) /\ OrderSound(M) /\ RoomSound(I, M)
  BY StepChain, StepOrder, StepRoom
<1>4. QED  BY <1>1, <1>2, <1>3 DEF Sound
-----------------------------------------------------------------------------
\* The verifier's order of the items of a robot is the order of the indices.
LEMMA VerifierOrder ==
  ASSUME NEW I, NEW A, NEW N, Sound(I, A, N), NEW a \in DOMAIN N.plan, NEW b \in DOMAIN N.plan
  PROVE  /\ OrderedBefore(N.plan, a, b) <=>
              N.plan[a].robot = N.plan[b].robot /\ N.plan[a].index < N.plan[b].index
         /\ Follows(N.plan, a, b) =>
              N.plan[a].robot = N.plan[b].robot /\ N.plan[a].index = N.plan[b].index - 1
         /\ First(N.plan, b) => N.plan[b].index = 0
<1>1. \A x, y \in DOMAIN N.plan :
        OrderedBefore(N.plan, x, y) <=>
          N.plan[x].robot = N.plan[y].robot /\ N.plan[x].index < N.plan[y].index
  <2> SUFFICES ASSUME NEW x \in DOMAIN N.plan, NEW y \in DOMAIN N.plan
               PROVE  OrderedBefore(N.plan, x, y) <=>
                        N.plan[x].robot = N.plan[y].robot /\ N.plan[x].index < N.plan[y].index
    OBVIOUS
  <2>1. x \in Nat /\ y \in Nat
    BY SegmentsAssumption DEF Sound, Typed
  <2>2. N.plan[y].robot = N.plan[x].robot /\ N.plan[y].index = N.plan[x].index => y = x
    BY DEF Sound, IndicesSound
  <2>3. QED  BY <2>1, <2>2 DEF OrderedBefore
<1>2. \A x \in DOMAIN N.plan : N.plan[x].index \in Nat
  BY Bookkeeping
<1>3. N.plan[b].index # 0 => \E p \in DOMAIN N.plan :
        N.plan[p].robot = N.plan[b].robot /\ N.plan[p].index = N.plan[b].index - 1
  BY DEF Sound, IndicesSound
<1>4. ASSUME First(N.plan, b) PROVE N.plan[b].index = 0
  <2> SUFFICES ASSUME N.plan[b].index # 0 PROVE FALSE
    OBVIOUS
  <2>1. PICK p \in DOMAIN N.plan :
          N.plan[p].robot = N.plan[b].robot /\ N.plan[p].index = N.plan[b].index - 1
    BY <1>3
  <2>2. OrderedBefore(N.plan, p, b)
    BY <2>1, <1>1, <1>2
  <2>3. QED  BY <2>2, <1>4 DEF First
<1>5. ASSUME Follows(N.plan, a, b)
      PROVE  N.plan[a].robot = N.plan[b].robot /\ N.plan[a].index = N.plan[b].index - 1
  <2>1. N.plan[a].robot = N.plan[b].robot /\ N.plan[a].index < N.plan[b].index
    BY <1>1, <1>5 DEF Follows
  <2>2. PICK p \in DOMAIN N.plan :
          N.plan[p].robot = N.plan[b].robot /\ N.plan[p].index = N.plan[b].index - 1
    BY <2>1, <1>2, <1>3
  <2>3. OrderedBefore(N.plan, p, b)
    BY <2>2, <1>1, <1>2
  <2>4. ~ OrderedBefore(N.plan, a, p)
    BY <2>3, <1>5 DEF Follows
  <2>5. ~ (N.plan[a].index < N.plan[p].index)
    BY <2>1, <2>2, <2>4, <1>1
  <2>6. QED  BY <2>1, <2>2, <2>5, <1>2
<1>6. QED  BY <1>1, <1>4, <1>5

\* The verifier finds the tool path the tree recorded, and its transitions fit.
LEMMA PathSound ==
  ASSUME NEW I, NEW A, NEW N, Sound(I, A, N)
  PROVE  RobotTransitionTime(I, N.plan)
<1> DEFINE path == [x \in DOMAIN N.plan |-> N.plan[x].exit]
<1>1. path \in [DOMAIN N.plan -> Points]
  BY Bookkeeping
<1>2. ASSUME NEW b \in DOMAIN N.plan, First(N.plan, b)
      PROVE  /\ N.plan[b].exit = ExitPoint(I, b, I.base[N.plan[b].robot])
             /\ I.on[N.plan[b].robot]
                  + Approach(I, N.plan[b].robot, b, I.base[N.plan[b].robot])
                  <= N.plan[b].start
  <2>1. N.plan[b].index = 0
    BY <1>2, VerifierOrder
  <2>2. QED  BY <2>1 DEF Sound, ChainSound
<1>3. ASSUME NEW b \in DOMAIN N.plan, NEW a \in DOMAIN N.plan, Follows(N.plan, a, b)
      PROVE  /\ N.plan[b].exit = ExitPoint(I, b, N.plan[a].exit)
             /\ N.plan[a].end + Approach(I, N.plan[b].robot, b, N.plan[a].exit)
                  <= N.plan[b].start
  <2>1. N.plan[a].robot = N.plan[b].robot /\ N.plan[a].index = N.plan[b].index - 1
    BY <1>3, VerifierOrder
  <2>2. QED  BY <2>1 DEF Sound, ChainSound
<1>4. ToolPath(I, N.plan, path)
  BY <1>2, <1>3 DEF ToolPath
<1>5. QED  BY <1>1, <1>2, <1>3, <1>4 DEF RobotTransitionTime

\* Order of indices, times and ends on one robot.
LEMMA RobotsSound ==
  ASSUME NEW I, NEW A, NEW N, Sound(I, A, N)
  PROVE  RobotOrderIndex(N.plan) /\ RobotOrderTime(N.plan) /\ RobotOverlap(N.plan)
<1>1. \A x \in DOMAIN N.plan :
        N.plan[x].index \in Nat /\ N.plan[x].start \in Nat /\ N.plan[x].end \in Nat
  BY Bookkeeping
<1>2. RobotOrderIndex(N.plan)
  BY <1>1 DEF Sound, IndicesSound, RobotOrderIndex
<1>3. \A a, b \in DOMAIN N.plan :
        OrderedBefore(N.plan, a, b) => N.plan[a].end <= N.plan[b].start
  BY VerifierOrder DEF Sound, OrderSound
<1>4. \A a \in DOMAIN N.plan : N.plan[a].start < N.plan[a].end
  <2> SUFFICES ASSUME NEW a \in DOMAIN N.plan PROVE N.plan[a].start < N.plan[a].end
    OBVIOUS
  <2>1. I.dur[a] \in Nat /\ I.dur[a] > 0
    BY InstanceTypes DEF Sound, Typed
  <2>2. N.plan[a].end = N.plan[a].start + I.dur[a]
    BY DEF Sound, ItemsSound
  <2>3. QED  BY <2>1, <2>2, <1>1
<1>5. RobotOrderTime(N.plan)
  <2> SUFFICES ASSUME NEW a \in DOMAIN N.plan, NEW b \in DOMAIN N.plan,
                      OrderedBefore(N.plan, a, b)
               PROVE  N.plan[a].start < N.plan[b].start
    BY DEF RobotOrderTime
  <2>1. N.plan[a].end <= N.plan[b].start /\ N.plan[a].start < N.plan[a].end
    BY <1>3, <1>4
  <2>2. QED  BY <2>1, <1>1
<1>6. RobotOverlap(N.plan)
  BY <1>3 DEF RobotOverlap, Follows
<1>7. QED  BY <1>2, <1>5, <1>6

LEMMA ItemsClean ==
  ASSUME NEW I, NEW A, NEW N, Sound(I, A, N)
  PROVE  /\ KnownRobot(N.plan) /\ ProcessDuration(I, N.plan)
         /\ SegmentTimeWindow(I, N.plan) /\ RobotAvailability(I, N.plan)
         /\ ResourceAvailability(I, N.plan)
<1>1. ItemsSound(I, A, N)
  BY DEF Sound
<1>2. KnownRobot(N.plan)
  BY Bookkeeping DEF KnownRobot
<1>3. ProcessDuration(I, N.plan)
  <2> SUFFICES ASSUME NEW s \in DOMAIN N.plan
               PROVE  N.plan[s].end - N.plan[s].start >= I.dur[s]
    BY DEF ProcessDuration
  <2>1. I.dur[s] \in Nat /\ N.plan[s].start \in Nat
    BY InstanceTypes, Bookkeeping DEF Sound, Typed
  <2>2. QED  BY <1>1, <2>1 DEF ItemsSound
<1>4. SegmentTimeWindow(I, N.plan) /\ RobotAvailability(I, N.plan)
  BY <1>1 DEF ItemsSound, InTime, Deadlines, SegmentTimeWindow, RobotAvailability
<1>5. ResourceAvailability(I, N.plan)
  BY <1>1 DEF ItemsSound, InTime, Deadlines, ResourceAvailability
<1>6. QED  BY <1>2, <1>3, <1>4, <1>5

\* Every timing constraint the verifier checks holds of a sound search state.
LEMMA SoundClean ==
  ASSUME NEW I, NEW A, NEW N, Sound(I, A, N)
  PROVE  TimingClean(I, N.plan)
<1>1. Precedence(I, N.plan) /\ ParentSegmentOrder(I, N.plan)
  BY DEF Sound, DepsSound, Deps, Precedence, ParentSegmentOrder
<1>2. ResourceCapacity(I, N.plan)
  <2> SUFFICES ASSUME NEW q \in Resources, NEW x \in Holders(I, N.plan, q),
                      NEW u \in {N.plan[x].start, N.plan[x].end}
               PROVE  Cardinality(ActiveAt(I, N.plan, q, u)) <= I.cap[q]
    BY DEF ResourceCapacity
  <2>1. u \in Nat
    BY Bookkeeping DEF Holders
  <2>2. QED  BY <2>1 DEF Sound, RoomSound
<1>3. QED  BY <1>1, <1>2, ItemsClean, RobotsSound, PathSound DEF TimingClean
=============================================================================
