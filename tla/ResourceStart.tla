---------------------------- MODULE ResourceStart ----------------------------
(***************************************************************************)
(* _resource_feasible_start: the loop every scheduler calls to push a      *)
(* candidate start past the busy spans of the shared resources of a        *)
(* segment.  It samples the occupancy of each resource at a few instants   *)
(* and, when some resource is full, jumps to the first end among the spans *)
(* that overlap the candidate on the full resources.                       *)
(*                                                                         *)
(* One behaviour is one call.  resource_intervals is the set of placed     *)
(* items that hold the resource: plan maps those segments to their spans.  *)
(***************************************************************************)
EXTENDS AllocationModel

CONSTANTS
  Calls   \* the pairs <<plan, base>> a call may see: spans placed before it,
          \* and the candidate the caller computed

VARIABLES
  inst, plan, seg,  \* arguments; never change
  base,             \* the candidate the caller passed; never changes
  cand,             \* candidate
  pc                \* "enter" -> "loop" -> "done"

vars == <<inst, plan, seg, base, cand, pc>>
args == <<inst, plan, seg, base>>

SpanType == [start: Nat, end: Nat]

ASSUME CallsAssumption ==
  \A c \in Calls :
    /\ DOMAIN c[1] \subseteq Segments
    /\ c[1] \in [DOMAIN c[1] -> SpanType]
    /\ c[2] \in Nat

\* Spans placed by earlier dispatches: as long as the segment, and never more
\* than capacity at a time.
Consistent(I, p) ==
  /\ \A x \in DOMAIN p : p[x].end = p[x].start + I.dur[x]
  /\ \A q \in Resources : \A x \in Holders(I, p, q) :
       Cardinality(ActiveAt(I, p, q, p[x].start)) <= I.cap[q]

TypeOK ==
  /\ inst \in InstanceType
  /\ seg \in Segments
  /\ DOMAIN plan \subseteq Segments \ {seg}
  /\ plan \in [DOMAIN plan -> SpanType]
  /\ base \in Nat
  /\ cand \in Nat
  /\ pc \in {"enter", "loop", "done"}

Init ==
  /\ inst \in Instances
  /\ \E c \in Calls : plan = c[1] /\ base = c[2]
  /\ seg \in Segments \ DOMAIN plan
  /\ Consistent(inst, plan)
  /\ cand = base
  /\ pc = "enter"

\* if not resource_ids: return candidate
NoResources ==
  /\ pc = "enter"
  /\ inst.uses[seg] = {}
  /\ pc' = "done"
  /\ UNCHANGED <<args, cand>>

Openings == {inst.free[q] : q \in inst.uses[seg]}

\* Mutant of Align: the openings of the resources are ignored.
AlignIgnoringOpenings ==
  /\ pc = "enter"
  /\ inst.uses[seg] # {}
  /\ pc' = "loop"
  /\ UNCHANGED <<args, cand>>

\* candidate = max(candidate, latest resource opening)
Align ==
  /\ pc = "enter"
  /\ inst.uses[seg] # {}
  /\ cand' \in {cand} \cup Openings
  /\ \A u \in {cand} \cup Openings : u <= cand'
  /\ pc' = "loop"
  /\ UNCHANGED args

\* blocked_ends: ends of the spans overlapping the candidate on full resources
BlockedEnds ==
  UNION {{plan[x].end : x \in {y \in Holders(inst, plan, q) :
                                 /\ plan[y].start < cand + inst.dur[seg]
                                 /\ cand < plan[y].end}} :
          q \in {z \in inst.uses[seg] : Overloaded(inst, plan, z, cand, inst.dur[seg])}}

\* candidate = min(blocked_ends)
Advance ==
  /\ pc = "loop"
  /\ cand' \in BlockedEnds
  /\ \A e \in BlockedEnds : cand' <= e
  /\ UNCHANGED <<args, pc>>

\* if not blocked_ends: return candidate
Return ==
  /\ pc = "loop"
  /\ BlockedEnds = {}
  /\ pc' = "done"
  /\ UNCHANGED <<args, cand>>

Next == NoResources \/ Align \/ Advance \/ Return

Spec == Init /\ [][Next]_vars

-----------------------------------------------------------------------------
(* Properties.                                                             *)

Bounds == {base} \cup Openings

\* Whatever the loop returns leaves room for the whole span: at no instant of
\* it, sampled or not, would the segment raise a resource above capacity.
RoomForWholeSpan ==
  pc = "done" =>
    \A q \in inst.uses[seg] : \A u \in cand .. cand + inst.dur[seg] - 1 :
      Cardinality(ActiveAt(inst, plan, q, u)) + 1 <= inst.cap[q]

\* Jumping from end to end skips no start: every instant from the bounds up to
\* the returned start has a full resource somewhere in the span.
NoEarlierStart ==
  pc = "done" =>
    \A u \in 0 .. cand - 1 :
      (\A b \in Bounds : b <= u) => ~ Fits(inst, plan, seg, u)

\* The result is what the dispatch modules mean by the earliest start.
ReturnsEarliest == pc = "done" => IsEarliest(inst, plan, seg, Bounds, cand)

=============================================================================
