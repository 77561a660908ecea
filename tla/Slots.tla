------------------------------- MODULE Slots --------------------------------
(***************************************************************************)
(* core/slot_engine.py and core/resource_engine.py: the earliest slot of     *)
(* working time in which every resource an operation needs is free.         *)
(*                                                                         *)
(* An allocation is [op, resource, start, end, quantity]: the op keeps two   *)
(* allocations of equal shape apart, as the list of the code does.          *)
(***************************************************************************)
EXTENDS WorkCalendar, FiniteSetsExt

CONSTANTS
  Resources,
  Capacity      \* of each resource

ASSUME CapacityAssumption ==
  IsFiniteSet(Resources) /\ Capacity \in [Resources -> Nat \ {0}]

Overlap(a, b) == a.start < b.end /\ b.start < a.end
Later(t, u) == IF t < u THEN u ELSE t

Quantity(allocs) == MapThenSumSet(LAMBDA a : a.quantity, allocs)

(* What is in use at an instant.                                            *)
InUse(allocs, t) == Quantity({a \in allocs : a.start <= t /\ t < a.end})

(* can_allocate sweeps over the starts and ends of what overlaps, ends first *)
(* at equal times: usage is highest right after a start.                    *)
CanAllocate(r, segment, quantity, allocs) ==
  LET overlapping == {a \in allocs : a.resource = r /\ Overlap(a, segment)}
  IN /\ quantity <= Capacity[r]
     /\ \A a \in overlapping :
          InUse(overlapping, Later(segment.start, a.start)) + quantity <= Capacity[r]

(* need: the quantity of each resource that is required.                    *)
AllSegmentsFeasible(segments, need, allocs) ==
  \A r \in DOMAIN need : \A i \in DOMAIN segments :
    CanAllocate(r, segments[i], need[r], allocs)

NextConflictEnd(segments, need, allocs) ==
  Min({a.end : a \in {a \in allocs : /\ a.resource \in DOMAIN need
                                    /\ \E i \in DOMAIN segments : Overlap(a, segments[i])}})

(* find_earliest_feasible_slot                                              *)
EarliestSlot(earliest, minutes, need, allocs) ==
  LET from[t \in Nat] ==
        LET segments == WorkingSegments(t, minutes)
        IN IF AllSegmentsFeasible(segments, need, allocs)
           THEN [start    |-> segments[1].start,
                 end      |-> segments[Len(segments)].end,
                 segments |-> segments]
           ELSE from[NextWorkStart(NextConflictEnd(segments, need, allocs))]
  IN from[NextWorkStart(earliest)]

-----------------------------------------------------------------------------
(* The reference: what a slot is, one instant at a time.                     *)

(* The working instants of an interval.                                     *)
Worked(start, end) == {t \in start .. end - 1 : IsWorkingTime(t)}

(* An interval that begins with work and holds just the minutes needed.      *)
Fits(start, end, minutes, need, allocs) ==
  /\ IsWorkingTime(start) /\ IsWorkingTime(end - 1)
  /\ Cardinality(Worked(start, end)) = minutes
  /\ \A r \in DOMAIN need : \A t \in Worked(start, end) :
       InUse({a \in allocs : a.resource = r}, t) + need[r] <= Capacity[r]
=============================================================================
