--------------------------- MODULE EventScheduler ---------------------------
(***************************************************************************)
(* core/event_scheduler.py: the simulation by which GET /forecast and the    *)
(* replan candidates place unfinished operations on finite resources.        *)
(*                                                                         *)
(* Each turn of its loop decides at one instant: it finds the operations     *)
(* that are ready, continues the running ones, starts as many of the others  *)
(* as fit in the order a policy or plan dictates, and moves on to the next    *)
(* instant at which something can change.                                   *)
(***************************************************************************)
EXTENDS Slots

CONSTANTS
  Ops,          \* operations that may be part of a job
  LotOf, UnitOf,
  StepOf,       \* step_seq: the routing step an operation is an attempt of
  SeqOf,        \* precedence_seq: the place in the unit's execution order
  Need,         \* requirements: quantity of each resource an operation needs
  Jobs,         \* the inputs that are considered
  None

Starts == {"RUNNING", "WAITING", "HOLD"}

(* A job is what one call is given.  buffer is release_buffer_k.             *)
IsJob(j) ==
  /\ j.ops \subseteq Ops
  /\ j.start \in Nat
  /\ j.duration \in [Ops -> Nat \ {0}]
  /\ j.release \in [Ops -> Nat]
  /\ j.eligible \in [Ops -> Nat]
  /\ j.state \in [Ops -> Starts]
  /\ j.buffer \in [Ops -> (Nat \ {0}) \cup {None}]

(* A resource an operation needs has the capacity for it: otherwise the slot  *)
(* search is a ValueError.  _validate_inputs: one operation per unit and     *)
(* place in its order.  A unit has one current attempt of a routing step; as  *)
(* rework is inserted into the order of one unit, the attempts of a step can *)
(* be at different places, and those of different steps at the same.         *)
ASSUME SchedulerAssumption ==
  /\ IsFiniteSet(Ops)
  /\ \A o \in Ops : /\ DOMAIN Need[o] # {} /\ DOMAIN Need[o] \subseteq Resources
                    /\ \A r \in DOMAIN Need[o] : Need[o][r] \in 1 .. Capacity[r]
  /\ StepOf \in [Ops -> Nat] /\ SeqOf \in [Ops -> Nat] /\ UnitOf \in [Ops -> Nat]
  /\ \A o, p \in Ops : UnitOf[o] = UnitOf[p] /\ SeqOf[o] = SeqOf[p] => o = p
  /\ \A o, p \in Ops : UnitOf[o] = UnitOf[p] /\ StepOf[o] = StepOf[p] => o = p
  /\ \A o, p \in Ops : UnitOf[o] = UnitOf[p] => LotOf[o] = LotOf[p]
  /\ \A j \in Jobs : IsJob(j)
  /\ None \notin Nat

VARIABLES
  job,          \* the input, never changed
  phase,        \* where the loop is, or how it ended
  now,          \* decision_time
  pending,      \* operations not yet scheduled
  ready,        \* ready operations not yet tried at this decision
  placed,       \* scheduled_by_id: the slots of the others
  allocations   \* what those slots take of the resources

vars == <<job, phase, now, pending, ready, placed, allocations>>

Scheduled == DOMAIN placed

-----------------------------------------------------------------------------
(* Readiness                                                                *)

Before(p, o) == UnitOf[p] = UnitOf[o] /\ SeqOf[p] < SeqOf[o]

(* Mutant: a predecessor need only be scheduled, not completed.              *)
PredecessorsCompleted_Scheduled(o) ==
  \A p \in job.ops : Before(p, o) => p \in Scheduled
PredecessorsCompleted(o) ==
  \A p \in job.ops : Before(p, o) => p \in Scheduled /\ placed[p].end <= now

(* The places of the LOT before that of an operation, as far as the job has   *)
(* operations at them, and the last one.                                    *)
EarlierPlaces(o) == {SeqOf[p] : p \in {p \in job.ops : LotOf[p] = LotOf[o] /\ SeqOf[p] < SeqOf[o]}}
Upstream(o) == {p \in job.ops : LotOf[p] = LotOf[o] /\ SeqOf[p] = Max(EarlierPlaces(o))}
SamePlace(o) == {p \in job.ops : LotOf[p] = LotOf[o] /\ SeqOf[p] = SeqOf[o]}
SameTask(o) == {p \in job.ops : LotOf[p] = LotOf[o] /\ StepOf[p] = StepOf[o]}

CompletedUpstream(o, t) == {p \in Upstream(o) \cap Scheduled : placed[p].end <= t}
DownstreamStarted(o) == \E p \in SamePlace(o) \cap Scheduled : placed[p].start <= now

(* Mutant: a buffer of k is released by k - 1.                              *)
BufferReleased_Early(o) ==
  \/ job.buffer[o] = None
  \/ DownstreamStarted(o)
  \/ Cardinality(CompletedUpstream(o, now)) >= job.buffer[o] - 1

BufferReleased(o) ==
  \/ job.buffer[o] = None
  \/ DownstreamStarted(o)
  \/ Cardinality(CompletedUpstream(o, now)) >= job.buffer[o]

Due(o) ==
  /\ job.release[o] <= now /\ job.eligible[o] <= now
  /\ PredecessorsCompleted(o)

(* "release_buffer_k cannot be set on the first routing step": ValueError.    *)
Misplaced(o) == Due(o) /\ job.buffer[o] # None /\ EarlierPlaces(o) = {}

StructurallyReady(o) == Due(o) /\ BufferReleased(o)

Decide ==
  /\ phase = "decide" /\ pending # {}
  /\ IF \E o \in pending : Misplaced(o)
     THEN phase' = "refused" /\ UNCHANGED ready
     ELSE phase' = "dispatch" /\ ready' = {o \in pending : StructurallyReady(o)}
  /\ UNCHANGED <<job, now, pending, placed, allocations>>

-----------------------------------------------------------------------------
(* Starting operations                                                      *)

(* _reserve_resources.  Mutant: only until the first closing time.           *)
Taken(o, s) ==
  {[op |-> o, resource |-> r, start |-> s.start, end |-> s.end, quantity |-> Need[o][r]] :
     r \in DOMAIN Need[o]}
Reserved_Today(o, slot) == Taken(o, slot.segments[1])
Reserved(o, slot) == UNION {Taken(o, slot.segments[i]) : i \in DOMAIN slot.segments}

Slot(o) == EarliestSlot(now, job.duration[o], Need[o], allocations)

Place(o, slot) ==
  /\ placed' = [p \in Scheduled \cup {o} |-> IF p = o THEN slot ELSE placed[p]]
  /\ allocations' = allocations \cup Reserved(o, slot)
  /\ pending' = pending \ {o}

Running == {o \in ready : job.state[o] = "RUNNING"}

(* Running operations come first, the longest eligible first.  One that       *)
(* cannot continue is a RuntimeError.                                       *)
Longer(p, o) ==
  \/ job.eligible[p] < job.eligible[o]
  \/ job.eligible[p] = job.eligible[o] /\ UnitOf[p] < UnitOf[o]

Continue(o) ==
  /\ phase = "dispatch" /\ o \in Running
  /\ \A p \in Running \ {o} : ~ Longer(p, o)
  /\ \E slot \in {Slot(o)} :
       IF slot.start = now
       THEN Place(o, slot) /\ UNCHANGED phase
       ELSE phase' = "stopped" /\ UNCHANGED <<pending, placed, allocations>>
  /\ ready' = ready \ {o}
  /\ UNCHANGED <<job, now>>

(* operation_tie_break_key, among the operations of one LOT and routing step. *)
Waiting(o) == job.state[o] = "WAITING"
TieBreak_NoUnit(p, o) ==
  \/ Waiting(p) /\ ~ Waiting(o)
  \/ Waiting(p) = Waiting(o) /\ job.eligible[p] < job.eligible[o]
TieBreak(p, o) ==
  \/ Waiting(p) /\ ~ Waiting(o)
  \/ Waiting(p) = Waiting(o) /\ Longer(p, o)

Startable(slot) == slot.start = now

(* The priority rule or the plan decides among steps and LOTs: any order.    *)
Dispatch(o) ==
  /\ phase = "dispatch" /\ Running = {} /\ o \in ready
  /\ \A p \in ready \cap SameTask(o) : ~ TieBreak(p, o)
  /\ \E slot \in {Slot(o)} :
       IF Startable(slot) THEN Place(o, slot) ELSE UNCHANGED <<pending, placed, allocations>>
  /\ ready' = ready \ {o}
  /\ UNCHANGED <<job, phase, now>>

-----------------------------------------------------------------------------
(* Moving on                                                                *)

(* Mutant: the clock moves to ends and releases only.                        *)
Events_Static ==
  {placed[o].end : o \in Scheduled} \cup {job.release[o] : o \in pending}
    \cup {job.eligible[o] : o \in pending}

Events ==
  {placed[o].end : o \in Scheduled} \cup {a.end : a \in allocations}
    \cup {job.release[o] : o \in pending} \cup {job.eligible[o] : o \in pending}
    \cup {NextWorkStart(now)}
    \cup {Slot(o).start : o \in {o \in pending : StructurallyReady(o)}}

(* Mutant: an event at the present instant counts.                           *)
Future_Now == {t \in Events : t >= now}
Future == {t \in Events : t > now}

(* _next_event_time; without one it is a RuntimeError.                       *)
Advance ==
  /\ phase = "dispatch" /\ ready = {} /\ pending # {}
  /\ \E future \in {Future} :
       IF future = {}
       THEN phase' = "stuck" /\ UNCHANGED now
       ELSE phase' = "decide" /\ now' = Min(future)
  /\ UNCHANGED <<job, pending, ready, placed, allocations>>

Finish ==
  /\ pending = {} /\ ready = {}
  /\ phase \in {"decide", "dispatch"}
  /\ phase' = "done"
  /\ UNCHANGED <<job, now, pending, ready, placed, allocations>>

-----------------------------------------------------------------------------
Init ==
  /\ job \in Jobs
  /\ phase = "decide"
  /\ now = job.start
  /\ pending = job.ops
  /\ ready = {}
  /\ placed = [o \in {} |-> None]
  /\ allocations = {}

Next ==
  \/ Decide
  \/ \E o \in ready : Continue(o) \/ Dispatch(o)
  \/ Advance
  \/ Finish

Ended == phase \in {"done", "refused", "stopped", "stuck"}

(* A function call: it runs until it returns or raises.                      *)
Spec == Init /\ [][Next]_vars

-----------------------------------------------------------------------------
(* Properties                                                               *)

Working(r, t) ==
  {o \in Scheduled : /\ r \in DOMAIN Need[o]
                     /\ placed[o].start <= t /\ t < placed[o].end}

(* SlotsSound: a slot is exactly the work it was made for: it begins and ends *)
(* with work, and its working time, pauses left out, is the duration.  At no *)
(* working instant do the scheduled operations together need more of a       *)
(* resource than there is.                                                  *)
SlotsSound ==
  \A o \in Scheduled :
    LET s == placed[o]
        worked == Worked(s.start, s.end)
    IN /\ IsWorkingTime(s.start) /\ IsWorkingTime(s.end - 1)
       /\ Cardinality(worked) = job.duration[o]
       /\ worked = UNION {s.segments[i].start .. s.segments[i].end - 1 :
                            i \in DOMAIN s.segments}
       /\ \A t \in worked : \A r \in DOMAIN Need[o] :
            MapThenSumSet(LAMBDA p : Need[p][r], Working(r, t)) <= Capacity[r]

(* RoutingRespected: no operation starts before it is released and eligible,  *)
(* nor before every earlier operation of its unit has ended.                *)
RoutingRespected ==
  \A o \in Scheduled :
    /\ job.release[o] <= placed[o].start /\ job.eligible[o] <= placed[o].start
    /\ \A p \in job.ops : Before(p, o) =>
         p \in Scheduled /\ placed[p].end <= placed[o].start

(* BufferRespected: a buffered step of a LOT starts only when k operations of *)
(* the step before it have ended.                                           *)
BufferRespected ==
  \A o \in Scheduled : job.buffer[o] # None =>
    \E p \in SamePlace(o) \cap Scheduled :
      /\ placed[p].start <= placed[o].start
      /\ job.buffer[p] = None
         \/ Cardinality(CompletedUpstream(p, placed[p].start)) >= job.buffer[p]

(* What had started by an instant, and whether an operation was due then.     *)
StartedBy(t) == {a \in allocations : placed[a.op].start <= t}
DueAt(o, t) ==
  /\ job.release[o] <= t /\ job.eligible[o] <= t
  /\ \A p \in job.ops : Before(p, o) => p \in Scheduled /\ placed[p].end <= t
  /\ \/ job.buffer[o] = None
     \/ Cardinality(CompletedUpstream(o, t)) >= job.buffer[o]

(* NeverIdle: no operation is left waiting at an instant at which it was due  *)
(* and would have fitted beside everything that had started by then: the     *)
(* clock misses no event, and no slot is later than it needs to be.  (Slots   *)
(* never change: it is enough to look when the call has ended.)              *)
NeverIdle ==
  Ended =>
    \A o \in job.ops :
      LET last == IF o \in Scheduled THEN placed[o].start - 1
                  ELSE IF phase = "stuck" THEN now ELSE now - 1
          end == IF o \in Scheduled THEN placed[o].end ELSE Slot(o).end
      IN \A t \in job.start .. last : DueAt(o, t) =>
           ~ \E e \in t + 1 .. end :
               Fits(t, e, job.duration[o], Need[o], {a \in StartedBy(t) : a.op # o})

(* ForecastCalculated: the forecast of a job is calculated ("The endpoint     *)
(* calculates the current Live Forecast for every LOT represented by the     *)
(* latest approved SchedulePlan").                                          *)
ForecastCalculated == phase \notin {"refused", "stuck"}
=============================================================================
