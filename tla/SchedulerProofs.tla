-------------------------- MODULE SchedulerProofs ---------------------------
(***************************************************************************)
(* The scheduler for every job, calendar, resources and order of priority:    *)
(* no operation starts too early, no resource is overbooked, none is left    *)
(* idle that could start; and, for every plan and rule, the turn of an        *)
(* operation is the only one possible, inverts no priority, and gives the    *)
(* candidates their ranks; an approved candidate that dispatched task by task *)
(* is what the live forecast schedules, to the minute.                       *)
(***************************************************************************)
EXTENDS ReplanCandidates, SlotProofs

(* An operation is scheduled or pending, never both; the ready ones are       *)
(* pending and due at this instant.                                         *)
Partition ==
  Scheduled = job.ops \ pending /\ pending \subseteq job.ops /\ ready \subseteq pending
ReadyAreDue == \A o \in ready : Due(o)

IInv == Partition /\ ReadyAreDue /\ RoutingRespected

(* A started operation has a slot that begins now; all other slots stay.     *)
LEMMA Placing ==
  ASSUME IInv, NEW o \in ready, NEW slot, slot.start = now, Place(o, slot),
         ready' = ready \ {o}, UNCHANGED <<job, now>>
  PROVE  IInv'
<1>1. o \in pending /\ o \notin Scheduled /\ Due(o)
  BY DEF IInv, Partition, ReadyAreDue
<1>2. /\ Scheduled' = Scheduled \cup {o}
      /\ placed'[o] = slot
      /\ \A p \in Scheduled : placed'[p] = placed[p]
  BY <1>1 DEF Place, Scheduled
<1>3. \A p, q \in job.ops : Before(p, q)' = Before(p, q)
  BY DEF Before
<1>4. Partition'
  <2>1. Scheduled \cup {o} = job.ops \ (pending \ {o})
    BY <1>1 DEF IInv, Partition
  <2>2. ready \ {o} \subseteq pending \ {o} /\ pending \ {o} \subseteq job.ops
    BY DEF IInv, Partition
  <2> QED BY <1>2, <2>1, <2>2 DEF Partition, Place
<1>5. \A q : Due(q) => Due(q)'
  BY <1>2 DEF Due, PredecessorsCompleted, Before
<1>6. ReadyAreDue'
  BY <1>5 DEF IInv, ReadyAreDue
<1>7. ASSUME NEW q \in Scheduled'
      PROVE  /\ job'.release[q] <= placed'[q].start
             /\ job'.eligible[q] <= placed'[q].start
             /\ \A p \in job'.ops : Before(p, q) =>
                  p \in Scheduled' /\ placed'[p].end <= placed'[q].start
  <2>1. CASE q = o
    BY <1>1, <1>2, <2>1 DEF Due, PredecessorsCompleted
  <2>2. CASE q \in Scheduled
    BY <1>2, <2>2 DEF IInv, RoutingRespected
  <2> QED BY <1>2, <2>1, <2>2
<1>8. RoutingRespected'
  BY <1>7 DEF RoutingRespected, Before
<1> QED BY <1>4, <1>6, <1>8 DEF IInv

(* What leaves the slots as they are and makes nothing ready.                *)
LEMMA Keeping ==
  ASSUME IInv, UNCHANGED <<job, now, pending, placed>>, ready' \subseteq ready
  PROVE  IInv'
<1>1. Scheduled' = Scheduled
  BY DEF Scheduled
<1>2. Partition'
  BY <1>1 DEF IInv, Partition
<1>3. \A q : Due(q)' = Due(q)
  BY <1>1 DEF Due, PredecessorsCompleted, Before
<1>4. ReadyAreDue'
  BY <1>3 DEF IInv, ReadyAreDue
<1>5. RoutingRespected'
  BY <1>1 DEF IInv, RoutingRespected, Before
<1> QED BY <1>2, <1>4, <1>5 DEF IInv

LEMMA Initially == Init => IInv
<1> SUFFICES ASSUME Init PROVE IInv
  OBVIOUS
<1>1. Scheduled = {} /\ ready = {} /\ pending = job.ops
  BY DEF Init, Scheduled
<1> QED BY <1>1 DEF IInv, Partition, ReadyAreDue, RoutingRespected

LEMMA Inductive == IInv /\ [Next]_vars => IInv'
<1> SUFFICES ASSUME IInv, [Next]_vars PROVE IInv'
  OBVIOUS
<1>1. CASE Decide
  <2>1. CASE UNCHANGED ready
    <3>1. UNCHANGED <<job, now, pending, placed>> /\ ready' \subseteq ready
      BY <1>1, <2>1 DEF Decide
    <3> QED BY <3>1, Keeping
  <2>2. CASE ready' = {o \in pending : StructurallyReady(o)}
    <3>1. UNCHANGED <<job, now, pending, placed>>
      BY <1>1 DEF Decide
    <3>2. Scheduled' = Scheduled
      BY <3>1 DEF Scheduled
    <3>3. \A q : Due(q)' = Due(q)
      BY <3>1, <3>2 DEF Due, PredecessorsCompleted, Before
    <3>4. Partition'
      BY <2>2, <3>1, <3>2 DEF IInv, Partition
    <3>5. ReadyAreDue'
      BY <2>2, <3>3 DEF ReadyAreDue, StructurallyReady
    <3>6. RoutingRespected'
      BY <3>1, <3>2 DEF IInv, RoutingRespected, Before
    <3> QED BY <3>4, <3>5, <3>6 DEF IInv
  <2> QED BY <1>1, <2>1, <2>2 DEF Decide
<1>2. ASSUME NEW o \in ready, Continue(o)
      PROVE  IInv'
  <2>1. ready' = ready \ {o} /\ UNCHANGED <<job, now>>
    BY <1>2 DEF Continue
  <2>2. \/ Slot(o).start = now /\ Place(o, Slot(o))
        \/ UNCHANGED <<pending, placed>>
    BY <1>2 DEF Continue
  <2> QED BY <2>1, <2>2, Placing, Keeping
<1>3. ASSUME NEW o \in ready, Dispatch(o)
      PROVE  IInv'
  <2>1. ready' = ready \ {o} /\ UNCHANGED <<job, now>>
    BY <1>3 DEF Dispatch
  <2>2. \/ Slot(o).start = now /\ Place(o, Slot(o))
        \/ UNCHANGED <<pending, placed>>
    BY <1>3 DEF Dispatch, Startable
  <2> QED BY <2>1, <2>2, Placing, Keeping
<1>4. CASE Advance
  <2>1. ready' = {} /\ UNCHANGED <<job, pending, placed>>
    BY <1>4 DEF Advance
  <2>2. Scheduled' = Scheduled
    BY <2>1 DEF Scheduled
  <2>3. Partition' /\ ReadyAreDue'
    BY <2>1, <2>2 DEF IInv, Partition, ReadyAreDue
  <2>4. RoutingRespected'
    BY <2>1, <2>2 DEF IInv, RoutingRespected, Before
  <2> QED BY <2>3, <2>4 DEF IInv
<1>5. CASE Finish
  BY <1>5, Keeping DEF Finish
<1>6. CASE UNCHANGED vars
  BY <1>6, Keeping DEF vars
<1> QED BY <1>1, <1>2, <1>3, <1>4, <1>5, <1>6 DEF Next

(* RoutingNeverBroken: in every job, on every calendar and with any order of  *)
(* priority, an operation starts only when it is released and eligible and   *)
(* the earlier operations of its unit have ended.                           *)
THEOREM RoutingNeverBroken == Spec => []RoutingRespected
<1>1. IInv => RoutingRespected
  BY DEF IInv
<1> QED BY <1>1, Initially, Inductive, PTL DEF Spec

-----------------------------------------------------------------------------
(* Slots                                                                    *)

(* A scheduled operation has the slot of its duration from its start on, and  *)
(* the allocations are what those slots take.                               *)
Slotted(o) ==
  /\ placed[o].start \in Nat /\ IsWorkingTime(placed[o].start) /\ placed[o].start <= now
  /\ placed[o] = SlotAt(placed[o].start, job.duration[o])
SlotFacts ==
  /\ job \in Jobs /\ now \in Nat
  /\ \A o \in Scheduled : Slotted(o)
  /\ allocations = UNION {Reserved(o, placed[o]) : o \in Scheduled}
  /\ Booked(allocations)

LEMMA SlotParts ==
  ASSUME NEW v \in Nat, IsWorkingTime(v), NEW minutes \in Nat \ {0}
  PROVE  /\ SlotAt(v, minutes).start = v
         /\ SlotAt(v, minutes).end = EndOfWork(v, minutes)
         /\ EndOfWork(v, minutes) \in Nat /\ v < EndOfWork(v, minutes)
         /\ SlotAt(v, minutes).segments = WorkingSegments(v, minutes)
         /\ \A i \in DOMAIN WorkingSegments(v, minutes) : WorkingSegments(v, minutes)[i] \in Piece
         /\ IsFiniteSet(DOMAIN WorkingSegments(v, minutes))
<1> DEFINE s == WorkingSegments(v, minutes)
<1>1. Covers(s, <<v, minutes>>)
  BY WorkFrom
<1>2. s[1].start = v /\ s \in Seq(Piece)
  BY <1>1 DEF Covers
<1>3. EndOfWork(v, minutes) \in Nat /\ v < EndOfWork(v, minutes)
  BY EndAfter
<1>4. SlotAt(v, minutes).start = s[1].start /\ SlotAt(v, minutes).end = EndOfWork(v, minutes)
      /\ SlotAt(v, minutes).segments = s
  BY DEF SlotAt
<1> HIDE DEF s
<1>5. DOMAIN s = 1 .. Len(s) /\ Len(s) \in Nat /\ \A i \in 1 .. Len(s) : s[i] \in Piece
  BY <1>2
<1>6. IsFiniteSet(1 .. Len(s))
  <2>1. 1 \in Int /\ Len(s) \in Int
    BY <1>5
  <2> QED BY <2>1, FS_Interval
<1> QED BY <1>2, <1>3, <1>4, <1>5, <1>6 DEF s

LEMMA NeedsAreNeeds == \A o \in Ops : IsNeed(Need[o])
BY SchedulerAssumption DEF IsNeed

LEMMA JobsAreJobs ==
  ASSUME NEW j \in Jobs
  PROVE  /\ j.ops \subseteq Ops /\ j.start \in Nat
         /\ \A o \in Ops : /\ j.duration[o] \in Nat \ {0} /\ j.release[o] \in Nat
                          /\ j.eligible[o] \in Nat /\ j.state[o] \in Starts
                          /\ j.buffer[o] \in (Nat \ {0}) \cup {None}
<1>1. IsJob(j)
  BY SchedulerAssumption
<1> QED BY <1>1 DEF IsJob

(* One allocation of each resource for each segment.                         *)
Allocation(o, r, p) ==
  [op |-> o, resource |-> r, start |-> p.start, end |-> p.end, quantity |-> Need[o][r]]

LEMMA ReservedParts ==
  ASSUME NEW o \in Ops, NEW v \in Nat, IsWorkingTime(v), NEW minutes \in Nat \ {0}
  PROVE  /\ \A a : a \in Reserved(o, SlotAt(v, minutes)) <=>
                \E i \in DOMAIN WorkingSegments(v, minutes), r \in DOMAIN Need[o] :
                  a = Allocation(o, r, WorkingSegments(v, minutes)[i])
         /\ Booked(Reserved(o, SlotAt(v, minutes)))
<1> DEFINE s == WorkingSegments(v, minutes)
           R == Reserved(o, SlotAt(v, minutes))
           P == (DOMAIN s) \X (DOMAIN Need[o])
           h == [p \in P |-> Allocation(o, p[2], s[p[1]])]
<1>1. /\ SlotAt(v, minutes).segments = s /\ IsFiniteSet(DOMAIN s)
      /\ \A i \in DOMAIN s : s[i] \in Piece
  BY SlotParts
<1> HIDE DEF s
<1>2. R = UNION {Taken(o, s[i]) : i \in DOMAIN s}
  BY <1>1 DEF Reserved
<1>3. \A a : a \in R <=> \E i \in DOMAIN s, r \in DOMAIN Need[o] : a = Allocation(o, r, s[i])
  BY <1>2 DEF Taken, Allocation
<1>4. IsFiniteSet(DOMAIN Need[o])
  BY SchedulerAssumption, CapacityAssumption, FS_Subset
<1>5. IsFiniteSet(P)
  BY <1>1, <1>4, FS_Product
<1>6. h \in Surjection(P, R)
  <2>1. \A p \in P : h[p] \in R
    BY <1>3
  <2>2. \A a \in R : \E p \in P : h[p] = a
    <3> TAKE a \in R
    <3>1. PICK i \in DOMAIN s, r \in DOMAIN Need[o] : a = Allocation(o, r, s[i])
      BY <1>3
    <3>2. <<i, r>> \in P /\ h[<<i, r>>] = a
      BY <3>1
    <3> QED BY <3>2
  <2> HIDE DEF R, P
  <2> QED BY <2>1, <2>2 DEF Surjection
<1>7. IsFiniteSet(R)
  <2> HIDE DEF P, R, h
  <2> QED BY <1>5, <1>6, FS_Surjection
<1>8. \A a \in R : a.start \in Nat /\ a.end \in Nat /\ a.quantity \in Nat
  <2> TAKE a \in R
  <2>1. PICK i \in DOMAIN s, r \in DOMAIN Need[o] : a = Allocation(o, r, s[i])
    BY <1>3
  <2>2. Need[o][r] \in Nat
    BY SchedulerAssumption, CapacityAssumption
  <2> QED BY <1>1, <2>1, <2>2 DEF Allocation, Piece
<1> QED BY <1>3, <1>7, <1>8 DEF Booked, s

LEMMA BookedUnion ==
  ASSUME NEW A, NEW B, Booked(A), Booked(B)
  PROVE  Booked(A \cup B)
BY FS_Union DEF Booked

LEMMA SlotIsEarliest ==
  ASSUME SlotFacts, NEW o \in job.ops
  PROVE  /\ Earliest(now, Slot(o).start, job.duration[o], Need[o], allocations)
         /\ Slot(o) = SlotAt(Slot(o).start, job.duration[o])
         /\ o \in Ops /\ job.duration[o] \in Nat \ {0} /\ IsNeed(Need[o])
<1>1. o \in Ops /\ job.duration[o] \in Nat \ {0} /\ IsNeed(Need[o])
  BY JobsAreJobs, NeedsAreNeeds DEF SlotFacts
<1>2. PICK v \in Nat : /\ Earliest(now, v, job.duration[o], Need[o], allocations)
                      /\ Slot(o) = SlotAt(v, job.duration[o])
  <2>1. now \in Nat /\ Booked(allocations)
    BY DEF SlotFacts
  <2> QED BY <1>1, <2>1, EarliestSlotFirst DEF Slot
<1>3. Slot(o).start = v
  BY <1>1, <1>2, SlotParts DEF Earliest
<1> QED BY <1>1, <1>2, <1>3

LEMMA SlotsPlaced ==
  ASSUME IInv, SlotFacts, NEW o \in ready, Slot(o).start = now, Place(o, Slot(o)),
         UNCHANGED <<job, now>>
  PROVE  SlotFacts'
<1>1. o \in pending /\ o \in job.ops /\ o \notin Scheduled
  BY DEF IInv, Partition
<1>2. /\ IsWorkingTime(now) /\ Slot(o) = SlotAt(now, job.duration[o])
      /\ o \in Ops /\ job.duration[o] \in Nat \ {0}
  BY <1>1, SlotIsEarliest DEF Earliest
<1>3. /\ Scheduled' = Scheduled \cup {o} /\ placed'[o] = Slot(o)
      /\ \A p \in Scheduled : placed'[p] = placed[p]
      /\ allocations' = allocations \cup Reserved(o, Slot(o))
  BY <1>1 DEF Place, Scheduled
<1>4. now \in Nat /\ job \in Jobs
  BY DEF SlotFacts
<1>5. ASSUME NEW p \in Scheduled'
      PROVE  Slotted(p)'
  <2>1. CASE p = o
    <3>1. placed'[p].start = now
      BY <1>3, <2>1
    <3>2. placed'[p] = SlotAt(placed'[p].start, job'.duration[p])
      BY <1>2, <1>3, <2>1, <3>1
    <3> QED BY <1>2, <1>4, <3>1, <3>2 DEF Slotted
  <2>2. CASE p \in Scheduled
    BY <1>3, <2>2 DEF SlotFacts, Slotted
  <2> QED BY <1>3, <2>1, <2>2
<1>6. Booked(allocations')
  <2>1. Booked(Reserved(o, Slot(o)))
    BY <1>2, <1>4, ReservedParts
  <2> QED BY <1>3, <2>1, BookedUnion DEF SlotFacts
<1>7. allocations' = UNION {Reserved(p, placed'[p]) : p \in Scheduled'}
  <2>1. allocations = UNION {Reserved(p, placed[p]) : p \in Scheduled}
    BY DEF SlotFacts
  <2>2. ASSUME NEW a \in allocations'
        PROVE  a \in UNION {Reserved(p, placed'[p]) : p \in Scheduled'}
    BY <1>3, <2>1, <2>2
  <2>3. ASSUME NEW p \in Scheduled', NEW a \in Reserved(p, placed'[p])
        PROVE  a \in allocations'
    BY <1>3, <2>1, <2>3
  <2> QED BY <2>2, <2>3
<1>8. (\A p \in Scheduled : Slotted(p))' /\ (Booked(allocations))'
      /\ (allocations = UNION {Reserved(p, placed[p]) : p \in Scheduled})'
  <2>1. \A p, q : Reserved(p, q)' = Reserved(p, q)
    BY DEF Reserved, Taken
  <2> QED BY <1>5, <1>6, <1>7, <2>1 DEF Booked
<1> QED BY <1>4, <1>8 DEF SlotFacts

(* The clock moves on, to the first event.                                   *)
LEMMA EventsAreTimes ==
  ASSUME IInv, SlotFacts
  PROVE  Events \subseteq Nat
<1>1. \A o \in job.ops : o \in Ops /\ job.duration[o] \in Nat \ {0} /\ job.release[o] \in Nat
                        /\ job.eligible[o] \in Nat
  BY JobsAreJobs DEF SlotFacts
<1>2. Scheduled \subseteq job.ops /\ pending \subseteq job.ops
  BY DEF IInv, Partition
<1>3. ASSUME NEW o \in Scheduled
      PROVE  placed[o].end \in Nat
  <2>1. /\ placed[o] = SlotAt(placed[o].start, job.duration[o])
        /\ placed[o].start \in Nat /\ IsWorkingTime(placed[o].start)
    BY DEF SlotFacts, Slotted
  <2> QED BY <1>1, <1>2, <2>1, SlotParts
<1>4. \A a \in allocations : a.end \in Nat
  BY DEF SlotFacts, Booked
<1>5. NextWorkStart(now) \in Nat
  BY NextWork DEF SlotFacts
<1>6. \A o \in pending : Slot(o).start \in Nat
  BY <1>2, SlotIsEarliest DEF Earliest
<1> QED BY <1>1, <1>2, <1>3, <1>4, <1>5, <1>6 DEF Events

LEMMA ClockMoves ==
  ASSUME IInv, SlotFacts, Future # {}
  PROVE  Min(Future) \in Future /\ Min(Future) \in Nat /\ now < Min(Future)
         /\ \A t \in Future : Min(Future) <= t
<1>1. Future \in SUBSET Nat /\ \A t \in Future : now < t
  BY EventsAreTimes DEF Future
<1> HIDE DEF Future
<1>2. \E t \in Future : \A u \in Future : t <= u
  BY <1>1, LeastNatural
<1>3. Min(Future) \in Future /\ \A u \in Future : Min(Future) <= u
  BY <1>2 DEF Min
<1> QED BY <1>1, <1>3

LEMMA SlotsInitially == Init => SlotFacts
<1> SUFFICES ASSUME Init PROVE SlotFacts
  OBVIOUS
<1>1. Scheduled = {} /\ allocations = {} /\ job \in Jobs /\ now = job.start
  BY DEF Init, Scheduled
<1>2. now \in Nat
  BY <1>1, JobsAreJobs
<1>3. Booked({})
  BY FS_EmptySet DEF Booked
<1> QED BY <1>1, <1>2, <1>3 DEF SlotFacts

(* A turn tries the ready operations one by one.                             *)
Started(o) ==
  /\ phase = "dispatch" /\ o \in ready /\ Slot(o).start = now
  /\ Place(o, Slot(o)) /\ ready' = ready \ {o}
  /\ UNCHANGED <<job, phase, now>>
Passed(o) ==
  /\ phase = "dispatch" /\ o \in ready /\ Slot(o).start # now
  /\ ready' = ready \ {o} /\ phase' \in {"dispatch", "stopped"}
  /\ UNCHANGED <<job, now, pending, placed, allocations>>

LEMMA Trying ==
  ASSUME NEW o \in ready, Continue(o) \/ Dispatch(o)
  PROVE  Started(o) \/ Passed(o)
<1>1. CASE Continue(o)
  <2>1. CASE Slot(o).start = now
    BY <1>1, <2>1 DEF Continue, Started
  <2>2. CASE Slot(o).start # now
    BY <1>1, <2>2 DEF Continue, Passed
  <2> QED BY <2>1, <2>2
<1>2. CASE Dispatch(o)
  <2>1. CASE Slot(o).start = now
    BY <1>2, <2>1 DEF Dispatch, Startable, Started
  <2>2. CASE Slot(o).start # now
    BY <1>2, <2>2 DEF Dispatch, Startable, Passed
  <2> QED BY <2>1, <2>2
<1> QED BY <1>1, <1>2

LEMMA SlotsKept ==
  ASSUME SlotFacts, UNCHANGED <<job, placed, allocations>>, now' \in Nat, now <= now'
  PROVE  SlotFacts'
<1>1. Scheduled' = Scheduled
  BY DEF Scheduled
<1>2. \A p, q : Reserved(p, q)' = Reserved(p, q)
  BY DEF Reserved, Taken
<1>3. \A o \in Scheduled : Slotted(o)'
  BY DEF SlotFacts, Slotted
<1>4. (Booked(allocations))'
  BY DEF SlotFacts, Booked
<1> QED BY <1>1, <1>2, <1>3, <1>4 DEF SlotFacts

LEMMA SlotsInductive == IInv /\ SlotFacts /\ [Next]_vars => SlotFacts'
<1> SUFFICES ASSUME IInv, SlotFacts, [Next]_vars PROVE SlotFacts'
  OBVIOUS
<1>1. now \in Nat
  BY DEF SlotFacts
<1>2. CASE Decide \/ Finish \/ UNCHANGED vars
  BY <1>1, <1>2, SlotsKept DEF Decide, Finish, vars
<1>3. ASSUME NEW o \in ready, Continue(o) \/ Dispatch(o)
      PROVE  SlotFacts'
  <2>1. CASE Started(o)
    BY <2>1, SlotsPlaced DEF Started
  <2>2. CASE Passed(o)
    BY <1>1, <2>2, SlotsKept DEF Passed
  <2> QED BY <1>3, <2>1, <2>2, Trying
<1>4. CASE Advance
  <2>1. CASE Future = {}
    BY <1>1, <1>4, <2>1, SlotsKept DEF Advance
  <2>2. CASE Future # {}
    BY <1>1, <1>4, <2>2, SlotsKept, ClockMoves DEF Advance
  <2> QED BY <2>1, <2>2
<1> QED BY <1>2, <1>3, <1>4 DEF Next

-----------------------------------------------------------------------------
(* Buffers                                                                  *)

ReadyAreReleased == \A o \in ready : BufferReleased(o)
BInv == SlotFacts /\ ReadyAreReleased /\ BufferRespected

(* With more operations scheduled, no fewer have ended by an instant.        *)
LEMMA MoreCompleted ==
  ASSUME IInv, SlotFacts, NEW o, NEW p \in ready, Started(p), NEW t, NEW k \in Nat,
         Cardinality(CompletedUpstream(o, t)) >= k
  PROVE  Cardinality({q \in Upstream(o) \cap Scheduled' : placed'[q].end <= t}) >= k
<1> DEFINE C == CompletedUpstream(o, t)
           D == {q \in Upstream(o) \cap Scheduled' : placed'[q].end <= t}
<1>1. /\ p \notin Scheduled /\ Scheduled' = Scheduled \cup {p}
      /\ \A q \in Scheduled : placed'[q] = placed[q]
  BY DEF Started, Place, Scheduled, IInv, Partition
<1>3. C \in SUBSET D /\ D \subseteq job.ops
  BY <1>1 DEF CompletedUpstream, Upstream
<1>4. IsFiniteSet(job.ops)
  BY SchedulerAssumption, JobsAreJobs, FS_Subset DEF SlotFacts
<1>5. IsFiniteSet(D)
  BY <1>3, <1>4, FS_Subset
<1> HIDE DEF C, D
<1>6. IsFiniteSet(C) /\ Cardinality(C) <= Cardinality(D)
  BY <1>3, <1>5, FS_Subset
<1>7. Cardinality(C) \in Nat /\ Cardinality(D) \in Nat
  BY <1>5, <1>6, FS_CardinalityType
<1>8. Cardinality(D) >= k
  BY <1>6, <1>7 DEF C
<1> QED BY <1>8 DEF D

LEMMA UpstreamKept ==
  ASSUME UNCHANGED job
  PROVE  \A o : Upstream(o)' = Upstream(o) /\ SamePlace(o)' = SamePlace(o)
BY DEF Upstream, SamePlace, EarlierPlaces

(* Whoever was released stays so as more operations start.                   *)
LEMMA StillReleased ==
  ASSUME IInv, SlotFacts, NEW o \in job.ops, NEW p \in ready, Started(p), BufferReleased(o)
  PROVE  BufferReleased(o)'
<1>1. /\ p \notin Scheduled /\ Scheduled' = Scheduled \cup {p}
      /\ \A q \in Scheduled : placed'[q] = placed[q]
      /\ job' = job /\ now' = now
  BY DEF Started, Place, Scheduled, IInv, Partition
<1>2. Upstream(o)' = Upstream(o) /\ SamePlace(o)' = SamePlace(o)
  BY <1>1, UpstreamKept
<1>3. CASE job.buffer[o] = None
  BY <1>1, <1>3 DEF BufferReleased
<1>4. CASE DownstreamStarted(o)
  <2>1. DownstreamStarted(o)'
    BY <1>1, <1>2, <1>4 DEF DownstreamStarted
  <2> QED BY <2>1 DEF BufferReleased
<1>5. CASE job.buffer[o] # None /\ Cardinality(CompletedUpstream(o, now)) >= job.buffer[o]
  <2>1. job.buffer[o] \in Nat
    BY <1>5, JobsAreJobs DEF SlotFacts
  <2>2. Cardinality({q \in Upstream(o) \cap Scheduled' : placed'[q].end <= now}) >= job.buffer[o]
    BY <1>5, <2>1, MoreCompleted
  <2>3. (CompletedUpstream(o, now))' = {q \in Upstream(o) \cap Scheduled' : placed'[q].end <= now}
    BY <1>1, <1>2 DEF CompletedUpstream
  <2>4. (Cardinality(CompletedUpstream(o, now)) >= job.buffer[o])'
    BY <1>1, <2>2, <2>3
  <2> QED BY <2>4 DEF BufferReleased
<1> QED BY <1>3, <1>4, <1>5 DEF BufferReleased

LEMMA BufferStarting ==
  ASSUME IInv, BInv, NEW o \in ready, Started(o)
  PROVE  BufferRespected'
<1>1. /\ o \notin Scheduled /\ Scheduled' = Scheduled \cup {o} /\ o \in job.ops
      /\ \A q \in Scheduled : placed'[q] = placed[q]
      /\ placed'[o].start = now
      /\ job' = job /\ now' = now
  BY DEF Started, Place, Scheduled, IInv, Partition
<1>2. SlotFacts /\ BufferRespected /\ BufferReleased(o)
  BY DEF BInv, ReadyAreReleased
<1>3. \A q : Upstream(q)' = Upstream(q) /\ SamePlace(q)' = SamePlace(q)
  BY <1>1, UpstreamKept
<1>4. Scheduled \subseteq job.ops /\ \A q \in Scheduled : placed[q].start \in Nat
  BY <1>2 DEF IInv, Partition, SlotFacts, Slotted
<1>5. now \in Nat
  BY <1>2 DEF SlotFacts
<1> DEFINE After(p, t) == {q \in Upstream(p) \cap Scheduled' : placed'[q].end <= t}
           Witness(p, t) ==
             /\ p \in Scheduled' /\ placed'[p].start <= t
             /\ job.buffer[p] = None \/ Cardinality(After(p, placed'[p].start)) >= job.buffer[p]
<1>6. ASSUME NEW q \in Scheduled, job.buffer[q] # None
      PROVE  \E p \in SamePlace(q) : Witness(p, placed[q].start)
  <2>1. PICK p \in SamePlace(q) \cap Scheduled :
             /\ placed[p].start <= placed[q].start
             /\ job.buffer[p] = None
                \/ Cardinality(CompletedUpstream(p, placed[p].start)) >= job.buffer[p]
    BY <1>2, <1>6 DEF BufferRespected
  <2>2. job.buffer[p] # None => job.buffer[p] \in Nat
    BY <1>2, <1>4, JobsAreJobs DEF SlotFacts
  <2>3. job.buffer[p] # None => Cardinality(After(p, placed[p].start)) >= job.buffer[p]
    BY <1>2, <2>1, <2>2, MoreCompleted
  <2>4. placed'[p].start = placed[p].start /\ p \in Scheduled'
    BY <1>1, <2>1
  <2> HIDE DEF After
  <2> QED BY <2>1, <2>3, <2>4
<1>7. ASSUME job.buffer[o] # None
      PROVE  \E p \in SamePlace(o) : Witness(p, now)
  <2>1. CASE DownstreamStarted(o)
    <3>1. PICK q \in SamePlace(o) \cap Scheduled : placed[q].start <= now
      BY <2>1 DEF DownstreamStarted
    <3>2. SamePlace(q) = SamePlace(o)
      BY <3>1 DEF SamePlace
    <3>3. CASE job.buffer[q] = None
      <4>1. Witness(q, now)
        BY <1>1, <3>1, <3>3
      <4> QED BY <3>1, <4>1
    <3>4. CASE job.buffer[q] # None
      <4>1. PICK p \in SamePlace(q) : Witness(p, placed[q].start)
        BY <1>6, <3>1, <3>4
      <4>2. placed'[p].start \in Nat /\ placed[q].start \in Nat
        BY <1>1, <1>4, <1>5, <3>1, <4>1
      <4>3. placed'[p].start <= now
        BY <1>5, <3>1, <4>1, <4>2
      <4> HIDE DEF After
      <4>4. Witness(p, now)
        BY <4>1, <4>3
      <4> QED BY <3>2, <4>4
    <3> QED BY <3>3, <3>4
  <2>2. CASE Cardinality(CompletedUpstream(o, now)) >= job.buffer[o]
    <3>1. job.buffer[o] \in Nat
      BY <1>1, <1>2, <1>7, JobsAreJobs DEF SlotFacts
    <3>2. Cardinality(After(o, now)) >= job.buffer[o]
      BY <1>2, <2>2, <3>1, MoreCompleted
    <3>3. o \in SamePlace(o)
      BY <1>1 DEF SamePlace
    <3> HIDE DEF After
    <3>4. Witness(o, now)
      BY <1>1, <1>5, <3>2
    <3> QED BY <3>3, <3>4
  <2> QED BY <1>2, <1>7, <2>1, <2>2 DEF BufferReleased
<1>8. ASSUME NEW q \in Scheduled', job.buffer[q] # None
      PROVE  \E p \in SamePlace(q) : Witness(p, placed'[q].start)
  BY <1>1, <1>6, <1>7, <1>8
<1>9. \A p : (CompletedUpstream(p, placed[p].start))' = After(p, placed'[p].start)
  BY <1>3 DEF CompletedUpstream
<1> HIDE DEF After
<1> QED BY <1>1, <1>3, <1>8, <1>9 DEF BufferRespected

LEMMA BufferKeeping ==
  ASSUME BInv, UNCHANGED <<job, placed>>
  PROVE  BufferRespected'
<1>1. \A q : Upstream(q)' = Upstream(q) /\ SamePlace(q)' = SamePlace(q)
  BY UpstreamKept
<1>2. Scheduled' = Scheduled
  BY DEF Scheduled
<1>3. \A p : (CompletedUpstream(p, placed[p].start))' = CompletedUpstream(p, placed[p].start)
  BY <1>1, <1>2 DEF CompletedUpstream
<1> QED BY <1>1, <1>2, <1>3 DEF BInv, BufferRespected

LEMMA ReleaseKeeping ==
  ASSUME UNCHANGED <<job, placed, now>>, NEW o
  PROVE  BufferReleased(o)' = BufferReleased(o)
<1>1. Upstream(o)' = Upstream(o) /\ SamePlace(o)' = SamePlace(o)
  BY UpstreamKept
<1>2. Scheduled' = Scheduled
  BY DEF Scheduled
<1>3. (CompletedUpstream(o, now))' = CompletedUpstream(o, now) /\ DownstreamStarted(o)' = DownstreamStarted(o)
  BY <1>1, <1>2 DEF CompletedUpstream, DownstreamStarted
<1> QED BY <1>3 DEF BufferReleased

LEMMA BufferInductive == IInv /\ BInv /\ [Next]_vars => BInv'
<1> SUFFICES ASSUME IInv, BInv, [Next]_vars PROVE BInv'
  OBVIOUS
<1>1. SlotFacts'
  BY SlotsInductive DEF BInv
<1>2. SlotFacts /\ ready \subseteq job.ops
  BY DEF BInv, IInv, Partition
<1>3. CASE Decide
  <2>1. UNCHANGED <<job, placed, now>>
    BY <1>3 DEF Decide
  <2>2. ReadyAreReleased'
    <3>1. CASE ready' = ready
      BY <2>1, <3>1, ReleaseKeeping DEF BInv, ReadyAreReleased
    <3>2. CASE ready' = {o \in pending : StructurallyReady(o)}
      BY <2>1, <3>2, ReleaseKeeping DEF ReadyAreReleased, StructurallyReady
    <3> QED BY <1>3, <3>1, <3>2 DEF Decide
  <2> QED BY <1>1, <2>1, <2>2, BufferKeeping DEF BInv
<1>4. ASSUME NEW o \in ready, Continue(o) \/ Dispatch(o)
      PROVE  BInv'
  <2>1. CASE Started(o)
    <3>1. BufferRespected'
      BY <2>1, BufferStarting
    <3>2. ready' \subseteq ready
      BY <2>1 DEF Started
    <3>3. ReadyAreReleased'
      BY <1>2, <2>1, <3>2, StillReleased DEF BInv, ReadyAreReleased
    <3> QED BY <1>1, <3>1, <3>3 DEF BInv
  <2>2. CASE Passed(o)
    <3>1. UNCHANGED <<job, placed, now>> /\ ready' \subseteq ready
      BY <2>2 DEF Passed
    <3>2. ReadyAreReleased'
      BY <3>1, ReleaseKeeping DEF BInv, ReadyAreReleased
    <3> QED BY <1>1, <3>1, <3>2, BufferKeeping DEF BInv
  <2> QED BY <1>4, <2>1, <2>2, Trying
<1>5. CASE Advance
  <2>1. UNCHANGED <<job, placed>> /\ ready' = {}
    BY <1>5 DEF Advance
  <2> QED BY <1>1, <2>1, BufferKeeping DEF BInv, ReadyAreReleased
<1>6. CASE Finish \/ UNCHANGED vars
  <2>1. UNCHANGED <<job, placed, now>> /\ ready' = ready
    BY <1>6 DEF Finish, vars
  <2>2. ReadyAreReleased'
    BY <2>1, ReleaseKeeping DEF BInv, ReadyAreReleased
  <2> QED BY <1>1, <2>1, <2>2, BufferKeeping DEF BInv
<1> QED BY <1>3, <1>4, <1>5, <1>6 DEF Next

LEMMA BufferInitially == Init => BInv
<1> SUFFICES ASSUME Init PROVE BInv
  OBVIOUS
<1>1. Scheduled = {} /\ ready = {}
  BY DEF Init, Scheduled
<1> QED BY <1>1, SlotsInitially DEF BInv, ReadyAreReleased, BufferRespected

(* BuffersHold: on every calendar and with any resources and priorities, a    *)
(* buffered step starts only when k operations of the step before have ended. *)
THEOREM BuffersHold == Spec => []BufferRespected
<1>1. BInv => BufferRespected
  BY DEF BInv
<1> QED BY <1>1, Initially, Inductive, BufferInitially, BufferInductive, PTL DEF Spec

-----------------------------------------------------------------------------
(* Capacity                                                                 *)

(* What a slot takes: of each resource, during the working time of the slot,  *)
(* just what the operation needs.                                           *)
LEMMA Takes ==
  ASSUME NEW o \in Ops, NEW v \in Nat, IsWorkingTime(v), NEW m \in Nat \ {0},
         NEW A, Booked(A), \A a \in A : a.op # o,
         NEW r \in Resources, NEW u \in Nat, IsWorkingTime(u)
  PROVE  LET before == InUse(OfResource(A, r), u)
             after  == InUse(OfResource(A \cup Reserved(o, SlotAt(v, m)), r), u)
         IN IF r \in DOMAIN Need[o] /\ v <= u /\ u < EndOfWork(v, m)
            THEN after = Need[o][r] + before
            ELSE after = before
<1> DEFINE R == Reserved(o, SlotAt(v, m))
           s == WorkingSegments(v, m)
           B == OfResource(A, r)
           C == OfResource(A \cup R, r)
<1>1. Booked(R) /\ \A a : a \in R <=> \E i \in DOMAIN s, q \in DOMAIN Need[o] : a = Allocation(o, q, s[i])
  BY ReservedParts
<1>2. Covers(s, <<v, m>>) /\ EndOfWork(v, m) = End(s) /\ EndOfWork(v, m) \in Nat
  BY WorkFrom, EndAfter DEF EndOfWork
<1>20. \A i \in DOMAIN s : s[i] \in Piece
  BY SlotParts
<1>3. Booked(A \cup R)
  BY <1>1, BookedUnion
<1>4. Booked(B) /\ Booked(C)
  <2>1. B \in SUBSET A /\ C \in SUBSET (A \cup R)
    BY DEF OfResource
  <2> HIDE DEF B, C, R
  <2> QED BY <1>3, <2>1, FS_Subset DEF Booked
<1> HIDE DEF s, R
<1>5. /\ \A i \in DOMAIN s : /\ s[i].start \in Nat /\ s[i].end \in Nat /\ s[i].start < s[i].end
                            /\ v <= s[i].start /\ s[i].end <= End(s)
      /\ \A i, j \in DOMAIN s : i < j => s[i].end <= s[j].start
      /\ DOMAIN s \subseteq Nat
  <2>1. \A i \in DOMAIN s : s[i].start \in Nat /\ s[i].end \in Nat
    BY <1>20 DEF Piece
  <2>2. DOMAIN s \subseteq Nat
    <3>1. s \in Seq(Piece)
      BY <1>2 DEF Covers
    <3>2. DOMAIN s = 1 .. Len(s) /\ Len(s) \in Nat
      BY <3>1
    <3> QED BY <3>2
  <2> QED BY <1>2, <2>1, <2>2 DEF Covers
<1>6. B \subseteq C /\ (\A a \in C : a \in B \/ (a \in R /\ a.resource = r)) /\ (\A a \in B : a.op # o)
  BY DEF OfResource
<1>7. CASE ~ (r \in DOMAIN Need[o] /\ v <= u /\ u < EndOfWork(v, m))
  <2>1. ASSUME NEW a \in HeldAt(C, u), a \notin B
        PROVE  FALSE
    <3>1. a \in R /\ a.resource = r /\ a.start <= u /\ u < a.end
      BY <1>6, <2>1 DEF HeldAt
    <3>2. PICK i \in DOMAIN s, q \in DOMAIN Need[o] : a = Allocation(o, q, s[i])
      BY <1>1, <3>1
    <3>3. q = r /\ a.start = s[i].start /\ a.end = s[i].end
      BY <3>1, <3>2 DEF Allocation
    <3> QED BY <1>2, <1>5, <1>7, <3>1, <3>2, <3>3
  <2>2. HeldAt(C, u) = HeldAt(B, u)
    BY <1>6, <2>1 DEF HeldAt
  <2>3. InUse(C, u) <= InUse(B, u) /\ InUse(B, u) <= InUse(C, u) /\ InUse(B, u) \in Nat /\ InUse(C, u) \in Nat
    BY <1>4, <2>2, InUseMore, InUseTotal
  <2> HIDE DEF B, C
  <2>4. InUse(C, u) = InUse(B, u)
    BY <2>3
  <2> QED BY <1>7, <2>4 DEF B, C, R
<1>8. CASE r \in DOMAIN Need[o] /\ v <= u /\ u < EndOfWork(v, m)
  <2>1. PICK i \in DOMAIN s : Within(u, s[i])
    BY <1>2, <1>8 DEF Covers
  <2>2. \A j \in DOMAIN s : Within(u, s[j]) => j = i
    BY <1>5, <2>1 DEF Within
  <2> DEFINE a == Allocation(o, r, s[i])
             f == [x \in C |-> x.quantity]
             e == [x \in B |-> x.quantity]
             H == HeldAt(B, u)
  <2>3. a \in R /\ a.resource = r /\ a.op = o /\ a.quantity = Need[o][r] /\ a.start = s[i].start /\ a.end = s[i].end
    BY <1>1, <1>8 DEF Allocation
  <2>4. a \in C /\ a \notin B /\ a \in HeldAt(C, u)
    BY <1>6, <2>1, <2>3 DEF OfResource, HeldAt, Within
  <2>5. ASSUME NEW b \in HeldAt(C, u), b \notin B
        PROVE  b = a
    <3>1. b \in R /\ b.resource = r /\ b.start <= u /\ u < b.end
      BY <1>6, <2>5 DEF HeldAt
    <3>2. PICK j \in DOMAIN s, q \in DOMAIN Need[o] : b = Allocation(o, q, s[j])
      BY <1>1, <3>1
    <3>3. q = r /\ b.start = s[j].start /\ b.end = s[j].end
      BY <3>1, <3>2 DEF Allocation
    <3>4. j = i
      BY <2>2, <3>1, <3>3 DEF Within
    <3> QED BY <3>2, <3>3, <3>4
  <2> HIDE DEF a
  <2>6. HeldAt(C, u) = H \cup {a} /\ a \notin H /\ H \subseteq B
    BY <1>6, <2>4, <2>5 DEF HeldAt
  <2>7. IsFiniteSet(H) /\ IsFiniteSet(HeldAt(C, u))
    BY <1>4, FS_Subset DEF HeldAt, Booked
  <2>8. \A x \in H \cup {a} : f[x] \in Int
    <3>1. \A x \in C : x.quantity \in Nat
      BY <1>4 DEF Booked
    <3>2. H \cup {a} \subseteq C
      BY <1>6, <2>4, <2>6
    <3>3. \A x \in C : f[x] = x.quantity
      OBVIOUS
    <3> HIDE DEF f, C, H
    <3> QED BY <3>1, <3>2, <3>3
  <2>9. \A x \in H : f[x] = e[x]
    BY <1>6, <2>6
  <2>10. InUse(C, u) = Total(f, H \cup {a}) /\ InUse(B, u) = Total(e, H)
    BY <1>4, <2>6, InUseTotal
  <2>11. f[a] = Need[o][r]
    BY <2>3, <2>4
  <2> HIDE DEF f, e, H
  <2>12. Total(f, H \cup {a}) = f[a] + Total(f, H)
    BY <2>6, <2>7, <2>8, TotalAdd
  <2>13. Total(f, H) = Total(e, H)
    BY <2>7, <2>8, <2>9, TotalSame
  <2>14. InUse(C, u) = Need[o][r] + InUse(B, u)
    BY <2>10, <2>11, <2>12, <2>13
  <2> QED BY <1>8, <2>14 DEF C, B, R
<1> QED BY <1>7, <1>8 DEF B, C, R

Load(r) == [p \in Ops |-> IF r \in DOMAIN Need[p] THEN Need[p][r] ELSE 0]

(* The allocations are a ledger of what the scheduled operations need, and    *)
(* never exceed what there is.                                              *)
Balanced(r, u) ==
  IsWorkingTime(u) =>
    /\ InUse(OfResource(allocations, r), u) = Total(Load(r), Working(r, u))
    /\ InUse(OfResource(allocations, r), u) <= Capacity[r]
Ledger == \A r \in Resources, u \in Nat : Balanced(r, u)

LEMMA WorkingFinite ==
  ASSUME IInv, SlotFacts, NEW r, NEW u
  PROVE  /\ Working(r, u) \in SUBSET Ops /\ IsFiniteSet(Working(r, u))
         /\ \A p \in Working(r, u) : r \in DOMAIN Need[p]
BY SchedulerAssumption, JobsAreJobs, FS_Subset DEF Working, IInv, Partition, SlotFacts

LEMMA LoadNat == \A r \in Resources : \A p \in Ops : Load(r)[p] \in Nat
<1> TAKE r \in Resources
<1> TAKE p \in Ops
<1>1. r \in DOMAIN Need[p] => Need[p][r] \in 1 .. Capacity[r]
  BY SchedulerAssumption
<1> QED BY <1>1, CapacityAssumption DEF Load

LEMMA LedgerStarting ==
  ASSUME IInv, SlotFacts, Ledger, NEW o \in ready, Started(o),
         NEW r \in Resources, NEW u \in Nat, IsWorkingTime(u)
  PROVE  /\ InUse(OfResource(allocations', r), u) = Total(Load(r), Working(r, u)')
         /\ InUse(OfResource(allocations', r), u) <= Capacity[r]
<1> DEFINE W == Working(r, u)
           X == {p \in Scheduled' : /\ r \in DOMAIN Need[p]
                                    /\ placed'[p].start <= u /\ u < placed'[p].end}
           m == job.duration[o]
           before == InUse(OfResource(allocations, r), u)
           after == InUse(OfResource(allocations', r), u)
           holds == r \in DOMAIN Need[o] /\ now <= u /\ u < EndOfWork(now, m)
<1>1. o \in job.ops /\ o \notin Scheduled /\ Slot(o).start = now /\ now \in Nat
  BY DEF Started, IInv, Partition, SlotFacts
<1>2. /\ Earliest(now, now, m, Need[o], allocations) /\ Slot(o) = SlotAt(now, m)
      /\ o \in Ops /\ m \in Nat \ {0} /\ IsNeed(Need[o])
  BY <1>1, SlotIsEarliest
<1>3. /\ Scheduled' = Scheduled \cup {o} /\ placed'[o] = SlotAt(now, m)
      /\ \A q \in Scheduled : placed'[q] = placed[q]
      /\ allocations' = allocations \cup Reserved(o, SlotAt(now, m))
  BY <1>1, <1>2 DEF Started, Place, Scheduled
<1>4. IsWorkingTime(now) /\ Feasible(now, m, Need[o], allocations)
  BY <1>2 DEF Earliest
<1>5. placed'[o].start = now /\ placed'[o].end = EndOfWork(now, m)
  BY <1>1, <1>2, <1>3, <1>4, SlotParts
<1>6. \A a \in allocations : a.op # o
  <2> TAKE a \in allocations
  <2>1. PICK p \in Scheduled : a \in Reserved(p, placed[p])
    BY DEF SlotFacts
  <2>2. a.op = p
    BY <2>1 DEF Reserved, Taken
  <2> QED BY <1>1, <2>1, <2>2
<1>7. Booked(allocations)
  BY DEF SlotFacts
<1>8. IF holds THEN after = Need[o][r] + before ELSE after = before
  BY <1>1, <1>2, <1>3, <1>4, <1>6, <1>7, Takes
<1>9. before = Total(Load(r), W) /\ before <= Capacity[r]
  BY DEF Ledger, Balanced
<1>10. W \in SUBSET Ops /\ IsFiniteSet(W) /\ W \subseteq Scheduled
  BY WorkingFinite DEF Working
<1>11. X = IF holds THEN W \cup {o} ELSE W
  BY <1>1, <1>3, <1>5 DEF Working
<1>12. Working(r, u)' = X
  BY DEF Working
<1> HIDE DEF W, X, m
<1>13. CASE holds
  <2>1. Total(Load(r), W \cup {o}) = Load(r)[o] + Total(Load(r), W)
    <3>1. \A p \in W \cup {o} : Load(r)[p] \in Int
      BY <1>2, <1>10, LoadNat
    <3>2. o \notin W
      BY <1>1, <1>10
    <3> QED BY <1>10, <3>1, <3>2, TotalAdd
  <2>2. Load(r)[o] = Need[o][r]
    BY <1>2, <1>13 DEF Load
  <2>3. after <= Capacity[r]
    <3>1. RoomAt(u, Need[o], allocations)
      BY <1>1, <1>2, <1>4, <1>7, <1>13, FeasibleMeans
    <3>2. before + Need[o][r] <= Capacity[r]
      BY <1>13, <3>1 DEF RoomAt
    <3>3. before \in Nat /\ Need[o][r] \in Nat
      <4>1. Booked(OfResource(allocations, r))
        BY <1>7, FS_Subset DEF Booked, OfResource
      <4>2. Need[o][r] \in Nat
        BY <1>2, <2>2, LoadNat
      <4> QED BY <4>1, <4>2, InUseTotal
    <3> QED BY <1>8, <1>13, <3>2, <3>3
  <2>4. after = Total(Load(r), X)
    <3> HIDE DEF before, after, holds
    <3> QED BY <1>8, <1>9, <1>11, <1>13, <2>1, <2>2
  <2> QED BY <1>12, <2>3, <2>4
<1>14. CASE ~ holds
  BY <1>8, <1>9, <1>11, <1>12, <1>14
<1> QED BY <1>13, <1>14

LEMMA LedgerInductive == IInv /\ SlotFacts /\ Ledger /\ [Next]_vars => Ledger'
<1> SUFFICES ASSUME IInv, SlotFacts, Ledger, [Next]_vars PROVE Ledger'
  OBVIOUS
<1>1. ASSUME UNCHANGED <<placed, allocations>>
      PROVE  Ledger'
  <2>1. \A r, u : (Working(r, u))' = Working(r, u)
    BY <1>1 DEF Working, Scheduled
  <2>2. \A r, u : Balanced(r, u)' = Balanced(r, u)
    BY <1>1, <2>1 DEF Balanced
  <2> QED BY <2>2 DEF Ledger
<1>2. ASSUME NEW o \in ready, Continue(o) \/ Dispatch(o)
      PROVE  Ledger'
  <2>1. CASE Started(o)
    BY <2>1, LedgerStarting DEF Ledger, Balanced
  <2>2. CASE Passed(o)
    BY <1>1, <2>2 DEF Passed
  <2> QED BY <1>2, <2>1, <2>2, Trying
<1> QED BY <1>1, <1>2 DEF Next, Decide, Advance, Finish, vars

LEMMA LedgerEmpty ==
  ASSUME Scheduled = {}, allocations = {}
  PROVE  Ledger
<1> SUFFICES ASSUME NEW r \in Resources, NEW u \in Nat
             PROVE  Balanced(r, u)
  BY DEF Ledger
<1>1. OfResource(allocations, r) = {} /\ HeldAt({}, u) = {} /\ Working(r, u) = {}
  BY DEF OfResource, HeldAt, Working
<1>2. Booked({})
  BY FS_EmptySet DEF Booked
<1>3. InUse({}, u) = 0
  BY <1>1, <1>2, InUseNone
<1>4. Total(Load(r), {}) = 0
  BY TotalEmpty
<1> QED BY <1>1, <1>3, <1>4, CapacityAssumption DEF Balanced

LEMMA NeedTotal ==
  ASSUME NEW r \in Resources, NEW W \in SUBSET Ops, IsFiniteSet(W), \A p \in W : r \in DOMAIN Need[p]
  PROVE  MapThenSumSet(LAMBDA p : Need[p][r], W) = Total(Load(r), W)
<1> DEFINE f == Load(r)
           k == CHOOSE k : k = [T \in SUBSET W |->
                   IF T = {} THEN 0
                   ELSE Need[CHOOSE x \in T : TRUE][r] + k[T \ {CHOOSE x \in T : TRUE}]]
<1>1. \A a \in W : f[a] \in Int
  BY LoadNat
<1>2. PICK g : AddsUp(g, f, W)
  <2> HIDE DEF f
  <2> QED BY <1>1, AddsUpSome
<1>3. \A T \in SUBSET W : T # {} => Need[CHOOSE x \in T : TRUE][r] = f[CHOOSE x \in T : TRUE]
  <2> TAKE T \in SUBSET W
  <2> HAVE T # {}
  <2>1. (CHOOSE x \in T : TRUE) \in W
    OBVIOUS
  <2> QED BY <2>1 DEF Load
<1> HIDE DEF f
<1>4. g = [T \in SUBSET W |->
             IF T = {} THEN 0
             ELSE Need[CHOOSE x \in T : TRUE][r] + g[T \ {CHOOSE x \in T : TRUE}]]
  BY <1>2, <1>3 DEF AddsUp
<1>5. k = [T \in SUBSET W |->
             IF T = {} THEN 0
             ELSE Need[CHOOSE x \in T : TRUE][r] + k[T \ {CHOOSE x \in T : TRUE}]]
  BY <1>4
<1>6. MapThenSumSet(LAMBDA p : Need[p][r], W) = k[W]
  BY DEF MapThenSumSet, MapThenFoldSet
<1> HIDE DEF k
<1>7. AddsUp(k, f, W)
  BY <1>3, <1>5 DEF AddsUp
<1>8. Total(f, W) = k[W]
  BY <1>1, <1>7, TotalSums
<1> QED BY <1>6, <1>8 DEF f

LEMMA LedgerSound ==
  ASSUME IInv, SlotFacts, Ledger
  PROVE  SlotsSound
<1> SUFFICES ASSUME NEW o \in Scheduled
             PROVE  LET s == placed[o]
                        worked == Worked(s.start, s.end)
                    IN /\ IsWorkingTime(s.start) /\ IsWorkingTime(s.end - 1)
                       /\ Cardinality(worked) = job.duration[o]
                       /\ worked = UNION {s.segments[i].start .. s.segments[i].end - 1 :
                                            i \in DOMAIN s.segments}
                       /\ \A t \in worked : \A r \in DOMAIN Need[o] :
                            MapThenSumSet(LAMBDA p : Need[p][r], Working(r, t)) <= Capacity[r]
  BY DEF SlotsSound
<1> DEFINE v == placed[o].start
           m == job.duration[o]
           e == EndOfWork(v, m)
           s == WorkingSegments(v, m)
<1>1. o \in Ops /\ m \in Nat \ {0} /\ v \in Nat /\ IsWorkingTime(v) /\ placed[o] = SlotAt(v, m)
  BY JobsAreJobs DEF IInv, Partition, SlotFacts, Slotted
<1>2. /\ placed[o].end = e /\ placed[o].segments = s /\ e \in Nat /\ v < e
      /\ \A i \in DOMAIN s : s[i] \in Piece
  BY <1>1, SlotParts
<1>3. Covers(s, <<v, m>>) /\ e = End(s)
  BY <1>1, WorkFrom DEF EndOfWork
<1> HIDE DEF v, m, e, s
<1>4. IsWorkingTime(e - 1) /\ Cardinality(Worked(v, e)) = m
  BY <1>3 DEF Covers
<1>5. Worked(v, e) = UNION {s[i].start .. s[i].end - 1 : i \in DOMAIN s}
  <2>1. \A i \in DOMAIN s : s[i].start \in Nat /\ s[i].end \in Nat
    BY <1>2 DEF Piece
  <2>2. ASSUME NEW u \in Worked(v, e)
        PROVE  \E i \in DOMAIN s : u \in s[i].start .. s[i].end - 1
    <3>1. u \in Nat /\ v <= u /\ u < e /\ IsWorkingTime(u)
      BY <1>1, <1>2, <2>2 DEF Worked
    <3>2. PICK i \in DOMAIN s : Within(u, s[i])
      BY <1>3, <3>1 DEF Covers
    <3>3. u \in s[i].start .. s[i].end - 1
      BY <2>1, <3>1, <3>2 DEF Within
    <3> QED BY <3>3
  <2>3. ASSUME NEW i \in DOMAIN s, NEW u \in s[i].start .. s[i].end - 1
        PROVE  u \in Worked(v, e)
    <3>1. u \in Nat /\ Within(u, s[i])
      BY <2>1, <2>3 DEF Within
    <3>2. IsWorkingTime(u) /\ v <= s[i].start /\ s[i].end <= e
      BY <1>3, <3>1 DEF Covers
    <3> QED BY <1>1, <1>2, <2>1, <2>3, <3>2 DEF Worked
  <2> QED BY <2>2, <2>3
<1>6. ASSUME NEW t \in Worked(v, e), NEW r \in DOMAIN Need[o]
      PROVE  MapThenSumSet(LAMBDA p : Need[p][r], Working(r, t)) <= Capacity[r]
  <2>1. t \in Nat /\ IsWorkingTime(t)
    BY <1>1, <1>2 DEF Worked
  <2>2. r \in Resources
    BY <1>1, SchedulerAssumption
  <2>3. Total(Load(r), Working(r, t)) <= Capacity[r]
    BY <2>1, <2>2 DEF Ledger, Balanced
  <2>4. MapThenSumSet(LAMBDA p : Need[p][r], Working(r, t)) = Total(Load(r), Working(r, t))
    BY <2>2, WorkingFinite, NeedTotal
  <2> QED BY <2>3, <2>4
<1> QED BY <1>1, <1>2, <1>4, <1>5, <1>6 DEF v, m

(* SlotsAreSound: whatever calendar, resources and durations, the slots hold  *)
(* just the work they were made for, and no resource is ever overbooked.     *)
THEOREM SlotsAreSound == Spec => []SlotsSound
<1>1. Init => Ledger
  <2>1. Init => Scheduled = {} /\ allocations = {}
    BY DEF Init, Scheduled
  <2> QED BY <2>1, LedgerEmpty
<1>2. IInv /\ SlotFacts /\ Ledger => SlotsSound
  BY LedgerSound
<1> QED BY <1>1, <1>2, Initially, Inductive, SlotsInitially, SlotsInductive, LedgerInductive, PTL DEF Spec

-----------------------------------------------------------------------------
(* Idleness                                                                 *)

(* An operation could start at an instant, beside what had started by then.   *)
FitsAt(o, t, A) ==
  \E e \in Nat : t < e /\ Fits(t, e, job.duration[o], Need[o], A)
Others(o, t) == {a \in StartedBy(t) : a.op # o}
Idles(o, t) == DueAt(o, t) /\ FitsAt(o, t, Others(o, t))

(* What a turn has tried and not started does not fit; and at no instant so   *)
(* far was an operation idle.                                               *)
Tried ==
  phase \in {"dispatch", "stuck"} =>
    \A o \in pending \ ready : DueAt(o, now) => ~ FitsAt(o, now, allocations)
NoneIdle ==
  \A o \in job.ops : \A t \in Nat :
    job.start <= t /\ t < now /\ (o \in Scheduled => t < placed[o].start) => ~ Idles(o, t)
BusyInv == Tried /\ NoneIdle /\ (phase = "stuck" => ready = {})

LEMMA FitsIsSlot ==
  ASSUME SlotFacts, NEW o \in job.ops, NEW t \in Nat, NEW A, Booked(A)
  PROVE  FitsAt(o, t, A) <=> IsWorkingTime(t) /\ Feasible(t, job.duration[o], Need[o], A)
<1>1. o \in Ops /\ job.duration[o] \in Nat \ {0} /\ IsNeed(Need[o])
  BY SlotIsEarliest
<1>2. ASSUME FitsAt(o, t, A)
      PROVE  IsWorkingTime(t) /\ Feasible(t, job.duration[o], Need[o], A)
  BY <1>1, <1>2, FitsMeans DEF FitsAt
<1>3. ASSUME IsWorkingTime(t), Feasible(t, job.duration[o], Need[o], A)
      PROVE  FitsAt(o, t, A)
  <2> DEFINE e == EndOfWork(t, job.duration[o])
  <2>1. e \in Nat /\ t < e
    BY <1>1, <1>3, EndAfter
  <2>2. Fits(t, e, job.duration[o], Need[o], A)
    BY <1>1, <1>3, <2>1, FitsMeans
  <2> QED BY <2>1, <2>2 DEF FitsAt
<1> QED BY <1>2, <1>3

(* It starts now if it fits now, and not before it fits.                     *)
LEMMA SlotIsNow ==
  ASSUME SlotFacts, NEW o \in job.ops
  PROVE  /\ Slot(o).start = now <=> FitsAt(o, now, allocations)
         /\ Slot(o).start \in Nat /\ now <= Slot(o).start
         /\ \A t \in Nat : now <= t /\ t < Slot(o).start => ~ FitsAt(o, t, allocations)
<1> DEFINE v == Slot(o).start
<1>1. Earliest(now, v, job.duration[o], Need[o], allocations)
  BY SlotIsEarliest
<1>2. now \in Nat /\ Booked(allocations)
  BY DEF SlotFacts
<1> HIDE DEF v
<1>3. /\ v \in Nat /\ now <= v /\ IsWorkingTime(v) /\ Feasible(v, job.duration[o], Need[o], allocations)
      /\ \A u \in Nat : now <= u /\ u < v /\ IsWorkingTime(u) =>
            ~ Feasible(u, job.duration[o], Need[o], allocations)
  BY <1>1 DEF Earliest
<1>4. \A t \in Nat : now <= t /\ t < v => ~ FitsAt(o, t, allocations)
  BY <1>2, <1>3, FitsIsSlot
<1>5. v = now => FitsAt(o, now, allocations)
  BY <1>2, <1>3, FitsIsSlot
<1> QED BY <1>2, <1>3, <1>4, <1>5 DEF v

LEMMA DueIsReady ==
  ASSUME NEW o, DueAt(o, now)
  PROVE  StructurallyReady(o)
BY DEF DueAt, StructurallyReady, Due, PredecessorsCompleted, BufferReleased

(* What starts now is neither over nor begun at an earlier instant.          *)
LEMMA EarlierUnchanged ==
  ASSUME IInv, SlotFacts, NEW p \in ready, Started(p), NEW o, NEW t \in Nat, t <= now
  PROVE  /\ DueAt(o, t)' => DueAt(o, t)
         /\ t < now => StartedBy(t)' = StartedBy(t)
         /\ \A q : q \in Scheduled' /\ placed'[q].end <= t => q \in Scheduled /\ placed[q].end <= t
         /\ (CompletedUpstream(o, t))' = CompletedUpstream(o, t)
<1>1. p \in job.ops /\ p \notin Scheduled /\ Slot(p).start = now /\ now \in Nat
  BY DEF Started, IInv, Partition, SlotFacts
<1>2. /\ Earliest(now, now, job.duration[p], Need[p], allocations) /\ Slot(p) = SlotAt(now, job.duration[p])
      /\ p \in Ops /\ job.duration[p] \in Nat \ {0}
  BY <1>1, SlotIsEarliest
<1>3. /\ Scheduled' = Scheduled \cup {p} /\ placed'[p] = SlotAt(now, job.duration[p])
      /\ \A q \in Scheduled : placed'[q] = placed[q]
      /\ allocations' = allocations \cup Reserved(p, Slot(p))
      /\ job' = job /\ now' = now
  BY <1>1, <1>2 DEF Started, Place, Scheduled
<1>4. placed'[p].start = now /\ placed'[p].end \in Nat /\ now < placed'[p].end
  BY <1>1, <1>2, <1>3, SlotParts DEF Earliest
<1>5. Upstream(o)' = Upstream(o)
  BY <1>3, UpstreamKept
<1>6. (CompletedUpstream(o, t))' = CompletedUpstream(o, t)
  <2>1. (CompletedUpstream(o, t))' = {q \in Upstream(o) \cap Scheduled' : placed'[q].end <= t}
    BY <1>5 DEF CompletedUpstream
  <2>2. ~ (placed'[p].end <= t)
    BY <1>1, <1>4
  <2>3. {q \in Upstream(o) \cap Scheduled' : placed'[q].end <= t} = {q \in Upstream(o) \cap Scheduled : placed[q].end <= t}
    BY <1>1, <1>3, <2>2
  <2> QED BY <2>1, <2>3 DEF CompletedUpstream
<1>7. DueAt(o, t)' => DueAt(o, t)
  <2>1. ~ (placed'[p].end <= t)
    BY <1>1, <1>4
  <2>2. \A q : q \in Scheduled' /\ placed'[q].end <= t => q \in Scheduled /\ placed[q].end <= t
    BY <1>1, <1>3, <2>1
  <2>3. (Cardinality(CompletedUpstream(o, t)))' = Cardinality(CompletedUpstream(o, t))
    BY <1>6
  <2> QED BY <1>3, <2>2, <2>3 DEF DueAt, Before
<1>8. \A a \in allocations : a.op \in Scheduled
  <2> TAKE a \in allocations
  <2>1. PICK q \in Scheduled : a \in Reserved(q, placed[q])
    BY DEF SlotFacts
  <2> QED BY <2>1 DEF Reserved, Taken
<1>9. \A a \in Reserved(p, Slot(p)) : a.op = p
  BY DEF Reserved, Taken
<1>10. ASSUME t < now
       PROVE  StartedBy(t)' = StartedBy(t)
  <2>1. ~ (placed'[p].start <= t)
    BY <1>1, <1>4, <1>10
  <2> QED BY <1>3, <1>8, <1>9, <2>1 DEF StartedBy
<1>11. \A q : q \in Scheduled' /\ placed'[q].end <= t => q \in Scheduled /\ placed[q].end <= t
  <2>1. ~ (placed'[p].end <= t)
    BY <1>1, <1>4
  <2> QED BY <1>1, <1>3, <2>1
<1> QED BY <1>6, <1>7, <1>10, <1>11

(* While no slot changes, neither does what was due or had started by then.    *)
LEMMA IdleKeeping ==
  ASSUME UNCHANGED <<job, placed, allocations>>, NEW o, NEW t
  PROVE  /\ DueAt(o, t)' <=> DueAt(o, t)
         /\ StartedBy(t)' = StartedBy(t)
         /\ \A A : FitsAt(o, t, A)' <=> FitsAt(o, t, A)
         /\ Idles(o, t)' <=> Idles(o, t)
<1>1. Upstream(o)' = Upstream(o) /\ Scheduled' = Scheduled
  BY UpstreamKept DEF Scheduled
<1>2. (CompletedUpstream(o, t))' = CompletedUpstream(o, t)
  BY <1>1 DEF CompletedUpstream
<1>3. DueAt(o, t)' <=> DueAt(o, t)
  BY <1>1, <1>2 DEF DueAt, Before
<1>4. StartedBy(t)' = StartedBy(t)
  BY DEF StartedBy
<1>5. \A A : FitsAt(o, t, A)' <=> FitsAt(o, t, A)
  BY DEF FitsAt
<1>6. Others(o, t)' = Others(o, t)
  BY <1>4 DEF Others
<1>7. FitsAt(o, t, Others(o, t))' <=> FitsAt(o, t, Others(o, t))
  BY <1>6 DEF FitsAt
<1> QED BY <1>3, <1>4, <1>5, <1>7 DEF Idles

LEMMA AllocationsAreScheduled ==
  ASSUME SlotFacts
  PROVE  \A a \in allocations : a.op \in Scheduled
<1> TAKE a \in allocations
<1>1. PICK q \in Scheduled : a \in Reserved(q, placed[q])
  BY DEF SlotFacts
<1> QED BY <1>1 DEF Reserved, Taken

(* What does not fit does not fit beside more either.                        *)
LEMMA BusyStarting ==
  ASSUME IInv, SlotFacts, SlotFacts', BusyInv, NEW p \in ready, Started(p)
  PROVE  BusyInv'
<1>1. /\ job' = job /\ now' = now /\ phase' = phase /\ phase = "dispatch"
      /\ pending' = pending \ {p} /\ ready' = ready \ {p}
      /\ allocations \subseteq allocations'
      /\ p \notin Scheduled /\ Scheduled' = Scheduled \cup {p}
      /\ \A q \in Scheduled : placed'[q] = placed[q]
  BY DEF Started, Place, Scheduled, IInv, Partition
<1>2. PICK n \in Nat : n = now
  BY DEF SlotFacts
<1>3. Booked(allocations) /\ Booked(allocations')
  BY DEF SlotFacts, Booked
<1>4. ASSUME NEW o \in job.ops, FitsAt(o, n, allocations')
      PROVE  FitsAt(o, n, allocations)
  <2>1. IsWorkingTime(n) /\ Feasible(n, job.duration[o], Need[o], allocations')
    BY <1>3, <1>4, FitsIsSlot
  <2>2. job.duration[o] \in Nat \ {0} /\ IsNeed(Need[o])
    BY SlotIsEarliest
  <2>3. Feasible(n, job.duration[o], Need[o], allocations)
    BY <1>1, <1>3, <2>1, <2>2, FeasibleFewer
  <2> QED BY <1>3, <2>1, <2>3, FitsIsSlot
<1>5. Tried'
  <2>1. ASSUME NEW o \in pending' \ ready', DueAt(o, n)'
        PROVE  ~ FitsAt(o, n, allocations')
    <3>1. DueAt(o, n)
      BY <1>2, <2>1, EarlierUnchanged
    <3>2. o \in pending \ ready /\ o \in job.ops
      BY <1>1, <2>1 DEF IInv, Partition
    <3>3. ~ FitsAt(o, n, allocations)
      BY <1>1, <1>2, <3>1, <3>2 DEF BusyInv, Tried
    <3> QED BY <1>4, <3>2, <3>3
  <2>2. \A o : DueAt(o, now)' => DueAt(o, n)'
    BY <1>1, <1>2 DEF DueAt, CompletedUpstream
  <2>3. \A o : FitsAt(o, now, allocations)' => FitsAt(o, n, allocations')
    BY <1>1, <1>2 DEF FitsAt
  <2> QED BY <2>1, <2>2, <2>3 DEF Tried
<1>6. NoneIdle'
  <2>1. ASSUME NEW o \in job.ops, NEW t \in Nat, job.start <= t, t < now,
               o \in Scheduled' => t < placed'[o].start, Idles(o, t)'
        PROVE  FALSE
    <3>1. DueAt(o, t) /\ StartedBy(t)' = StartedBy(t)
      BY <1>2, <2>1, EarlierUnchanged DEF Idles
    <3>2. FitsAt(o, t, Others(o, t))' => FitsAt(o, t, Others(o, t))
      BY <1>1, <3>1 DEF FitsAt, Others
    <3>3. Idles(o, t)
      BY <2>1, <3>1, <3>2 DEF Idles
    <3> QED BY <1>1, <2>1, <3>3 DEF BusyInv, NoneIdle
  <2> QED BY <1>1, <2>1 DEF NoneIdle
<1> QED BY <1>1, <1>5, <1>6 DEF BusyInv

(* No instant is missed between two decisions: what makes an operation due    *)
(* or lets it fit is an event.                                              *)
LEMMA NothingMissed ==
  ASSUME IInv, SlotFacts, BusyInv, phase = "dispatch", ready = {}, Future # {},
         NEW o \in pending, NEW t \in Nat, now <= t, t < Min(Future)
  PROVE  ~ Idles(o, t)
<1> SUFFICES ASSUME DueAt(o, t), FitsAt(o, t, Others(o, t))
             PROVE  FALSE
  BY DEF Idles
<1>1. /\ Min(Future) \in Nat /\ now \in Nat /\ o \in job.ops /\ o \notin Scheduled
      /\ \A e \in Events : e > now => Min(Future) <= e
  BY ClockMoves DEF Future, SlotFacts, IInv, Partition
<1>2. Events \subseteq Nat
  BY EventsAreTimes
<1>3. \A e \in Events : e <= t => e <= now
  BY <1>1, <1>2
<1>4. job.release[o] \in Events /\ job.eligible[o] \in Events
      /\ \A q \in Scheduled : placed[q].end \in Events
  BY DEF Events
<1>5. DueAt(o, now)
  <2>1. CompletedUpstream(o, t) = CompletedUpstream(o, now)
    <3>1. \A q \in Scheduled : placed[q].end <= t <=> placed[q].end <= now
      <4> TAKE q \in Scheduled
      <4>1. placed[q].end \in Nat
        BY <1>2, <1>4
      <4>2. placed[q].end <= now => placed[q].end <= t
        BY <1>1, <4>1
      <4> QED BY <1>3, <1>4, <4>2
    <3> QED BY <3>1 DEF CompletedUpstream
  <2>2. job.release[o] <= now /\ job.eligible[o] <= now
    BY <1>3, <1>4 DEF DueAt
  <2>3. \A q \in job.ops : Before(q, o) => q \in Scheduled /\ placed[q].end <= now
    BY <1>3, <1>4 DEF DueAt
  <2> QED BY <2>1, <2>2, <2>3 DEF DueAt
<1>6. ~ FitsAt(o, now, allocations)
  BY <1>5 DEF BusyInv, Tried
<1>7. StructurallyReady(o)
  BY <1>5, DueIsReady
<1>8. Slot(o).start \in Events
  BY <1>7 DEF Events
<1>9. Slot(o).start # now /\ Slot(o).start \in Nat /\ now <= Slot(o).start
  BY <1>1, <1>6, SlotIsNow
<1>10. t < Slot(o).start
  BY <1>1, <1>8, <1>9
<1>11. ~ FitsAt(o, t, allocations)
  BY <1>1, <1>10, SlotIsNow
<1>12. Others(o, t) = allocations
  <2>1. \A a \in allocations : a.op # o /\ placed[a.op].start <= t
    <3> TAKE a \in allocations
    <3>1. a.op \in Scheduled
      BY AllocationsAreScheduled
    <3>2. placed[a.op].start \in Nat /\ placed[a.op].start <= now
      BY <3>1 DEF SlotFacts, Slotted
    <3> QED BY <1>1, <3>1, <3>2
  <2> QED BY <2>1 DEF Others, StartedBy
<1> QED BY <1>11, <1>12

LEMMA BusyInductive == IInv /\ SlotFacts /\ BusyInv /\ [Next]_vars => BusyInv'
<1> SUFFICES ASSUME IInv, SlotFacts, BusyInv, [Next]_vars PROVE BusyInv'
  OBVIOUS
<1>1. SlotFacts'
  BY SlotsInductive
<1>2. PICK n \in Nat : n = now
  BY DEF SlotFacts
<1>3. ASSUME UNCHANGED <<job, placed, allocations, now>>
      PROVE  /\ NoneIdle'
             /\ \A o : DueAt(o, now)' <=> DueAt(o, now)
             /\ \A o : FitsAt(o, now, allocations)' <=> FitsAt(o, now, allocations)
  <2>1. \A o, t : Idles(o, t)' <=> Idles(o, t)
    BY <1>3, IdleKeeping
  <2>2. NoneIdle'
    BY <1>3, <2>1 DEF NoneIdle, BusyInv, Scheduled
  <2>3. \A o : DueAt(o, n)' <=> DueAt(o, n)
    BY <1>3, IdleKeeping
  <2>4. \A o : DueAt(o, now)' <=> DueAt(o, n)'
    BY <1>2, <1>3 DEF DueAt, CompletedUpstream
  <2>5. \A o : FitsAt(o, now, allocations)' <=> FitsAt(o, now, allocations)
    BY <1>3 DEF FitsAt
  <2> QED BY <1>2, <2>2, <2>3, <2>4, <2>5
<1>4. CASE Decide
  <2>1. UNCHANGED <<job, placed, allocations, now>> /\ pending' = pending
    BY <1>4 DEF Decide
  <2>2. phase' = "refused" \/ (phase' = "dispatch" /\ ready' = {o \in pending : StructurallyReady(o)})
    BY <1>4 DEF Decide
  <2>3. Tried'
    BY <1>3, <2>1, <2>2, DueIsReady DEF Tried
  <2> QED BY <1>3, <2>1, <2>2, <2>3 DEF BusyInv
<1>5. ASSUME NEW p \in ready, Continue(p) \/ Dispatch(p)
      PROVE  BusyInv'
  <2>1. CASE Started(p)
    BY <1>1, <2>1, BusyStarting
  <2>2. CASE Passed(p)
    <3>1. UNCHANGED <<job, placed, allocations, now>> /\ pending' = pending
          /\ ready' = ready \ {p} /\ phase = "dispatch" /\ phase' \in {"dispatch", "stopped"}
      BY <2>2 DEF Passed
    <3>2. ~ FitsAt(p, now, allocations)
      BY <2>2, SlotIsNow DEF Passed, IInv, Partition
    <3>3. Tried'
      BY <1>3, <3>1, <3>2 DEF Tried, BusyInv
    <3> QED BY <1>3, <3>1, <3>3 DEF BusyInv
  <2> QED BY <1>5, <2>1, <2>2, Trying
<1>6. CASE Advance
  <2>1. UNCHANGED <<job, placed, allocations>> /\ pending' = pending /\ ready = {} /\ ready' = {}
        /\ phase = "dispatch"
    BY <1>6 DEF Advance
  <2>2. CASE Future = {}
    <3>1. phase' = "stuck" /\ now' = now
      BY <1>6, <2>2 DEF Advance
    <3>2. Tried'
      BY <1>3, <2>1, <3>1 DEF Tried, BusyInv
    <3> QED BY <1>3, <2>1, <3>1, <3>2 DEF BusyInv
  <2>3. CASE Future # {}
    <3>1. phase' = "decide" /\ now' = Min(Future)
      BY <1>6, <2>3 DEF Advance
    <3>2. ASSUME NEW o \in job.ops, NEW t \in Nat, job.start <= t, t < Min(Future),
                 o \in Scheduled => t < placed[o].start
          PROVE  ~ Idles(o, t)
      <4>1. CASE t < now
        BY <3>2, <4>1 DEF BusyInv, NoneIdle
      <4>2. CASE now <= t
        <5>1. o \notin Scheduled
          <6>1. o \in Scheduled => placed[o].start \in Nat /\ placed[o].start <= now
            BY DEF SlotFacts, Slotted
          <6> QED BY <1>2, <3>2, <4>2, <6>1
        <5>2. o \in pending
          BY <5>1 DEF IInv, Partition
        <5> QED BY <2>1, <2>3, <3>2, <4>2, <5>2, NothingMissed
      <4> QED BY <1>2, <4>1, <4>2
    <3>3. \A o, t : Idles(o, t)' <=> Idles(o, t)
      BY <2>1, IdleKeeping
    <3>4. NoneIdle'
      BY <2>1, <3>1, <3>2, <3>3 DEF NoneIdle, Scheduled
    <3> QED BY <2>1, <3>1, <3>4 DEF BusyInv, Tried
  <2> QED BY <2>2, <2>3
<1>7. CASE Finish
  <2>1. UNCHANGED <<job, placed, allocations, now>> /\ phase' = "done"
    BY <1>7 DEF Finish
  <2> QED BY <1>3, <2>1 DEF BusyInv, Tried
<1>8. CASE UNCHANGED vars
  <2>1. UNCHANGED <<job, placed, allocations, now, phase, pending, ready>>
    BY <1>8 DEF vars
  <2>2. Tried'
    BY <1>3, <2>1 DEF Tried, BusyInv
  <2> QED BY <1>3, <2>1, <2>2 DEF BusyInv
<1> QED BY <1>4, <1>5, <1>6, <1>7, <1>8 DEF Next

LEMMA BusyInitially == Init => BusyInv
<1> SUFFICES ASSUME Init PROVE BusyInv
  OBVIOUS
<1>1. phase = "decide" /\ now = job.start /\ now \in Nat
  BY SlotsInitially DEF Init, SlotFacts
<1> QED BY <1>1 DEF BusyInv, Tried, NoneIdle

LEMMA BusyMeans ==
  ASSUME IInv, SlotFacts, BusyInv
  PROVE  NeverIdle
<1> SUFFICES ASSUME NEW o \in job.ops, NEW t,
                    t \in job.start .. (IF o \in Scheduled THEN placed[o].start - 1
                                        ELSE IF phase = "stuck" THEN now ELSE now - 1),
                    DueAt(o, t),
                    NEW e, e \in t + 1 .. (IF o \in Scheduled THEN placed[o].end ELSE Slot(o).end),
                    Fits(t, e, job.duration[o], Need[o], Others(o, t))
             PROVE  FALSE
  BY DEF NeverIdle, Others
<1>1. job.start \in Nat /\ now \in Nat
  BY JobsAreJobs DEF SlotFacts
<1>2. o \in Scheduled => placed[o].start \in Nat /\ placed[o].start <= now
  BY DEF SlotFacts, Slotted
<1>3. t \in Nat /\ job.start <= t /\ (o \in Scheduled => t < placed[o].start)
  BY <1>1, <1>2
<1>4. e \in Nat /\ t < e
  <2>1. o \in Scheduled => placed[o].end \in Nat
    <3> HAVE o \in Scheduled
    <3>1. placed[o] = SlotAt(placed[o].start, job.duration[o]) /\ IsWorkingTime(placed[o].start)
      BY DEF SlotFacts, Slotted
    <3>2. job.duration[o] \in Nat \ {0}
      BY SlotIsEarliest
    <3> QED BY <1>2, <3>1, <3>2, SlotParts
  <2>2. Slot(o).end \in Nat
    BY SlotParts, SlotIsEarliest DEF Earliest
  <2> QED BY <1>3, <2>1, <2>2
<1>5. FitsAt(o, t, Others(o, t))
  BY <1>4 DEF FitsAt
<1>6. CASE t < now
  BY <1>3, <1>5, <1>6 DEF BusyInv, NoneIdle, Idles
<1>7. CASE ~ (t < now)
  <2>1. o \notin Scheduled /\ phase = "stuck" /\ t = now
    BY <1>1, <1>2, <1>3, <1>7
  <2>2. o \in pending \ ready
    BY <2>1 DEF IInv, Partition, BusyInv
  <2>3. Others(o, t) = allocations
    <3>1. \A a \in allocations : a.op # o /\ placed[a.op].start <= t
      BY <2>1, AllocationsAreScheduled DEF SlotFacts, Slotted
    <3> QED BY <3>1 DEF Others, StartedBy
  <2> QED BY <1>5, <2>1, <2>2, <2>3 DEF BusyInv, Tried
<1> QED BY <1>6, <1>7

(* NothingWaitsInVain: whatever the calendar, the resources and the order of  *)
(* priority, the clock misses no instant at which a waiting operation was    *)
(* due and would have fitted beside what had started.                       *)
THEOREM NothingWaitsInVain == Spec => []NeverIdle
<1> QED BY Initially, Inductive, SlotsInitially, SlotsInductive, BusyInitially, BusyInductive, BusyMeans,
           PTL DEF Spec

-----------------------------------------------------------------------------
(* The order of dispatch                                                    *)

(* What the decision found ready does not depend on what starts afterwards.   *)
LEMMA WasReadyKept ==
  ASSUME IInv, SlotFacts, NEW q \in ready, Started(q), NEW p
  PROVE  WasReady(p)' <=> WasReady(p)
<1>1. /\ q \in job.ops /\ q \notin Scheduled /\ Scheduled' = Scheduled \cup {q}
      /\ \A r \in Scheduled : placed'[r] = placed[r]
      /\ job' = job /\ now' = now /\ placed'[q].start = now
  BY DEF Started, Place, Scheduled, IInv, Partition
<1>2. now \in Nat
  BY DEF SlotFacts
<1>3. \A r : (r \in Scheduled' /\ placed'[r].end <= now) <=> (r \in Scheduled /\ placed[r].end <= now)
  BY <1>1, <1>2, EarlierUnchanged
<1>4. \A r : (r \in Scheduled' /\ placed'[r].start < now) <=> (r \in Scheduled /\ placed[r].start < now)
  BY <1>1, <1>2
<1>5. Upstream(p)' = Upstream(p) /\ SamePlace(p)' = SamePlace(p)
  BY <1>1, UpstreamKept
<1>6. CompletedUpstream(p, now)' = CompletedUpstream(p, now)
  BY <1>1, <1>3, <1>5 DEF CompletedUpstream
<1>7. Due(p)' <=> Due(p)
  BY <1>1, <1>3 DEF Due, PredecessorsCompleted, Before
<1>8. (\E r \in SamePlace(p) \cap Scheduled : placed[r].start < now)' <=>
        \E r \in SamePlace(p) \cap Scheduled : placed[r].start < now
  BY <1>1, <1>4, <1>5
<1> QED BY <1>1, <1>6, <1>7, <1>8 DEF WasReady

LEMMA WasReadyKeeping ==
  ASSUME UNCHANGED <<job, now, placed>>, NEW p
  PROVE  WasReady(p)' <=> WasReady(p)
BY DEF WasReady, Due, PredecessorsCompleted, Before, SamePlace, CompletedUpstream, Upstream, EarlierPlaces, Scheduled

(* At a decision nothing has started at that instant yet.                    *)
LEMMA DecidedReady ==
  ASSUME SlotFacts, \A o \in Scheduled : placed[o].start < now, NEW p
  PROVE  StructurallyReady(p) <=> WasReady(p)
<1>1. \A o \in Scheduled : placed[o].start <= now <=> placed[o].start < now
  BY DEF SlotFacts, Slotted
<1>2. DownstreamStarted(p) <=> \E o \in SamePlace(p) \cap Scheduled : placed[o].start < now
  BY <1>1 DEF DownstreamStarted
<1> QED BY <1>2 DEF StructurallyReady, BufferReleased, WasReady

(* The work by which SLACK and CR rank a LOT is the same whether it is        *)
(* pending or has just begun.                                               *)
LEMMA RemainingKept ==
  ASSUME IInv, SlotFacts, NEW q \in ready, Started(q) \/ Passed(q), NEW l
  PROVE  Remaining(l)' = Remaining(l)
<1> DEFINE W == {o \in job.ops : LotOf[o] = l}
           v(o) == IF o \in pending THEN job.duration[o] ELSE Cardinality(Worked(now, placed[o].end))
           w(o) == IF o \in pending' THEN job.duration[o] ELSE Cardinality(Worked(now, placed'[o].end))
<1>1. job' = job /\ now' = now
  BY DEF Started, Passed
<1>2. \A o \in W : w(o) = v(o)
  <2>1. CASE Passed(q)
    BY <2>1 DEF Passed
  <2>2. CASE Started(q)
    <3>1. q \in job.ops /\ q \in pending /\ pending' = pending \ {q} /\ now \in Nat
      BY <2>2 DEF Started, Place, IInv, Partition, SlotFacts
    <3>2. /\ Earliest(now, now, job.duration[q], Need[q], allocations)
          /\ Slot(q) = SlotAt(now, job.duration[q]) /\ job.duration[q] \in Nat \ {0}
      BY <2>2, <3>1, SlotIsEarliest DEF Started
    <3>3. IsWorkingTime(now)
      BY <3>2 DEF Earliest
    <3>4. placed'[q] = SlotAt(now, job.duration[q]) /\ \A o \in Scheduled : placed'[o] = placed[o]
      BY <2>2, <3>1, <3>2 DEF Started, Place, Scheduled, IInv, Partition
    <3>5. placed'[q].end = EndOfWork(now, job.duration[q])
      BY <3>1, <3>2, <3>3, <3>4, SlotParts
    <3>6. Cardinality(Worked(now, placed'[q].end)) = job.duration[q]
      <4>1. Covers(WorkingSegments(now, job.duration[q]), <<now, job.duration[q]>>)
        BY <3>1, <3>2, <3>3, WorkFrom
      <4> QED BY <3>5, <4>1 DEF Covers, EndOfWork
    <3>7. \A o \in job.ops : o \in pending \/ o \in Scheduled
      BY DEF IInv, Partition
    <3> QED BY <3>1, <3>4, <3>6, <3>7
  <2> QED BY <2>1, <2>2
<1>3. \A k : [T \in SUBSET W |-> IF T = {} THEN 0
                                ELSE v(CHOOSE x \in T : TRUE) + k[T \ {CHOOSE x \in T : TRUE}]]
             = [T \in SUBSET W |-> IF T = {} THEN 0
                                ELSE w(CHOOSE x \in T : TRUE) + k[T \ {CHOOSE x \in T : TRUE}]]
  <2>1. \A T \in SUBSET W : T # {} => v(CHOOSE x \in T : TRUE) = w(CHOOSE x \in T : TRUE)
    BY <1>2
  <2> HIDE DEF v, w, W
  <2> QED BY <2>1
<1>4. Remaining(l) =
        (CHOOSE k : k = [T \in SUBSET W |-> IF T = {} THEN 0
                           ELSE v(CHOOSE x \in T : TRUE) + k[T \ {CHOOSE x \in T : TRUE}]])[W]
  BY DEF Remaining, MapThenSumSet, MapThenFoldSet
<1>5. Remaining(l)' =
        (CHOOSE k : k = [T \in SUBSET W |-> IF T = {} THEN 0
                           ELSE w(CHOOSE x \in T : TRUE) + k[T \ {CHOOSE x \in T : TRUE}]])[W]
  BY <1>1 DEF Remaining, MapThenSumSet, MapThenFoldSet
<1> DEFINE F(k) == [T \in SUBSET W |-> IF T = {} THEN 0
                      ELSE v(CHOOSE x \in T : TRUE) + k[T \ {CHOOSE x \in T : TRUE}]]
           G(k) == [T \in SUBSET W |-> IF T = {} THEN 0
                      ELSE w(CHOOSE x \in T : TRUE) + k[T \ {CHOOSE x \in T : TRUE}]]
<1>6. \A k : F(k) = G(k)
  BY <1>3
<1>7. Remaining(l) = (CHOOSE k : k = F(k))[W] /\ Remaining(l)' = (CHOOSE k : k = G(k))[W]
  BY <1>4, <1>5
<1> HIDE DEF v, w, W, F, G
<1>8. (CHOOSE k : k = F(k)) = (CHOOSE k : k = G(k))
  BY <1>6
<1> QED BY <1>7, <1>8

LEMMA PreferredKept ==
  ASSUME IInv, SlotFacts, NEW q \in ready, Started(q) \/ Passed(q), UNCHANGED callVars, NEW p, NEW o
  PROVE  Preferred(p, o)' <=> Preferred(p, o)
<1>1. job' = job /\ now' = now /\ caller' = caller /\ plan' = plan
  BY DEF Started, Passed, callVars
<1>2. \A l : TimeLeft(l)' = TimeLeft(l)
  BY <1>1 DEF TimeLeft
<1>3. \A l : Remaining(l)' = Remaining(l)
  BY RemainingKept
<1>4. \A l, m : Compare(l, m)' = Compare(l, m)
  BY <1>1, <1>2, <1>3 DEF Compare, LotSlack
<1>5. \A l, m : LotBefore(l, m)' <=> LotBefore(l, m)
  BY <1>1, <1>4 DEF LotBefore, PlanOrder
<1>6. TieBreak(p, o)' <=> TieBreak(p, o)
  BY <1>1 DEF TieBreak, Waiting, Longer
<1> QED BY <1>1, <1>5, <1>6 DEF Preferred, Forecasting

-----------------------------------------------------------------------------
(* The calls of a request                                                   *)

(* What is true of every call, whoever makes it.                             *)
SchedulerInv == IInv /\ BInv /\ Ledger /\ BusyInv

LEMMA SchedulerInductive == SchedulerInv /\ [Next]_vars => SchedulerInv'
BY Inductive, BufferInductive, LedgerInductive, BusyInductive DEF SchedulerInv, BInv

LEMMA SchedulerInitially == Init => SchedulerInv
<1>1. Init => Scheduled = {} /\ allocations = {}
  BY DEF Init, Scheduled
<1> QED BY <1>1, Initially, BufferInitially, LedgerEmpty, BusyInitially DEF SchedulerInv

(* Every call begins as the scheduler does.                                 *)
LEMMA Calling ==
  ASSUME SchedulerInv, NEW c, Call(c)
  PROVE  SchedulerInv'
<1>1. /\ Scheduled' = {} /\ ready' = {} /\ pending' = job.ops /\ job' = job /\ allocations' = {}
      /\ phase' = "decide" /\ now' = job.start
  BY DEF Call, Scheduled
<1>2. IInv'
  BY <1>1 DEF IInv, Partition, ReadyAreDue, RoutingRespected
<1>3. job \in Jobs /\ now' \in Nat
  BY <1>1, JobsAreJobs DEF SchedulerInv, BInv, SlotFacts
<1>4. SlotFacts'
  <2>1. Booked({})
    BY FS_EmptySet DEF Booked
  <2> QED BY <1>1, <1>3, <2>1 DEF SlotFacts, Booked
<1>5. BInv'
  BY <1>1, <1>4 DEF BInv, ReadyAreReleased, BufferRespected
<1>6. Ledger'
  <2>1. ASSUME NEW r \in Resources, NEW u \in Nat
        PROVE  Balanced(r, u)'
    <3>1. OfResource({}, r) = {} /\ HeldAt({}, u) = {} /\ Working(r, u)' = {}
      BY <1>1 DEF OfResource, HeldAt, Working
    <3>2. Booked({})
      BY FS_EmptySet DEF Booked
    <3>3. InUse({}, u) = 0
      BY <3>1, <3>2, InUseNone
    <3>4. Total(Load(r), {}) = 0
      BY TotalEmpty
    <3> QED BY <1>1, <3>1, <3>3, <3>4, CapacityAssumption DEF Balanced, OfResource
  <2> QED BY <2>1 DEF Ledger
<1>7. BusyInv'
  BY <1>1, <1>3 DEF BusyInv, Tried, NoneIdle
<1> QED BY <1>2, <1>5, <1>6, <1>7 DEF SchedulerInv

LEMMA Stepping == Step => [Next]_vars
<1> SUFFICES ASSUME Step PROVE [Next]_vars
  OBVIOUS
<1>1. CASE Decide \/ Advance \/ Finish
  BY <1>1 DEF Next
<1>2. ASSUME NEW o \in ready, Try(o)
      PROVE  Next
  BY <1>2 DEF Try, Next
<1> QED BY <1>1, <1>2 DEF Step

(* A step of a request is one of the scheduler, or begins another call, or    *)
(* records a candidate.                                                     *)
LEMMA Requests ==
  ASSUME [ReplanNext]_replanVars
  PROVE  Step \/ UNCHANGED vars \/ \E c : Call(c)
<1>1. CASE Evaluate
  BY <1>1 DEF Evaluate
<1>2. CASE Build
  BY <1>2 DEF Build
<1>3. ASSUME NEW r \in DOMAIN built, Approve(r)
      PROVE  \E c : Call(c)
  BY <1>3 DEF Approve
<1> QED BY <1>1, <1>2, <1>3 DEF ReplanNext, replanVars

LEMMA ReplanInductive == SchedulerInv /\ [ReplanNext]_replanVars => SchedulerInv'
BY Requests, Stepping, SchedulerInductive, Calling

LEMMA ReplanInitially == ReplanInit => SchedulerInv
BY SchedulerInitially DEF ReplanInit

LEMMA ReplanSafe == ReplanSpec => []SchedulerInv
BY ReplanInitially, ReplanInductive, PTL DEF ReplanSpec

(* ReplanRouting, ReplanBuffers, ReplanSlots, ReplanBusy: so it is in the live *)
(* forecast and in every candidate, whatever plan is approved.               *)
THEOREM ReplanRouting == ReplanSpec => []RoutingRespected
<1>1. SchedulerInv => RoutingRespected
  BY DEF SchedulerInv, IInv
<1> QED BY <1>1, ReplanSafe, PTL

(* The buffers hold in every call of a request.                              *)
THEOREM ReplanBuffers == ReplanSpec => []BufferRespected
<1>1. SchedulerInv => BufferRespected
  BY DEF SchedulerInv, BInv
<1> QED BY <1>1, ReplanSafe, PTL

(* The slots of every call of a request are sound.                           *)
THEOREM ReplanSlots == ReplanSpec => []SlotsSound
<1>1. SchedulerInv => SlotsSound
  BY LedgerSound DEF SchedulerInv, BInv
<1> QED BY <1>1, ReplanSafe, PTL

(* No call of a request leaves an operation idle.                            *)
THEOREM ReplanBusy == ReplanSpec => []NeverIdle
<1>1. SchedulerInv => NeverIdle
  BY BusyMeans DEF SchedulerInv, BInv
<1> QED BY <1>1, ReplanSafe, PTL

-----------------------------------------------------------------------------
(* The list of the scheduled operations, and the turn of those that wait      *)

RuleNames == {"FCFS", "EDD", "SLACK", "CR"}
Callers == {"ANY", "LIVE", "AGAIN", "MANAGER"} \cup RuleNames

(* Each task has a rank of its own.                                         *)
Ranked(p) ==
  /\ Tasks \subseteq DOMAIN p
  /\ \A k, l \in DOMAIN p : p[k] \in Nat \ {0} /\ (p[k] = p[l] => k = l)

(* The list holds what is scheduled, in the order of the starts.             *)
Listed ==
  /\ order \in Seq(job.ops)
  /\ \A o : o \in Scheduled <=> \E i \in DOMAIN order : order[i] = o
  /\ \A i, j \in DOMAIN order : i < j => placed[order[i]].start <= placed[order[j]].start
CallInv ==
  /\ caller \in Callers /\ (caller = "MANAGER" => phase = "done")
  /\ phase = "done" => pending = {}
  /\ phase = "decide" => \A o \in Scheduled : placed[o].start < now
  /\ IF caller = "ANY" THEN order = <<>> ELSE job \in Replanned /\ Listed

LEMMA RuleNamed == \A i \in DOMAIN Rules : Rules[i] \in RuleNames
BY DEF Rules, RuleNames

LEMMA Appended ==
  ASSUME NEW S, NEW s \in Seq(S), NEW q \in S
  PROVE  /\ Append(s, q) \in Seq(S) /\ Len(s) \in Nat /\ DOMAIN s = 1 .. Len(s)
         /\ DOMAIN Append(s, q) = DOMAIN s \cup {Len(s) + 1}
         /\ \A i \in DOMAIN s : Append(s, q)[i] = s[i] /\ i # Len(s) + 1 /\ i \in Nat /\ i < Len(s) + 1
         /\ Append(s, q)[Len(s) + 1] = q
OBVIOUS

(* What a turn makes of the list.                                           *)
LEMMA Turning ==
  ASSUME IInv, NEW q \in ready, Try(q)
  PROVE  \/ Started(q) /\ order' = (IF caller # "ANY" THEN Append(order, q) ELSE order)
         \/ Passed(q) /\ order' = order
<1>1. Started(q) \/ Passed(q)
  BY Trying DEF Try
<1>2. Started(q) => q \notin pending'
  BY DEF Started, Place
<1>3. Passed(q) => q \in pending'
  BY DEF Passed, IInv, Partition
<1> QED BY <1>1, <1>2, <1>3 DEF Try

LEMMA ListedStarting ==
  ASSUME IInv, SlotFacts, Listed, NEW q \in ready, Started(q), order' = Append(order, q)
  PROVE  Listed'
<1>1. /\ q \in job.ops /\ q \notin Scheduled /\ Scheduled' = Scheduled \cup {q}
      /\ \A r \in Scheduled : placed'[r] = placed[r] /\ placed[r].start <= now
      /\ job' = job /\ placed'[q].start = now /\ now \in Nat
  BY DEF Started, Place, Scheduled, IInv, Partition, SlotFacts, Slotted
<1> DEFINE n == Len(order) + 1
<1>2. /\ order' \in Seq(job.ops) /\ DOMAIN order' = DOMAIN order \cup {n} /\ order'[n] = q
      /\ \A i \in DOMAIN order : order'[i] = order[i] /\ i # n /\ i \in Nat /\ i < n /\ n \in Nat
  BY <1>1, Appended DEF Listed
<1> HIDE DEF n
<1>3. \A o : o \in Scheduled' <=> \E i \in DOMAIN order' : order'[i] = o
  BY <1>1, <1>2 DEF Listed
<1>4. ASSUME NEW i \in DOMAIN order', NEW j \in DOMAIN order', i < j
      PROVE  placed'[order'[i]].start <= placed'[order'[j]].start
  <2>1. i \in DOMAIN order
    BY <1>2, <1>4
  <2>2. order'[i] = order[i] /\ order[i] \in Scheduled
    BY <1>2, <2>1 DEF Listed
  <2>3. CASE j \in DOMAIN order
    <3>1. order'[j] = order[j] /\ order[j] \in Scheduled
      BY <1>2, <2>3 DEF Listed
    <3> QED BY <1>1, <1>4, <2>1, <2>2, <2>3, <3>1 DEF Listed
  <2>4. CASE j = n
    BY <1>1, <1>2, <2>2, <2>4
  <2> QED BY <1>2, <2>3, <2>4
<1> QED BY <1>1, <1>2, <1>3, <1>4 DEF Listed

LEMMA CallStepping ==
  ASSUME SchedulerInv, CallInv, Step
  PROVE  CallInv'
<1>0. IInv /\ SlotFacts /\ UNCHANGED callVars
  BY DEF SchedulerInv, BInv, Step
<1>1. CASE Decide /\ UNCHANGED order
  <2>1. UNCHANGED <<job, now, pending, placed>> /\ phase' \in {"refused", "dispatch"} /\ phase = "decide"
    BY <1>1 DEF Decide
  <2> QED BY <1>0, <1>1, <2>1 DEF CallInv, Listed, Scheduled, callVars
<1>2. CASE Finish /\ UNCHANGED order
  <2>1. UNCHANGED <<job, now, pending, placed>> /\ phase' = "done" /\ pending = {}
    BY <1>2 DEF Finish
  <2> QED BY <1>0, <1>2, <2>1 DEF CallInv, Listed, Scheduled, callVars
<1>3. CASE Advance /\ UNCHANGED order
  <2>1. UNCHANGED <<job, pending, placed>> /\ phase = "dispatch"
        /\ ((phase' = "stuck" /\ now' = now) \/ (phase' = "decide" /\ now' = Min(Future) /\ Future # {}))
    BY <1>3 DEF Advance
  <2>2. phase' = "decide" => \A o \in Scheduled' : placed'[o].start < now'
    <3> HAVE phase' = "decide"
    <3>1. Min(Future) \in Nat /\ now < Min(Future) /\ now \in Nat
      BY <1>0, <2>1, ClockMoves DEF SlotFacts
    <3>2. \A o \in Scheduled : placed[o].start \in Nat /\ placed[o].start <= now
      BY <1>0 DEF SlotFacts, Slotted
    <3> QED BY <2>1, <3>1, <3>2 DEF Scheduled
  <2> QED BY <1>0, <1>3, <2>1, <2>2 DEF CallInv, Listed, Scheduled, callVars
<1>4. ASSUME NEW q \in ready, Try(q)
      PROVE  CallInv'
  <2>1. phase = "dispatch" /\ phase' \in {"dispatch", "stopped"} /\ job' = job
    BY <1>0, <1>4, Turning DEF Started, Passed
  <2>2. CASE Started(q) /\ order' = (IF caller # "ANY" THEN Append(order, q) ELSE order)
    BY <1>0, <2>1, <2>2, ListedStarting DEF CallInv, callVars
  <2>3. CASE Passed(q) /\ order' = order
    <3>1. placed' = placed
      BY <2>3 DEF Passed
    <3> QED BY <1>0, <2>1, <2>3, <3>1 DEF CallInv, Listed, Scheduled, callVars
  <2> QED BY <1>0, <1>4, <2>2, <2>3, Turning
<1> QED BY <1>1, <1>2, <1>3, <1>4 DEF Step

LEMMA CallCalling ==
  ASSUME CallInv, caller # "ANY", NEW c \in Callers \ {"ANY", "MANAGER"}, Call(c)
  PROVE  CallInv'
<1>1. /\ Scheduled' = {} /\ job' = job /\ phase' = "decide" /\ order' = <<>> /\ caller' = c
  BY DEF Call, Scheduled
<1>2. Listed'
  BY <1>1 DEF Listed
<1> QED BY <1>1, <1>2 DEF CallInv

LEMMA CallInductive == SchedulerInv /\ CallInv /\ [ReplanNext]_replanVars => CallInv'
<1> SUFFICES ASSUME SchedulerInv, CallInv, [ReplanNext]_replanVars PROVE CallInv'
  OBVIOUS
<1>1. CASE Evaluate
  <2>1. Call(Rules[1]) /\ caller = "LIVE" /\ Rules[1] = "FCFS"
    BY <1>1 DEF Evaluate, Rules
  <2> QED BY <2>1, CallCalling DEF Callers, RuleNames
<1>2. CASE Build
  <2>1. PICK i \in DOMAIN Rules :
          /\ phase = "done" /\ caller = Rules[i]
          /\ IF i = Len(Rules) THEN caller' = "MANAGER" /\ UNCHANGED <<vars, order>>
             ELSE Call(Rules[i + 1])
    BY <1>2 DEF Build
  <2>2. caller # "ANY"
    BY <2>1, RuleNamed DEF RuleNames
  <2>3. CASE i = Len(Rules)
    <3>1. caller' = "MANAGER" /\ UNCHANGED <<job, now, phase, pending, placed, order>>
      BY <2>1, <2>3 DEF vars
    <3>2. Listed'
      BY <2>2, <3>1 DEF CallInv, Listed, Scheduled
    <3> QED BY <2>1, <2>2, <3>1, <3>2 DEF CallInv, Callers
  <2>4. CASE i # Len(Rules)
    <3>1. i + 1 \in DOMAIN Rules
      BY <2>4 DEF Rules
    <3>2. Rules[i + 1] \in Callers \ {"ANY", "MANAGER"}
      BY <3>1, RuleNamed DEF Callers, RuleNames
    <3> QED BY <2>1, <2>2, <2>4, <3>2, CallCalling
  <2> QED BY <2>3, <2>4
<1>3. ASSUME NEW r \in DOMAIN built, Approve(r)
      PROVE  CallInv'
  BY <1>3, CallCalling DEF Approve, Callers
<1>4. CASE UNCHANGED replanVars
  BY <1>4 DEF replanVars, callVars, vars, CallInv, Listed, Scheduled
<1> QED BY <1>1, <1>2, <1>3, <1>4, CallStepping DEF ReplanNext

LEMMA CallInitially == ReplanInit => CallInv
<1> SUFFICES ASSUME ReplanInit PROVE CallInv
  OBVIOUS
<1>1. Scheduled = {} /\ phase = "decide" /\ order = <<>>
  BY DEF ReplanInit, Init, Scheduled
<1>2. (caller = "ANY") \/ (caller = "LIVE" /\ job \in Replanned)
  BY DEF ReplanInit
<1>3. Listed
  BY <1>1 DEF Listed
<1> QED BY <1>1, <1>2, <1>3 DEF CallInv, Callers

(* The ready operations are those of the decision that are not tried yet;      *)
(* what a turn has tried and not started does not fit and is not running, and  *)
(* whoever started before its turn left nothing behind that would have fitted. *)
Beside(i) == {a \in allocations : \E n \in 1 .. i - 1 : order[n] = a.op}
TurnInv ==
  caller # "ANY" /\ phase = "dispatch" =>
    /\ \A p \in ready : WasReady(p)
    /\ \A p \in pending \ ready : WasReady(p) =>
         ~ FitsAt(p, now, allocations) /\ job.state[p] # "RUNNING"
    /\ \A i \in DOMAIN order : \A o \in job.ops :
         order[i] = o /\ placed[o].start = now /\ job.state[o] # "RUNNING" =>
           \A p \in pending : WasReady(p) /\ Preferred(p, o) =>
             ~ FitsAt(p, now, Beside(i))

LEMMA TurnStarting ==
  ASSUME SchedulerInv, SchedulerInv', CallInv, TurnInv, caller # "ANY", NEW q \in ready, Started(q),
         order' = Append(order, q), Try(q), UNCHANGED callVars
  PROVE  TurnInv'
<1>1. /\ q \in job.ops /\ q \notin Scheduled /\ Scheduled' = Scheduled \cup {q}
      /\ \A r \in Scheduled : placed'[r] = placed[r]
      /\ job' = job /\ now' = now /\ phase = "dispatch" /\ placed'[q].start = now
      /\ pending' = pending \ {q} /\ ready' = ready \ {q} /\ pending \subseteq job.ops
      /\ allocations' = allocations \cup Reserved(q, Slot(q)) /\ caller' = caller
  BY DEF Started, Place, Scheduled, SchedulerInv, IInv, Partition, callVars
<1>2. IInv /\ BInv /\ SlotFacts /\ SlotFacts' /\ job \in Replanned /\ Listed
  BY DEF SchedulerInv, BInv, CallInv
<1>3. PICK m \in Nat : m = now
  BY <1>2 DEF SlotFacts
<1>4. Booked(allocations) /\ Booked(allocations')
  BY <1>2 DEF SlotFacts, Booked
<1>5. ASSUME NEW p \in job.ops, FitsAt(p, m, allocations')
      PROVE  FitsAt(p, m, allocations)
  <2>1. IsWorkingTime(m) /\ Feasible(m, job.duration[p], Need[p], allocations')
    BY <1>2, <1>4, <1>5, FitsIsSlot
  <2>2. job.duration[p] \in Nat \ {0} /\ IsNeed(Need[p])
    BY <1>2, SlotIsEarliest
  <2>3. Feasible(m, job.duration[p], Need[p], allocations)
    BY <1>1, <1>4, <2>1, <2>2, FeasibleFewer
  <2> QED BY <1>2, <1>4, <2>1, <2>3, FitsIsSlot
<1>6. \A p : WasReady(p)' <=> WasReady(p)
  BY <1>2, WasReadyKept
<1>7. \A p, A : FitsAt(p, now, A)' <=> FitsAt(p, m, A)
  BY <1>1, <1>3 DEF FitsAt
<1>8. ASSUME NEW p \in pending' \ ready', WasReady(p)'
      PROVE  ~ FitsAt(p, m, allocations') /\ job.state[p] # "RUNNING"
  <2>1. p \in pending \ ready /\ p \in job.ops /\ WasReady(p)
    BY <1>1, <1>6, <1>8
  <2>2. ~ FitsAt(p, m, allocations) /\ job.state[p] # "RUNNING"
    BY <1>1, <1>3, <2>1 DEF TurnInv
  <2> QED BY <1>5, <2>1, <2>2
<1> DEFINE n == Len(order) + 1
<1>9. /\ DOMAIN order' = DOMAIN order \cup {n} /\ order'[n] = q
      /\ \A i \in DOMAIN order : order'[i] = order[i] /\ i \in Nat /\ i < n
      /\ n \in Nat /\ DOMAIN order = 1 .. n - 1
  BY <1>1, <1>2, Appended DEF Listed
<1> HIDE DEF n
<1>10. (\A a \in allocations : a.op \in Scheduled) /\ (\A a \in Reserved(q, Slot(q)) : a.op = q)
  BY <1>2, AllocationsAreScheduled DEF Reserved, Taken
<1>11. ASSUME NEW i \in DOMAIN order
       PROVE  Beside(i)' = Beside(i)
  <2>1. \A k \in 1 .. i - 1 : k \in DOMAIN order /\ order'[k] = order[k] /\ order[k] \in Scheduled
    BY <1>2, <1>9 DEF Listed
  <2> QED BY <1>1, <1>10, <2>1 DEF Beside
<1>12. {a \in allocations' : \E k \in 1 .. n - 1 : order'[k] = a.op} = allocations
  <2>1. \A o : o \in Scheduled <=> \E k \in 1 .. n - 1 : order'[k] = o
    BY <1>2, <1>9 DEF Listed
  <2> QED BY <1>1, <1>10, <2>1
<1>13. ASSUME NEW i \in DOMAIN order', NEW o \in job.ops, order'[i] = o,
              placed'[o].start = now, job.state[o] # "RUNNING",
              NEW p \in pending', WasReady(p)', Preferred(p, o)'
       PROVE  ~ FitsAt(p, m, Beside(i)')
  <2>1. p \in pending /\ p # q /\ p \in job.ops /\ WasReady(p)
    BY <1>1, <1>6, <1>13
  <2>2. Preferred(p, o)
    BY <1>2, <1>13, PreferredKept
  <2>3. CASE i \in DOMAIN order
    <3>1. order'[i] = order[i] /\ order[i] \in Scheduled
      BY <1>2, <1>9, <2>3 DEF Listed
    <3>2. ~ FitsAt(p, now, Beside(i))
      BY <1>1, <1>13, <2>1, <2>2, <2>3, <3>1 DEF TurnInv
    <3> QED BY <1>3, <1>11, <2>3, <3>2
  <2>4. CASE i = n
    <3>1. order'[i] = q
      BY <1>9, <2>4
    <3>2. Dispatch(q) /\ InTurn(q)
      BY <1>13, <3>1 DEF Try, Continue, Running
    <3>3. p \notin ready
      BY <1>13, <2>1, <2>2, <3>1, <3>2 DEF InTurn
    <3>4. ~ FitsAt(p, now, allocations)
      BY <1>1, <2>1, <3>3 DEF TurnInv
    <3>5. Beside(i)' = allocations
      BY <1>12, <2>4 DEF Beside
    <3> QED BY <1>3, <3>4, <3>5
  <2> QED BY <1>9, <2>3, <2>4
<1>14. \A p : FitsAt(p, now, allocations)' <=> FitsAt(p, m, allocations')
  BY <1>1, <1>3 DEF FitsAt
<1>15. \A p, i : FitsAt(p, now, Beside(i))' <=> FitsAt(p, m, Beside(i)')
  BY <1>1, <1>3 DEF FitsAt
<1>16. \A p \in ready' : WasReady(p)'
  BY <1>1, <1>6 DEF TurnInv
<1> QED BY <1>1, <1>8, <1>13, <1>14, <1>15, <1>16 DEF TurnInv

(* A turn that starts nothing leaves all else as it was.                     *)
LEMMA TurnPassing ==
  ASSUME SchedulerInv, TurnInv, NEW q \in ready, Passed(q), Try(q), order' = order, UNCHANGED callVars
  PROVE  TurnInv'
<1>1. /\ job' = job /\ now' = now /\ phase = "dispatch" /\ placed' = placed /\ allocations' = allocations
      /\ pending' = pending /\ ready' = ready \ {q} /\ pending \subseteq job.ops /\ Slot(q).start # now
      /\ caller' = caller /\ q \in job.ops
  BY DEF Passed, SchedulerInv, IInv, Partition, callVars
<1>2. IInv /\ SlotFacts
  BY DEF SchedulerInv, BInv
<1>3. ~ FitsAt(q, now, allocations)
  BY <1>1, <1>2, SlotIsNow
<1>4. \A p, o : Preferred(p, o)' <=> Preferred(p, o)
  BY <1>2, PreferredKept
<1>5. \A p : WasReady(p)' <=> WasReady(p)
  BY <1>1, WasReadyKeeping
<1>6. \A p, A : FitsAt(p, now, A)' <=> FitsAt(p, now, A)
  BY <1>1 DEF FitsAt
<1>7. \A i : Beside(i)' = Beside(i)
  BY <1>1 DEF Beside
<1>8. \A p, i : FitsAt(p, now, Beside(i))' <=> FitsAt(p, now, Beside(i))
  BY <1>1, <1>7 DEF FitsAt
<1>9. \A p : FitsAt(p, now, allocations)' <=> FitsAt(p, now, allocations)
  BY <1>1 DEF FitsAt
<1>10. phase' = "dispatch" => job.state[q] # "RUNNING"
  <2>1. CASE Continue(q)
    BY <1>1, <2>1 DEF Continue
  <2>2. CASE Dispatch(q)
    BY <2>2 DEF Dispatch, Running
  <2> QED BY <2>1, <2>2 DEF Try
<1> QED BY <1>1, <1>3, <1>4, <1>5, <1>8, <1>9, <1>10 DEF TurnInv

LEMMA TurnInductive == SchedulerInv /\ CallInv /\ TurnInv /\ [ReplanNext]_replanVars => TurnInv'
<1> SUFFICES ASSUME SchedulerInv, CallInv, TurnInv, [ReplanNext]_replanVars PROVE TurnInv'
  OBVIOUS
<1>1. SchedulerInv' /\ IInv /\ BInv /\ SlotFacts
  BY ReplanInductive DEF SchedulerInv, BInv
<1>2. ASSUME UNCHANGED <<job, now, phase, pending, ready, placed, allocations, order, plan>>,
             caller' # caller => phase' # "dispatch"
      PROVE  TurnInv'
  <2>1. CASE caller' = caller
    <3>1. \A p, o : Preferred(p, o)' <=> Preferred(p, o)
      BY <1>2, <2>1 DEF Preferred, Forecasting, LotBefore, TieBreak, Waiting, Longer, Compare, LotSlack,
                        TimeLeft, Remaining, PlanOrder
    <3>2. \A p : WasReady(p)' <=> WasReady(p)
      BY <1>2, WasReadyKeeping
    <3>3. \A p, i : FitsAt(p, now, Beside(i))' <=> FitsAt(p, now, Beside(i))
      BY <1>2 DEF FitsAt, Beside
    <3>4. \A p : FitsAt(p, now, allocations)' <=> FitsAt(p, now, allocations)
      BY <1>2 DEF FitsAt
    <3> QED BY <1>2, <2>1, <3>1, <3>2, <3>3, <3>4 DEF TurnInv
  <2> QED BY <1>2, <2>1 DEF TurnInv
<1>3. CASE Decide /\ UNCHANGED <<order, callVars>>
  <2>1. UNCHANGED <<job, now, pending, placed, allocations>> /\ phase = "decide"
        /\ (phase' = "refused" \/ (phase' = "dispatch" /\ ready' = {o \in pending : StructurallyReady(o)}))
    BY <1>3 DEF Decide
  <2> SUFFICES ASSUME caller # "ANY", phase' = "dispatch" PROVE TurnInv'
    BY <1>3 DEF TurnInv, callVars
  <2>2. \A o \in Scheduled : placed[o].start \in Nat /\ placed[o].start < now /\ now \in Nat
    BY <1>1, <2>1 DEF CallInv, SlotFacts, Slotted
  <2>3. \A i \in DOMAIN order : placed'[order[i]].start # now
    <3>1. \A i \in DOMAIN order : order[i] \in Scheduled
      BY DEF CallInv, Listed
    <3> QED BY <2>1, <2>2, <3>1
  <2>4. \A p : WasReady(p)' <=> StructurallyReady(p)
    BY <1>1, <2>1, <2>2, WasReadyKeeping, DecidedReady
  <2> QED BY <1>3, <2>1, <2>3, <2>4 DEF TurnInv
<1>4. CASE Advance \/ Finish
  BY <1>4 DEF Advance, Finish, TurnInv
<1>5. ASSUME NEW q \in ready, Try(q), UNCHANGED callVars
      PROVE  TurnInv'
  <2>1. CASE caller = "ANY"
    BY <1>5, <2>1 DEF TurnInv, callVars
  <2>2. CASE caller # "ANY" /\ Started(q) /\ order' = Append(order, q)
    BY <1>1, <1>5, <2>2, TurnStarting
  <2>3. CASE Passed(q) /\ order' = order
    BY <1>5, <2>3, TurnPassing
  <2> QED BY <1>1, <1>5, <2>1, <2>2, <2>3, Turning
<1>6. CASE Step
  BY <1>3, <1>4, <1>5, <1>6 DEF Step
<1>7. ASSUME NEW c, Call(c)
      PROVE  TurnInv'
  BY <1>7 DEF Call, TurnInv
<1>8. CASE Evaluate
  BY <1>7, <1>8 DEF Evaluate
<1>9. CASE Build
  <2>1. PICK i \in DOMAIN Rules :
          /\ phase = "done" /\ UNCHANGED plan
          /\ UNCHANGED <<vars, order>> \/ Call(Rules[i + 1])
    BY <1>9 DEF Build
  <2> QED BY <1>2, <1>7, <2>1 DEF vars
<1>10. ASSUME NEW r \in DOMAIN built, Approve(r)
       PROVE  TurnInv'
  BY <1>7, <1>10 DEF Approve
<1>11. CASE UNCHANGED replanVars
  BY <1>2, <1>11 DEF replanVars, vars, callVars
<1> QED BY <1>6, <1>8, <1>9, <1>10, <1>11 DEF ReplanNext

LEMMA TurnInitially == ReplanInit => TurnInv
BY DEF ReplanInit, Init, TurnInv

LEMMA TurnMeans ==
  ASSUME SchedulerInv, CallInv, TurnInv
  PROVE  NoInversion
<1> SUFFICES ASSUME NEW i \in DOMAIN order, phase = "dispatch", placed[order[i]].start = now,
                    job.state[order[i]] # "RUNNING", NEW p \in pending,
                    WasReady(p), Preferred(p, order[i]),
                    NEW e \in now + 1 .. now + Week,
                    Fits(now, e, job.duration[p], Need[p], Beside(i))
             PROVE  FALSE
  BY DEF NoInversion, Beside
<1>1. caller # "ANY" /\ order[i] \in job.ops
  BY DEF CallInv, Listed
<1>2. now \in Nat /\ Week \in Nat
  BY CalendarAssumption DEF SchedulerInv, BInv, SlotFacts, Week
<1>3. e \in Nat /\ now < e
  BY <1>2
<1>4. FitsAt(p, now, Beside(i))
  BY <1>3 DEF FitsAt
<1> QED BY <1>1, <1>4 DEF TurnInv

(* NeverInverted: in every job, for every plan and rule, an operation that     *)
(* starts leaves none waiting that was ready, goes before it and would have   *)
(* fitted.                                                                  *)
THEOREM NeverInverted == ReplanSpec => []NoInversion
BY ReplanInitially, ReplanInductive, CallInitially, CallInductive, TurnInitially, TurnInductive, TurnMeans,
   PTL DEF ReplanSpec

-----------------------------------------------------------------------------
(* Ranks                                                                    *)

(* The place of each member of a set in the order of their numbers.          *)
Standing(f, T) == [x \in T |-> Cardinality({y \in T : f[y] <= f[x]})]

LEMMA Standings ==
  ASSUME NEW T, IsFiniteSet(T), NEW f \in [T -> Nat], \A x, y \in T : f[x] = f[y] => x = y
  PROVE  /\ Standing(f, T) \in [T -> 1 .. Cardinality(T)]
         /\ \A x, y \in T : f[x] < f[y] <=> Standing(f, T)[x] < Standing(f, T)[y]
         /\ \A n \in 1 .. Cardinality(T) : \E x \in T : Standing(f, T)[x] = n
<1> DEFINE B(x) == {y \in T : f[y] <= f[x]}
           c == Standing(f, T)
           n == Cardinality(T)
<1>1. n \in Nat /\ \A x \in T : c[x] = Cardinality(B(x))
  BY FS_CardinalityType DEF Standing
<1>2. ASSUME NEW x \in T
      PROVE  /\ IsFiniteSet(B(x)) /\ Cardinality(B(x)) \in 1 .. n
             /\ x \in B(x) /\ B(x) \in SUBSET T
  <2>1. x \in B(x) /\ B(x) \in SUBSET T
    OBVIOUS
  <2> HIDE DEF B
  <2>2. IsFiniteSet(B(x)) /\ Cardinality(B(x)) <= n
    BY <2>1, FS_Subset
  <2>3. Cardinality(B(x)) \in Nat /\ Cardinality(B(x)) # 0
    BY <2>1, <2>2, FS_CardinalityType, FS_EmptySet
  <2> QED BY <1>1, <2>1, <2>2, <2>3
<1>3. ASSUME NEW x \in T, NEW y \in T, f[x] < f[y]
      PROVE  c[x] < c[y]
  <2>1. B(x) \in SUBSET B(y) /\ y \notin B(x)
    BY <1>3
  <2>2. y \in B(y) /\ IsFiniteSet(B(y)) /\ Cardinality(B(x)) \in Nat /\ Cardinality(B(y)) \in Nat
    BY <1>2
  <2> HIDE DEF B
  <2>3. Cardinality(B(x)) <= Cardinality(B(y)) /\ Cardinality(B(y)) # Cardinality(B(x))
    BY <2>1, <2>2, FS_Subset
  <2> HIDE DEF c
  <2> QED BY <1>1, <2>2, <2>3
<1>4. \A x \in T : c[x] \in 1 .. n
  <2> HIDE DEF B, c
  <2> QED BY <1>1, <1>2
<1>5. c \in [T -> 1 .. n]
  <2>1. c = [x \in T |-> c[x]]
    BY DEF Standing
  <2> HIDE DEF c
  <2> QED BY <1>4, <2>1
<1>6. ASSUME NEW x \in T, NEW y \in T
      PROVE  /\ f[x] < f[y] <=> c[x] < c[y]
             /\ c[x] = c[y] => x = y
  <2>1. f[x] \in Nat /\ f[y] \in Nat /\ c[x] \in Nat /\ c[y] \in Nat
    BY <1>1, <1>4
  <2>2. (f[x] < f[y] => c[x] < c[y]) /\ (f[y] < f[x] => c[y] < c[x]) /\ (f[x] = f[y] => x = y)
    BY <1>3
  <2> HIDE DEF c
  <2> QED BY <2>1, <2>2
<1>7. c \in Injection(T, 1 .. n)
  <2> HIDE DEF c
  <2> QED BY <1>5, <1>6 DEF Injection, IsInjective
<1>8. IsFiniteSet(1 .. n) /\ Cardinality(1 .. n) = n
  <2>1. 1 \in Int /\ n \in Int
    BY <1>1
  <2> HIDE DEF n
  <2> QED BY <1>1, <2>1, FS_Interval
<1>9. c \in Surjection(T, 1 .. n)
  <2> HIDE DEF c
  <2>1. Cardinality(T) = Cardinality(1 .. n)
    BY <1>8
  <2> HIDE DEF n
  <2> QED BY <1>7, <1>8, <2>1, FS_Injection
<1>10. \A m \in 1 .. n : \E x \in T : c[x] = m
  <2> HIDE DEF c, n
  <2> QED BY <1>9 DEF Surjection
<1> QED BY <1>5, <1>6, <1>10

LEMMA FirstOfTask ==
  ASSUME SchedulerInv, CallInv, caller # "ANY", phase = "done", NEW k \in Tasks
  PROVE  /\ FirstDispatch(k) \in DOMAIN order /\ FirstDispatch(k) \in Nat
         /\ KeyOf(order[FirstDispatch(k)]) = k
         /\ \A i \in DOMAIN order : KeyOf(order[i]) = k => FirstDispatch(k) <= i
<1> DEFINE S == {i \in DOMAIN order : KeyOf(order[i]) = k}
<1>1. PICK o \in job.ops : k = KeyOf(o)
  BY DEF Tasks
<1>2. o \in Scheduled /\ Listed
  BY DEF CallInv, SchedulerInv, IInv, Partition
<1>3. PICK i \in DOMAIN order : order[i] = o
  BY <1>2 DEF Listed
<1>4. i \in S /\ S \in SUBSET Nat
  <2>1. DOMAIN order = 1 .. Len(order) /\ Len(order) \in Nat
    BY <1>2 DEF Listed
  <2> QED BY <1>1, <1>3, <2>1
<1>5. FirstDispatch(k) = Min(S)
  BY DEF FirstDispatch
<1> HIDE DEF S
<1>6. \E m \in S : \A j \in S : m <= j
  BY <1>4, LeastNatural
<1>7. Min(S) \in S /\ \A j \in S : Min(S) <= j
  BY <1>6 DEF Min
<1> QED BY <1>4, <1>5, <1>7 DEF S

LEMMA TasksFinite ==
  ASSUME SchedulerInv
  PROVE  IsFiniteSet(Tasks)
<1> DEFINE h == [o \in job.ops |-> KeyOf(o)]
<1>1. IsFiniteSet(job.ops)
  BY SchedulerAssumption, JobsAreJobs, FS_Subset DEF SchedulerInv, BInv, SlotFacts
<1>2. h \in Surjection(job.ops, Tasks)
  BY DEF Surjection, Tasks
<1> HIDE DEF h
<1> QED BY <1>1, <1>2, FS_Surjection

(* The slots of the plan go to the tasks in the order in which these are first *)
(* dispatched, one to each.                                                 *)
LEMMA RanksMean ==
  ASSUME SchedulerInv, CallInv, caller # "ANY", phase = "done", Ranked(plan)
  PROVE  /\ Ranks \in [Tasks -> RankSlots] /\ RankSlots \subseteq Nat \ {0}
         /\ \A r \in RankSlots : \E k \in Tasks : Ranks[k] = r
         /\ \A k, l \in Tasks : Ranks[k] < Ranks[l] => FirstDispatch(k) < FirstDispatch(l)
         /\ \A k, l \in Tasks : Ranks[k] = Ranks[l] => k = l
<1> DEFINE p == [k \in Tasks |-> plan[k]]
           f == [k \in Tasks |-> FirstDispatch(k)]
           g == [r \in RankSlots |-> r]
           n == Cardinality(Tasks)
           S == Standing(f, Tasks)
           R == Standing(g, RankSlots)
<1>1. IsFiniteSet(Tasks)
  BY TasksFinite
<1>2. RankSlots \subseteq Nat \ {0} /\ p \in Injection(Tasks, RankSlots) /\ p \in Surjection(Tasks, RankSlots)
  BY DEF Ranked, RankSlots, Injection, IsInjective, Surjection
<1>3. IsFiniteSet(RankSlots) /\ Cardinality(RankSlots) = n
  <2> HIDE DEF p
  <2> QED BY <1>1, <1>2, FS_Surjection
<1>4. f \in [Tasks -> Nat] /\ \A k, l \in Tasks : f[k] = f[l] => k = l
  BY FirstOfTask
<1>5. g \in [RankSlots -> Nat] /\ \A r, s \in RankSlots : g[r] = g[s] => r = s
  BY <1>2
<1>6. /\ S \in [Tasks -> 1 .. n]
      /\ \A k, l \in Tasks : f[k] < f[l] <=> S[k] < S[l]
      /\ \A m \in 1 .. n : \E k \in Tasks : S[k] = m
  <2> HIDE DEF f
  <2> QED BY <1>1, <1>4, Standings
<1>7. /\ R \in [RankSlots -> 1 .. n]
      /\ \A r, s \in RankSlots : g[r] < g[s] <=> R[r] < R[s]
      /\ \A m \in 1 .. n : \E r \in RankSlots : R[r] = m
  <2> HIDE DEF g
  <2> QED BY <1>3, <1>5, Standings
<1>8. \A k \in Tasks : S[k] = Cardinality({l \in Tasks : FirstDispatch(l) <= FirstDispatch(k)})
  <2> TAKE k \in Tasks
  <2>1. {l \in Tasks : f[l] <= f[k]} = {l \in Tasks : FirstDispatch(l) <= FirstDispatch(k)}
    OBVIOUS
  <2> HIDE DEF f
  <2> QED BY <2>1 DEF Standing
<1>9. \A r \in RankSlots : R[r] = Cardinality({s \in RankSlots : s <= r})
  <2> TAKE r \in RankSlots
  <2>1. {s \in RankSlots : g[s] <= g[r]} = {s \in RankSlots : s <= r}
    OBVIOUS
  <2> HIDE DEF g
  <2> QED BY <2>1 DEF Standing
<1>10. \A k, l \in Tasks : f[k] = FirstDispatch(k)
  OBVIOUS
<1>11. \A r \in RankSlots : g[r] = r
  OBVIOUS
<1> HIDE DEF p, f, g, S, R, n
<1>12. Ranks = [k \in Tasks |-> CHOOSE r \in RankSlots : R[r] = S[k]]
  <2>1. \A k \in Tasks : (CHOOSE r \in RankSlots : R[r] = S[k]) =
          CHOOSE r \in RankSlots :
            Cardinality({s \in RankSlots : s <= r}) =
              Cardinality({l \in Tasks : FirstDispatch(l) <= FirstDispatch(k)})
    BY <1>8, <1>9
  <2> QED BY <2>1 DEF Ranks
<1>13. \A k \in Tasks : Ranks[k] \in RankSlots /\ R[Ranks[k]] = S[k]
  <2> TAKE k \in Tasks
  <2>1. S[k] \in 1 .. n
    BY <1>6
  <2>2. \E r \in RankSlots : R[r] = S[k]
    BY <1>7, <2>1
  <2> QED BY <1>12, <2>2
<1>14. Ranks \in [Tasks -> RankSlots]
  BY <1>12, <1>13
<1>15. ASSUME NEW r \in RankSlots
       PROVE  \E k \in Tasks : Ranks[k] = r
  <2>1. R[r] \in 1 .. n
    BY <1>7
  <2>2. PICK k \in Tasks : S[k] = R[r]
    BY <1>6, <2>1
  <2>3. R[Ranks[k]] = R[r] /\ Ranks[k] \in RankSlots
    BY <1>13, <2>2
  <2>4. ~ (r < Ranks[k]) /\ ~ (Ranks[k] < r)
    <3>1. R[r] \in Nat
      BY <2>1
    <3> QED BY <1>7, <1>11, <2>3, <3>1
  <2>5. r \in Nat /\ Ranks[k] \in Nat
    BY <1>2, <2>3
  <2>6. Ranks[k] = r
    BY <2>4, <2>5
  <2> QED BY <2>6
<1>16. ASSUME NEW k \in Tasks, NEW l \in Tasks
       PROVE  /\ Ranks[k] < Ranks[l] => FirstDispatch(k) < FirstDispatch(l)
              /\ Ranks[k] = Ranks[l] => k = l
  <2>1. Ranks[k] < Ranks[l] => S[k] < S[l]
    BY <1>7, <1>11, <1>13
  <2>2. S[k] < S[l] => f[k] < f[l]
    BY <1>6
  <2>3. Ranks[k] = Ranks[l] => S[k] = S[l]
    BY <1>13
  <2>4. S[k] = S[l] => f[k] = f[l]
    <3>1. S[k] \in Nat /\ S[l] \in Nat /\ f[k] \in Nat /\ f[l] \in Nat
      BY <1>4, <1>6
    <3> QED BY <1>6, <3>1
  <2> QED BY <1>4, <1>10, <2>1, <2>2, <2>3, <2>4
<1> QED BY <1>2, <1>14, <1>15, <1>16

LEMMA StartsInOrder ==
  ASSUME SchedulerInv, CallInv, caller # "ANY", phase = "done",
         NEW k \in Tasks, NEW l \in Tasks, FirstDispatch(k) < FirstDispatch(l)
  PROVE  Min({placed[o].start : o \in Of(k)}) <= Min({placed[o].start : o \in Of(l)})
<1> DEFINE s(m) == {placed[o].start : o \in Of(m)}
           i == FirstDispatch(k)
<1>1. Listed /\ (\A o \in job.ops : o \in Scheduled /\ placed[o].start \in Nat)
  BY DEF CallInv, SchedulerInv, IInv, Partition, BInv, SlotFacts, Slotted
<1>2. ASSUME NEW m \in Tasks
      PROVE  Min(s(m)) \in s(m) /\ \A t \in s(m) : Min(s(m)) <= t
  <2>1. s(m) \in SUBSET Nat
    BY <1>1 DEF Of
  <2>2. s(m) # {}
    BY DEF Tasks, Of
  <2> HIDE DEF s
  <2>3. \E t \in s(m) : \A u \in s(m) : t <= u
    BY <2>1, <2>2, LeastNatural
  <2> QED BY <2>3 DEF Min
<1>3. PICK o \in Of(l) : Min(s(l)) = placed[o].start
  BY <1>2
<1>4. o \in job.ops /\ KeyOf(o) = l
  BY DEF Of
<1>5. PICK j \in DOMAIN order : order[j] = o
  BY <1>1, <1>4 DEF Listed
<1>6. FirstDispatch(l) <= j /\ FirstDispatch(l) \in Nat
  BY <1>4, <1>5, FirstOfTask
<1>7. i \in DOMAIN order /\ i \in Nat /\ KeyOf(order[i]) = k
  BY FirstOfTask
<1>8. DOMAIN order \subseteq Nat /\ order[i] \in job.ops
  BY <1>1, <1>7 DEF Listed
<1> HIDE DEF i
<1>9. i < j
  <2>1. j \in Nat
    BY <1>8
  <2> QED BY <1>6, <1>7, <2>1 DEF i
<1>10. placed[order[i]].start <= placed[o].start
  BY <1>1, <1>5, <1>7, <1>9 DEF Listed
<1>11. placed[order[i]].start \in s(k)
  BY <1>7, <1>8 DEF Of
<1>12. Min(s(k)) <= placed[order[i]].start
  BY <1>2, <1>11
<1>13. Min(s(k)) \in Nat
  <2>1. s(k) \subseteq Nat
    BY <1>1 DEF Of
  <2> QED BY <1>2, <2>1
<1> HIDE DEF s
<1>14. Min(s(k)) <= Min(s(l))
  BY <1>1, <1>3, <1>4, <1>8, <1>10, <1>12, <1>13
<1> QED BY <1>14 DEF s

(* The plan and the candidates rank each task, and a candidate as it starts.  *)
PlanInv ==
  /\ caller # "ANY" => Ranked(plan)
  /\ \A r \in DOMAIN built : Ranked(built[r].ranks)
  /\ RanksFollowStarts

LEMMA PlanInductive == SchedulerInv /\ CallInv /\ PlanInv /\ [ReplanNext]_replanVars => PlanInv'
<1> SUFFICES ASSUME SchedulerInv, CallInv, PlanInv, [ReplanNext]_replanVars PROVE PlanInv'
  OBVIOUS
<1>1. job' = job
  BY DEF ReplanNext, replanVars, vars, Step, Decide, Advance, Finish, Try, Continue, Dispatch, Evaluate, Build,
         Approve, Call
<1>2. Tasks' = Tasks
  BY <1>1 DEF Tasks
<1>3. \A p : Ranked(p)' <=> Ranked(p)
  BY <1>2 DEF Ranked
<1>4. ASSUME UNCHANGED <<plan, built>>, caller' = "ANY" => caller = "ANY", caller' # "AGAIN" => caller # "AGAIN"
      PROVE  PlanInv'
  <2>1. RankSlots' = RankSlots
    BY <1>2, <1>4 DEF RankSlots
  <2>2. RanksFollowStarts'
    BY <1>2, <1>4, <2>1 DEF PlanInv, RanksFollowStarts
  <2>3. Ranked(plan)' <=> Ranked(plan)
    BY <1>2, <1>4 DEF Ranked
  <2>4. \A r \in DOMAIN built : Ranked(built[r].ranks)' <=> Ranked(built[r].ranks)
    BY <1>2, <1>4 DEF Ranked
  <2>5. caller' # "ANY" => Ranked(plan)
    <3> HAVE caller' # "ANY"
    <3>1. CASE caller # "ANY"
      BY <3>1 DEF PlanInv
    <3>2. CASE caller = "ANY"
      <4>1. caller' = caller
        BY <3>2, RuleNamed DEF ReplanNext, replanVars, callVars, Step, Evaluate, Build, Approve, Call, RuleNames,
                               PlanInv, CallInv
      <4> QED BY <3>2, <4>1
    <3> QED BY <3>1, <3>2
  <2> QED BY <1>4, <2>2, <2>3, <2>4, <2>5 DEF PlanInv
<1>5. CASE Step \/ UNCHANGED replanVars
  BY <1>4, <1>5 DEF Step, callVars, replanVars
<1>6. CASE Evaluate
  BY <1>4, <1>6 DEF Evaluate, Call, Rules
<1>7. CASE Build
  <2>1. PICK i \in DOMAIN Rules :
          /\ phase = "done" /\ caller = Rules[i] /\ UNCHANGED plan
          /\ built' = [r \in DOMAIN built \cup {caller} |-> IF r = caller THEN Candidate ELSE built[r]]
          /\ IF i = Len(Rules) THEN caller' = "MANAGER" ELSE caller' = Rules[i + 1]
    BY <1>7 DEF Build, Call
  <2>2. caller \in RuleNames /\ caller # "ANY" /\ caller # "AGAIN" /\ Ranked(plan)
    BY <2>1, RuleNamed DEF RuleNames, PlanInv
  <2>3. /\ Ranks \in [Tasks -> RankSlots] /\ RankSlots \subseteq Nat \ {0}
        /\ \A r \in RankSlots : \E k \in Tasks : Ranks[k] = r
        /\ \A k, l \in Tasks : Ranks[k] < Ranks[l] => FirstDispatch(k) < FirstDispatch(l)
        /\ \A k, l \in Tasks : Ranks[k] = Ranks[l] => k = l
    BY <2>1, <2>2, RanksMean
  <2>10. DOMAIN Ranks = Tasks /\ \A k \in Tasks : Ranks[k] \in RankSlots
    BY <2>3
  <2>4. Ranked(Ranks)
    <3>1. \A k \in Tasks : Ranks[k] \in Nat \ {0}
      BY <2>3, <2>10
    <3>2. \A k, l \in Tasks : Ranks[k] = Ranks[l] => k = l
      BY <2>3
    <3> QED BY <2>10, <3>1, <3>2 DEF Ranked
  <2>5. RankSlots' = RankSlots
    BY <1>2, <2>1 DEF RankSlots
  <2>6. Candidate.ranks = Ranks /\ Candidate.start = [k \in Tasks |-> Min({placed[o].start : o \in Of(k)})]
    BY DEF Candidate
  <2>7. ASSUME NEW r \in DOMAIN built'
        PROVE  /\ Ranked(built'[r].ranks)
               /\ {built'[r].ranks[k] : k \in Tasks} = RankSlots
               /\ \A k, l \in Tasks : built'[r].ranks[k] < built'[r].ranks[l] =>
                     built'[r].start[k] <= built'[r].start[l]
    <3>1. CASE r = caller
      <4>1. built'[r] = Candidate
        BY <2>1, <3>1
      <4>2. {Ranks[k] : k \in Tasks} = RankSlots
        <5>1. {Ranks[k] : k \in Tasks} \subseteq RankSlots
          BY <2>10
        <5>2. RankSlots \subseteq {Ranks[k] : k \in Tasks}
          <6> SUFFICES ASSUME NEW s \in RankSlots
                       PROVE  s \in {Ranks[k] : k \in Tasks}
            OBVIOUS
          <6>1. PICK k \in Tasks : Ranks[k] = s
            BY <2>3
          <6> QED BY <6>1
        <5> QED BY <5>1, <5>2
      <4>3. \A k, l \in Tasks : Ranks[k] < Ranks[l] =>
               Min({placed[o].start : o \in Of(k)}) <= Min({placed[o].start : o \in Of(l)})
        <5> TAKE k, l \in Tasks
        <5> HAVE Ranks[k] < Ranks[l]
        <5>1. FirstDispatch(k) < FirstDispatch(l)
          BY <2>3
        <5> QED BY <2>1, <2>2, <5>1, StartsInOrder
      <4>4. \A k, l \in Tasks : Candidate.ranks[k] < Candidate.ranks[l] => Candidate.start[k] <= Candidate.start[l]
        BY <2>6, <4>3
      <4> HIDE DEF Candidate
      <4> QED BY <2>4, <2>6, <4>1, <4>2, <4>4
    <3>2. CASE r # caller
      <4>1. r \in DOMAIN built /\ built'[r] = built[r]
        BY <2>1, <2>7, <3>2
      <4> QED BY <2>2, <4>1 DEF PlanInv, RanksFollowStarts
    <3> QED BY <3>1, <3>2
  <2>8. RanksFollowStarts'
    BY <1>2, <2>5, <2>7 DEF RanksFollowStarts
  <2>9. Ranked(plan)' /\ \A r \in DOMAIN built' : Ranked(built[r].ranks)'
    <3>1. Ranked(plan)'
      BY <1>2, <2>1, <2>2 DEF Ranked
    <3>2. \A r \in DOMAIN built' : Ranked(built'[r].ranks)
      BY <2>7
    <3>3. \A r \in DOMAIN built' : Ranked(built[r].ranks)'
      BY <1>2, <3>2 DEF Ranked
    <3> QED BY <3>1, <3>3
  <2> QED BY <2>8, <2>9 DEF PlanInv
<1>8. ASSUME NEW r \in DOMAIN built, Approve(r)
      PROVE  PlanInv'
  <2>1. plan' = built[r].ranks /\ caller' = "AGAIN" /\ built' = built
    BY <1>8 DEF Approve, Call
  <2>2. Ranked(built[r].ranks)
    BY DEF PlanInv
  <2>3. Ranked(plan)' /\ \A q \in DOMAIN built : Ranked(built[q].ranks)'
    BY <1>2, <2>1, <2>2 DEF Ranked, PlanInv
  <2> QED BY <2>1, <2>3 DEF PlanInv, RanksFollowStarts
<1> QED BY <1>5, <1>6, <1>7, <1>8 DEF ReplanNext

LEMMA PlanInitially == ReplanInit => PlanInv
<1> SUFFICES ASSUME ReplanInit PROVE PlanInv
  OBVIOUS
<1>1. DOMAIN built = {} /\ job \in Jobs
  BY DEF ReplanInit, Init
<1>2. ASSUME caller # "ANY"
      PROVE  Ranked(plan)
  <2>1. IsPlan(plan)
    BY <1>2, ReplanAssumption DEF ReplanInit
  <2>2. job.ops \subseteq Ops
    BY <1>1, JobsAreJobs
  <2> QED BY <2>1, <2>2 DEF IsPlan, Ranked, Tasks
<1> QED BY <1>1, <1>2 DEF PlanInv, RanksFollowStarts

(* RanksAreStarts: a candidate gives each rank of the plan to one task, in the *)
(* order in which its schedule starts them.                                 *)
THEOREM RanksAreStarts == ReplanSpec => []RanksFollowStarts
<1>1. PlanInv => RanksFollowStarts
  BY DEF PlanInv
<1> QED BY <1>1, ReplanInitially, ReplanInductive, CallInitially, CallInductive, PlanInitially, PlanInductive,
           PTL DEF ReplanSpec

-----------------------------------------------------------------------------
(* One turn at most                                                         *)

LEMMA TotalTieBreak ==
  ASSUME SchedulerInv, NEW o \in ready, NEW p \in ready, LotOf[o] = LotOf[p],
         ~ TieBreak(o, p), ~ TieBreak(p, o)
  PROVE  o = p
<1>1. /\ o \in Ops /\ p \in Ops /\ o \in job.ops /\ p \in job.ops /\ Due(o) /\ Due(p)
      /\ o \notin Scheduled /\ p \notin Scheduled
  BY JobsAreJobs DEF SchedulerInv, IInv, Partition, ReadyAreDue, BInv, SlotFacts
<1>2. /\ job.eligible[o] \in Nat /\ job.eligible[p] \in Nat
      /\ UnitOf[o] \in Nat /\ UnitOf[p] \in Nat /\ SeqOf[o] \in Nat /\ SeqOf[p] \in Nat
  BY <1>1, JobsAreJobs, SchedulerAssumption DEF SchedulerInv, BInv, SlotFacts
<1>3. Waiting(o) = Waiting(p)
  BY DEF TieBreak, Waiting
<1>4. UnitOf[o] = UnitOf[p]
  BY <1>2, <1>3 DEF TieBreak, Longer
<1>5. ~ (SeqOf[o] < SeqOf[p]) /\ ~ (SeqOf[p] < SeqOf[o])
  BY <1>1, <1>4 DEF Due, PredecessorsCompleted, Before
<1>6. SeqOf[o] = SeqOf[p]
  BY <1>2, <1>5
<1> QED BY <1>1, <1>4, <1>6, SchedulerAssumption

LEMMA RemainingCounts ==
  ASSUME SchedulerInv, NEW l
  PROVE  Remaining(l) \in Nat
<1> DEFINE W == {o \in job.ops : LotOf[o] = l}
           v(o) == IF o \in pending THEN job.duration[o] ELSE Cardinality(Worked(now, placed[o].end))
           f == [o \in W |-> v(o)]
           F(k) == [T \in SUBSET W |-> IF T = {} THEN 0
                      ELSE v(CHOOSE x \in T : TRUE) + k[T \ {CHOOSE x \in T : TRUE}]]
           k == CHOOSE k : k = F(k)
<1>1. IsFiniteSet(W)
  <2>1. IsFiniteSet(job.ops)
    BY SchedulerAssumption, JobsAreJobs, FS_Subset DEF SchedulerInv, BInv, SlotFacts
  <2> QED BY <2>1, FS_Subset
<1>2. \A o \in W : f[o] \in Nat
  <2> TAKE o \in W
  <2>1. now \in Nat /\ job.duration[o] \in Nat
    BY JobsAreJobs DEF SchedulerInv, BInv, SlotFacts
  <2>2. CASE o \in pending
    BY <2>1, <2>2
  <2>3. CASE o \notin pending
    <3>1. /\ placed[o].start \in Nat /\ IsWorkingTime(placed[o].start)
          /\ placed[o] = SlotAt(placed[o].start, job.duration[o]) /\ job.duration[o] \in Nat \ {0}
      BY <2>3, JobsAreJobs DEF SchedulerInv, IInv, Partition, BInv, SlotFacts, Slotted
    <3>2. placed[o].end \in Nat
      BY <3>1, SlotParts
    <3>3. now \in Int /\ placed[o].end - 1 \in Int
      BY <2>1, <3>2
    <3>4. IsFiniteSet(now .. placed[o].end - 1)
      BY <3>3, FS_Interval
    <3>5. Worked(now, placed[o].end) \in SUBSET (now .. placed[o].end - 1)
      BY DEF Worked
    <3>6. Cardinality(Worked(now, placed[o].end)) \in Nat
      BY <3>4, <3>5, FS_Subset, FS_CardinalityType
    <3> QED BY <2>3, <3>6
  <2> QED BY <2>2, <2>3
<1>3. PICK g : AddsUp(g, f, W)
  <2> HIDE DEF f, W
  <2>1. \A o \in W : f[o] \in Int
    BY <1>2
  <2> QED BY <1>1, <2>1, AddsUpSome
<1>4. \A T \in SUBSET W : T # {} => v(CHOOSE x \in T : TRUE) = f[CHOOSE x \in T : TRUE]
  <2> HIDE DEF v, W
  <2> QED OBVIOUS
<1>5. Remaining(l) = k[W]
  BY DEF Remaining, MapThenSumSet, MapThenFoldSet
<1> HIDE DEF f, v
<1>6. g = F(g)
  BY <1>3, <1>4 DEF AddsUp
<1>7. k = F(k)
  <2> HIDE DEF F
  <2> QED BY <1>6
<1> HIDE DEF k
<1>8. AddsUp(k, f, W)
  BY <1>4, <1>7 DEF AddsUp
<1> HIDE DEF W
<1>9. Total(f, W) = k[W]
  BY <1>1, <1>2, <1>8, TotalSums
<1>10. Total(f, W) \in Nat
  BY <1>1, <1>2, TotalNat
<1> QED BY <1>5, <1>9, <1>10

LEMMA DeadlineIsTime ==
  ASSUME NEW l \in Lots
  PROVE  Deadline(l) \in Nat
<1> DEFINE due == {g.at : g \in {g \in Gates : g.lot = l}}
<1>1. due \in SUBSET Nat
  BY ReplanAssumption
<1>2. Deadline(l) = IF due = {} THEN DueDate[l] ELSE Min(due)
  BY DEF Deadline
<1> HIDE DEF due
<1>3. due # {} => Min(due) \in Nat
  <2> HAVE due # {}
  <2>1. \E t \in due : \A u \in due : t <= u
    BY <1>1, LeastNatural
  <2>2. Min(due) \in due
    BY <2>1 DEF Min
  <2> QED BY <1>1, <2>2
<1> QED BY <1>2, <1>3, ReplanAssumption

LEMMA TimeLeftCounts ==
  ASSUME SchedulerInv, NEW l \in Lots
  PROVE  TimeLeft(l) \in Int
<1>1. now \in Nat /\ Deadline(l) \in Nat
  BY DeadlineIsTime DEF SchedulerInv, BInv, SlotFacts
<1>2. ASSUME NEW t \in Nat, NEW u \in Nat
      PROVE  Cardinality(Worked(t, u)) \in Nat
  <2>1. t \in Int /\ u - 1 \in Int
    OBVIOUS
  <2>2. IsFiniteSet(t .. u - 1)
    BY <2>1, FS_Interval
  <2>3. Worked(t, u) \in SUBSET (t .. u - 1)
    BY DEF Worked
  <2> QED BY <2>2, <2>3, FS_Subset, FS_CardinalityType
<1>3. Cardinality(Worked(now, Deadline(l))) \in Nat /\ Cardinality(Worked(Deadline(l), now)) \in Nat
  BY <1>1, <1>2
<1> QED BY <1>3 DEF TimeLeft

(* A rule never puts each of two LOTs before the other, nor neither.          *)
LEMMA RuleDecides ==
  ASSUME SchedulerInv, caller \in RuleNames, Ranked(plan), NEW o \in job.ops, NEW p \in job.ops,
         ~ LotBefore(LotOf[o], LotOf[p]), ~ LotBefore(LotOf[p], LotOf[o])
  PROVE  LotOf[o] = LotOf[p]
<1> DEFINE l == LotOf[o]
           m == LotOf[p]
<1>1. o \in Ops /\ p \in Ops
  BY JobsAreJobs DEF SchedulerInv, BInv, SlotFacts
<1>2. l \in Lots /\ m \in Lots
  BY <1>1 DEF Lots
<1> HIDE DEF l, m
<1>3. /\ TimeLeft(l) \in Int /\ TimeLeft(m) \in Int /\ Remaining(l) \in Int /\ Remaining(m) \in Int
      /\ Deadline(l) \in Int /\ Deadline(m) \in Int /\ ReleaseAt[l] \in Int /\ ReleaseAt[m] \in Int
  BY <1>2, TimeLeftCounts, RemainingCounts, DeadlineIsTime, ReplanAssumption
<1>4. Compare(l, m) \in Int /\ Compare(m, l) = - Compare(l, m)
  <2>1. CASE caller = "FCFS"
    BY <1>3, <2>1 DEF Compare
  <2>2. CASE caller = "EDD"
    BY <1>3, <2>2 DEF Compare
  <2>3. CASE caller = "SLACK"
    BY <1>3, <2>3 DEF Compare, LotSlack
  <2>4. CASE caller = "CR"
    <3>1. PICK x \in Int, y \in Int : x = TimeLeft(l) * Remaining(m) /\ y = TimeLeft(m) * Remaining(l)
      BY <1>3
    <3>2. Compare(l, m) = x - y /\ Compare(m, l) = y - x
      BY <2>4, <3>1 DEF Compare
    <3> QED BY <3>2
  <2> QED BY <2>1, <2>2, <2>3, <2>4 DEF RuleNames
<1>5. Compare(l, m) = 0 /\ Compare(m, l) = 0
  BY <1>4 DEF LotBefore, l, m
<1>6. ASSUME NEW q \in job.ops
      PROVE  \E k \in DOMAIN plan : k[1] = LotOf[q] /\ plan[k] = PlanOrder(LotOf[q]) /\ plan[k] \in Nat
  <2> DEFINE S == {plan[k] : k \in {k \in DOMAIN plan : k[1] = LotOf[q]}}
  <2>1. S \in SUBSET Nat
    BY DEF Ranked
  <2>2. KeyOf(q) \in DOMAIN plan /\ KeyOf(q)[1] = LotOf[q]
    BY DEF Ranked, Tasks, KeyOf
  <2>3. S # {}
    BY <2>2
  <2>4. PlanOrder(LotOf[q]) = Min(S)
    BY DEF PlanOrder
  <2>5. Min(S) \in S
    <3> HIDE DEF S
    <3>1. \E t \in S : \A u \in S : t <= u
      BY <2>1, <2>3, LeastNatural
    <3> QED BY <3>1 DEF Min
  <2> QED BY <2>1, <2>4, <2>5
<1>7. PICK k \in DOMAIN plan : k[1] = l /\ plan[k] = PlanOrder(l) /\ plan[k] \in Nat
  BY <1>6 DEF l
<1>8. PICK n \in DOMAIN plan : n[1] = m /\ plan[n] = PlanOrder(m) /\ plan[n] \in Nat
  BY <1>6 DEF m
<1>9. plan[k] = plan[n]
  BY <1>5, <1>7, <1>8 DEF LotBefore, l, m
<1>10. k = n
  BY <1>9 DEF Ranked
<1> QED BY <1>7, <1>8, <1>10 DEF l, m

LEMMA TurnsAreUnique ==
  ASSUME SchedulerInv, CallInv, PlanInv
  PROVE  Reproducible
<1> SUFFICES ASSUME caller # "ANY", phase = "dispatch", NEW o \in ready, NEW p \in ready,
                    InTurn(o), InTurn(p), o # p
             PROVE  FALSE
  BY DEF Reproducible
<1>1. ~ Preferred(o, p) /\ ~ Preferred(p, o)
  BY DEF InTurn
<1>2. Ranked(plan) /\ o \in job.ops /\ p \in job.ops
  BY DEF PlanInv, SchedulerInv, IInv, Partition
<1>3. caller \in RuleNames \cup {"LIVE", "AGAIN"}
  BY DEF CallInv, Callers
<1>4. LotOf[o] = LotOf[p] /\ ~ TieBreak(o, p) /\ ~ TieBreak(p, o)
  <2>1. CASE Forecasting
    <3>1. KeyOf(o) \in DOMAIN plan /\ KeyOf(p) \in DOMAIN plan
      BY <1>2 DEF Ranked, Tasks
    <3>2. plan[KeyOf(o)] \in Nat /\ plan[KeyOf(p)] \in Nat
      BY <1>2, <3>1 DEF Ranked
    <3>3. plan[KeyOf(o)] = plan[KeyOf(p)]
      BY <1>1, <2>1, <3>2 DEF Preferred
    <3>4. KeyOf(o) = KeyOf(p)
      BY <1>2, <3>1, <3>3 DEF Ranked
    <3> QED BY <1>1, <2>1, <3>4 DEF Preferred, KeyOf
  <2>2. CASE ~ Forecasting
    <3>1. caller \in RuleNames
      BY <1>3, <2>2 DEF Forecasting
    <3>2. ~ LotBefore(LotOf[o], LotOf[p]) /\ ~ LotBefore(LotOf[p], LotOf[o])
      BY <1>1, <2>2 DEF Preferred
    <3>3. LotOf[o] = LotOf[p]
      BY <1>2, <3>1, <3>2, RuleDecides
    <3> QED BY <1>1, <2>2, <3>3 DEF Preferred
  <2> QED BY <2>1, <2>2
<1> QED BY <1>4, TotalTieBreak

(* AlwaysReproducible: for every job, plan and rule at most one operation may   *)
(* go next, whatever order the set of the pending operations has.            *)
THEOREM AlwaysReproducible == ReplanSpec => []Reproducible
BY ReplanInitially, ReplanInductive, CallInitially, CallInductive, PlanInitially, PlanInductive, TurnsAreUnique,
   PTL DEF ReplanSpec

-----------------------------------------------------------------------------
(* The dispatch order as a function of what the job asked, slot by slot      *)

(* What some operations take, and the first of a list.                       *)
TakenBy(S, T) == UNION {Reserved(o, S[o]) : o \in T}
FirstOf(Q, n) == {Q[i] : i \in {i \in DOMAIN Q : i <= n}}

(* WasReady, FitsAt, Longer and TieBreak of a job j with the slots S.         *)
PlacesBefore(j, o) == {SeqOf[p] : p \in {p \in j.ops : LotOf[p] = LotOf[o] /\ SeqOf[p] < SeqOf[o]}}
Feeding(j, o) == {p \in j.ops : LotOf[p] = LotOf[o] /\ SeqOf[p] = Max(PlacesBefore(j, o))}
Sharing(j, o) == {p \in j.ops : LotOf[p] = LotOf[o] /\ SeqOf[p] = SeqOf[o]}
Fed(j, S, o, t) == {p \in Feeding(j, o) \cap DOMAIN S : S[p].end <= t}
DueIn(j, S, o, t) ==
  /\ j.release[o] <= t /\ j.eligible[o] <= t
  /\ \A p \in j.ops : Before(p, o) => p \in DOMAIN S /\ S[p].end <= t
ReadyIn(j, S, o, t) ==
  /\ DueIn(j, S, o, t)
  /\ \/ j.buffer[o] = None
     \/ \E p \in Sharing(j, o) \cap DOMAIN S : S[p].start < t
     \/ Cardinality(Fed(j, S, o, t)) >= j.buffer[o]
FitsIn(j, o, t, A) == \E e \in Nat : t < e /\ Fits(t, e, j.duration[o], Need[o], A)
LongerIn(j, p, o) ==
  \/ j.eligible[p] < j.eligible[o]
  \/ j.eligible[p] = j.eligible[o] /\ UnitOf[p] < UnitOf[o]
WaitingIn(j, o) == j.state[o] = "WAITING"
TieBreakIn(j, p, o) ==
  \/ WaitingIn(j, p) /\ ~ WaitingIn(j, o)
  \/ WaitingIn(j, p) = WaitingIn(j, o) /\ LongerIn(j, p, o)

(* Whoever started at some instant was ready and fitted beside those before;   *)
(* it was the running operation that had waited longest, or none ran; and of  *)
(* its own task no other that fitted went before it.                        *)
Greedily(j, S, Q, i, o, t) ==
  LET beside == TakenBy(S, FirstOf(Q, i - 1))
  IN /\ o \notin FirstOf(Q, i - 1)
     /\ j.start <= t /\ ReadyIn(j, S, o, t) /\ FitsIn(j, o, t, beside)
     /\ \A p \in j.ops \ FirstOf(Q, i) : ReadyIn(j, S, p, t) =>
          /\ j.state[p] = "RUNNING" => j.state[o] = "RUNNING" /\ ~ LongerIn(j, p, o)
          /\ j.state[o] # "RUNNING" /\ KeyOf(p) = KeyOf(o) /\ TieBreakIn(j, p, o) =>
               ~ FitsIn(j, p, t, beside)
Greedy(j, S, Q) == \A i \in DOMAIN Q : Greedily(j, S, Q, i, Q[i], S[Q[i]].start)

(* The slots that have begun by an instant, and the event that follows when    *)
(* these are all there are.                                                 *)
Upto(S, t) == [o \in {o \in DOMAIN S : S[o].start <= t} |-> S[o]]
SlotIn(j, S, o, t) == EarliestSlot(t, j.duration[o], Need[o], TakenBy(S, DOMAIN S))
MayStart(j, S, o, t) ==
  /\ DueIn(j, S, o, t)
  /\ \/ j.buffer[o] = None
     \/ \E p \in Sharing(j, o) \cap DOMAIN S : S[p].start <= t
     \/ Cardinality(Fed(j, S, o, t)) >= j.buffer[o]
EventsIn(j, S, t) ==
  LET left == j.ops \ DOMAIN S
  IN {S[o].end : o \in DOMAIN S} \cup {a.end : a \in TakenBy(S, DOMAIN S)}
       \cup {j.release[o] : o \in left} \cup {j.eligible[o] : o \in left}
       \cup {NextWorkStart(t)}
       \cup {SlotIn(j, S, o, t).start : o \in {o \in left : MayStart(j, S, o, t)}}
NextIn(j, S, t) == Min({e \in EventsIn(j, S, t) : e > t})

(* The instants of the decisions: each is the event that follows the last, and *)
(* what was ready at one and did not start by then did not fit.              *)
Instants(j, S, D) ==
  /\ D \in SUBSET Nat /\ j.start \in D
  /\ \A o \in DOMAIN S : S[o].start \in D
  /\ \A t, u \in D : t < u =>
       /\ NextIn(j, Upto(S, t), t) \in D /\ NextIn(j, Upto(S, t), t) <= u
       /\ \A o \in j.ops : (o \in DOMAIN S => t < S[o].start) /\ ReadyIn(j, S, o, t) =>
            ~ FitsIn(j, o, t, TakenBy(S, DOMAIN Upto(S, t)))

KpiOf(j, S) ==
  LET Done(g) == Max({S[o].end : o \in {o \in j.ops : KeyOf(o) = <<g.lot, g.step>>}})
      Left(g) == g.at - Done(g)
  IN [late      |-> Cardinality({g.lot : g \in {g \in Gates : Left(g) < 0}}),
      tardiness |-> MapThenSumSet(LAMBDA g : IF Left(g) < 0 THEN - Left(g) ELSE 0, Gates)]

LEMMA KpiHere == Kpi = KpiOf(job, placed)
BY DEF Kpi, KpiOf, Slack, ForecastAt, Of

(* The constant forms say of the present slots what the scheduler does.        *)
LEMMA Here ==
  /\ \A o : WasReady(o) <=> ReadyIn(job, placed, o, now)
  /\ \A o : StructurallyReady(o) <=> MayStart(job, placed, o, now)
  /\ \A o, t, A : FitsAt(o, t, A) <=> FitsIn(job, o, t, A)
  /\ \A p, o : /\ Longer(p, o) <=> LongerIn(job, p, o)
               /\ TieBreak(p, o) <=> TieBreakIn(job, p, o)
<1>1. \A o : /\ CompletedUpstream(o, now) = Fed(job, placed, o, now)
             /\ SamePlace(o) = Sharing(job, o)
             /\ Due(o) <=> DueIn(job, placed, o, now)
  BY DEF CompletedUpstream, Upstream, EarlierPlaces, Scheduled, Fed, Feeding, PlacesBefore, SamePlace, Sharing,
         Due, PredecessorsCompleted, DueIn
<1>2. \A o : WasReady(o) <=> ReadyIn(job, placed, o, now)
  BY <1>1 DEF WasReady, ReadyIn, Scheduled
<1>3. \A o : StructurallyReady(o) <=> MayStart(job, placed, o, now)
  BY <1>1 DEF StructurallyReady, BufferReleased, DownstreamStarted, MayStart, Scheduled
<1>4. \A o, t, A : FitsAt(o, t, A) <=> FitsIn(job, o, t, A)
  BY DEF FitsAt, FitsIn
<1>5. \A p, o : /\ Longer(p, o) <=> LongerIn(job, p, o)
                /\ TieBreak(p, o) <=> TieBreakIn(job, p, o)
  BY DEF Longer, LongerIn, TieBreak, TieBreakIn, Waiting, WaitingIn
<1> QED BY <1>2, <1>3, <1>4, <1>5

LEMMA EventsHere ==
  ASSUME IInv, SlotFacts
  PROVE  NextIn(job, placed, now) = Min(Future)
<1>1. pending = job.ops \ Scheduled /\ allocations = TakenBy(placed, Scheduled)
  BY DEF IInv, Partition, SlotFacts, TakenBy
<1>2. {o \in pending : StructurallyReady(o)} = {o \in pending : MayStart(job, placed, o, now)}
  BY Here
<1>3. \A o : SlotIn(job, placed, o, now) = Slot(o)
  BY <1>1 DEF SlotIn, Slot, Scheduled
<1>4. {SlotIn(job, placed, o, now).start : o \in {o \in pending : MayStart(job, placed, o, now)}}
        = {Slot(o).start : o \in {o \in pending : StructurallyReady(o)}}
  BY <1>2, <1>3
<1>5. EventsIn(job, placed, now) = Events
  BY <1>1, <1>4 DEF EventsIn, Events, Scheduled
<1> QED BY <1>5 DEF NextIn, Future

-----------------------------------------------------------------------------
(* Every dispatch is greedy                                                  *)

(* Every call starts its operations so, one by one, and decides when it must.  *)
GreedyInv ==
  caller # "ANY" =>
    /\ placed = [o \in Scheduled |-> placed[o]]
    /\ job.start <= now
    /\ Greedy(job, placed, order)
    /\ \E D : Instants(job, placed, D) /\ now \in D /\ \A t \in D : t <= now

LEMMA TakenAlike ==
  ASSUME NEW S, NEW R, NEW T, \A o \in T : S[o] = R[o]
  PROVE  TakenBy(S, T) = TakenBy(R, T)
BY DEF TakenBy

(* What begins at an instant or later has no part in what is ready at it.     *)
LEMMA ReadyAlike ==
  ASSUME NEW j, NEW S, NEW R, NEW o, NEW t,
         \A p \in j.ops :
           /\ (p \in DOMAIN S /\ S[p].end <= t) <=> (p \in DOMAIN R /\ R[p].end <= t)
           /\ (p \in DOMAIN S /\ S[p].start < t) <=> (p \in DOMAIN R /\ R[p].start < t)
  PROVE  ReadyIn(j, S, o, t) <=> ReadyIn(j, R, o, t)
<1>1. Feeding(j, o) \subseteq j.ops /\ Sharing(j, o) \subseteq j.ops
  BY DEF Feeding, Sharing
<1>2. Fed(j, S, o, t) = Fed(j, R, o, t)
  BY <1>1 DEF Fed
<1>3. DueIn(j, S, o, t) <=> DueIn(j, R, o, t)
  BY DEF DueIn
<1>4. (\E p \in Sharing(j, o) \cap DOMAIN S : S[p].start < t) <=>
        \E p \in Sharing(j, o) \cap DOMAIN R : R[p].start < t
  BY <1>1
<1> QED BY <1>2, <1>3, <1>4 DEF ReadyIn

(* What starts at the last decision changes nothing at those before it.       *)
LEMMA InstantsMore ==
  ASSUME NEW j, NEW S, NEW R, NEW q, NEW D, NEW n \in D, Instants(j, S, D), \A t \in D : t <= n,
         q \notin DOMAIN S, DOMAIN R = DOMAIN S \cup {q}, \A o \in DOMAIN S : R[o] = S[o],
         R[q].start = n, R[q].end \in Nat, n < R[q].end
  PROVE  Instants(j, R, D)
<1>1. /\ D \in SUBSET Nat /\ j.start \in D
      /\ \A o \in DOMAIN S : S[o].start \in D
  BY DEF Instants
<1>2. ASSUME NEW t \in D, NEW u \in D, t < u
      PROVE  /\ NextIn(j, Upto(R, t), t) \in D /\ NextIn(j, Upto(R, t), t) <= u
             /\ \A o \in j.ops : (o \in DOMAIN R => t < R[o].start) /\ ReadyIn(j, R, o, t) =>
                  ~ FitsIn(j, o, t, TakenBy(R, DOMAIN Upto(R, t)))
  <2>1. t \in Nat /\ n \in Nat /\ t < n
    <3>1. u <= n /\ u \in Nat
      BY <1>1
    <3> QED BY <1>1, <1>2, <3>1
  <2>2. {o \in DOMAIN R : R[o].start <= t} = {o \in DOMAIN S : S[o].start <= t}
    <3>1. ~ (R[q].start <= t)
      BY <2>1
    <3> QED BY <3>1
  <2> DEFINE P == {o \in DOMAIN S : S[o].start <= t}
  <2>3. \A o \in P : R[o] = S[o]
    OBVIOUS
  <2>4. Upto(R, t) = Upto(S, t) /\ DOMAIN Upto(S, t) = P /\ P \subseteq DOMAIN S
    <3>1. Upto(R, t) = [o \in P |-> R[o]] /\ Upto(S, t) = [o \in P |-> S[o]]
      BY <2>2 DEF Upto
    <3> HIDE DEF P
    <3>2. Upto(R, t) = Upto(S, t) /\ DOMAIN Upto(S, t) = P
      BY <2>3, <3>1
    <3> QED BY <3>2 DEF P
  <2> HIDE DEF P
  <2>5. TakenBy(R, P) = TakenBy(S, P)
    BY <2>3, TakenAlike
  <2>6. \A o : ReadyIn(j, R, o, t) <=> ReadyIn(j, S, o, t)
    <3>1. ~ (R[q].end <= t) /\ ~ (R[q].start < t)
      BY <2>1
    <3> QED BY <3>1, ReadyAlike
  <2>7. /\ NextIn(j, Upto(S, t), t) \in D /\ NextIn(j, Upto(S, t), t) <= u
        /\ \A o \in j.ops : (o \in DOMAIN S => t < S[o].start) /\ ReadyIn(j, S, o, t) =>
             ~ FitsIn(j, o, t, TakenBy(S, DOMAIN Upto(S, t)))
    BY <1>2 DEF Instants
  <2> QED BY <2>4, <2>5, <2>6, <2>7
<1> QED BY <1>1, <1>2 DEF Instants

(* When the clock moves on, to the event that follows, nothing is left that    *)
(* was ready and fits.                                                      *)
LEMMA InstantsNext ==
  ASSUME NEW j, NEW S, NEW D, NEW n \in D, Instants(j, S, D), \A t \in D : t <= n,
         S = [o \in DOMAIN S |-> S[o]], \A o \in DOMAIN S : S[o].start <= n,
         NEW m \in Nat, n < m, m = NextIn(j, S, n),
         \A o \in j.ops \ DOMAIN S : ReadyIn(j, S, o, n) => ~ FitsIn(j, o, n, TakenBy(S, DOMAIN S))
  PROVE  Instants(j, S, D \cup {m}) /\ \A t \in D \cup {m} : t <= m
<1>1. /\ D \in SUBSET Nat /\ j.start \in D
      /\ \A o \in DOMAIN S : S[o].start \in D
  BY DEF Instants
<1>2. n \in Nat /\ \A t \in D : t \in Nat /\ t < m
  BY <1>1
<1>3. Upto(S, n) = S
  BY DEF Upto
<1>4. ASSUME NEW t \in D \cup {m}, NEW u \in D \cup {m}, t < u
      PROVE  /\ NextIn(j, Upto(S, t), t) \in D \cup {m} /\ NextIn(j, Upto(S, t), t) <= u
             /\ \A o \in j.ops : (o \in DOMAIN S => t < S[o].start) /\ ReadyIn(j, S, o, t) =>
                  ~ FitsIn(j, o, t, TakenBy(S, DOMAIN Upto(S, t)))
  <2>1. t \in D
    BY <1>2, <1>4
  <2>2. CASE t < n
    <3>1. /\ NextIn(j, Upto(S, t), t) \in D /\ NextIn(j, Upto(S, t), t) <= n
          /\ \A o \in j.ops : (o \in DOMAIN S => t < S[o].start) /\ ReadyIn(j, S, o, t) =>
               ~ FitsIn(j, o, t, TakenBy(S, DOMAIN Upto(S, t)))
      BY <2>1, <2>2 DEF Instants
    <3>2. u \in D => NextIn(j, Upto(S, t), t) <= u
      BY <1>4, <2>1 DEF Instants
    <3>3. NextIn(j, Upto(S, t), t) <= m
      BY <1>2, <3>1
    <3> QED BY <3>1, <3>2, <3>3
  <2>3. CASE t = n
    <3>1. u = m
      BY <1>2, <1>4, <2>3
    <3>2. \A o \in DOMAIN S : ~ (n < S[o].start)
      BY <1>1, <1>2
    <3> QED BY <1>3, <2>3, <3>1, <3>2
  <2> QED BY <1>2, <2>1, <2>2, <2>3
<1> QED BY <1>1, <1>2, <1>4 DEF Instants

LEMMA FirstOfMore ==
  ASSUME NEW X, NEW Q \in Seq(X), NEW q \in X
  PROVE  /\ \A i \in DOMAIN Q : /\ FirstOf(Append(Q, q), i) = FirstOf(Q, i)
                               /\ FirstOf(Append(Q, q), i - 1) = FirstOf(Q, i - 1)
         /\ \A o : o \in FirstOf(Append(Q, q), Len(Q)) <=> \E i \in DOMAIN Q : Q[i] = o
         /\ \A o : o \in FirstOf(Append(Q, q), Len(Q) + 1) <=> o = q \/ \E i \in DOMAIN Q : Q[i] = o
<1> DEFINE R == Append(Q, q)
           n == Len(Q)
<1>1. /\ n \in Nat /\ DOMAIN Q = 1 .. n /\ DOMAIN R = 1 .. n + 1
      /\ \A i \in 1 .. n : R[i] = Q[i]
      /\ R[n + 1] = q
  OBVIOUS
<1> HIDE DEF R, n
<1>2. ASSUME NEW i \in Int, i <= n
      PROVE  FirstOf(R, i) = FirstOf(Q, i)
  <2>1. \A h : h \in DOMAIN R /\ h <= i <=> h \in DOMAIN Q /\ h <= i
    BY <1>1, <1>2
  <2>2. {h \in DOMAIN R : h <= i} = {h \in DOMAIN Q : h <= i}
    BY <2>1
  <2>3. \A h \in {h \in DOMAIN Q : h <= i} : R[h] = Q[h]
    BY <1>1
  <2> QED BY <2>2, <2>3 DEF FirstOf
<1>3. \A i \in DOMAIN Q : FirstOf(R, i) = FirstOf(Q, i) /\ FirstOf(R, i - 1) = FirstOf(Q, i - 1)
  <2> TAKE i \in DOMAIN Q
  <2>1. i \in Int /\ i - 1 \in Int /\ i <= n /\ i - 1 <= n
    BY <1>1
  <2> QED BY <1>2, <2>1
<1>4. {h \in DOMAIN Q : h <= n} = DOMAIN Q /\ {h \in DOMAIN R : h <= n + 1} = DOMAIN R
  BY <1>1
<1>5. FirstOf(R, n) = {Q[h] : h \in DOMAIN Q}
  BY <1>1, <1>2, <1>4 DEF FirstOf
<1>6. FirstOf(R, n + 1) = {R[h] : h \in DOMAIN R}
  BY <1>4 DEF FirstOf
<1>7. \A o : o \in FirstOf(R, n + 1) <=> o = q \/ \E i \in DOMAIN Q : Q[i] = o
  <2> TAKE o
  <2>1. o \in FirstOf(R, n + 1) <=> \E h \in DOMAIN R : R[h] = o
    BY <1>6
  <2>2. (\E h \in DOMAIN R : R[h] = o) => o = q \/ \E i \in DOMAIN Q : Q[i] = o
    <3> SUFFICES ASSUME NEW h \in DOMAIN R PROVE R[h] = q \/ \E i \in DOMAIN Q : Q[i] = R[h]
      OBVIOUS
    <3>1. h = n + 1 \/ h \in DOMAIN Q
      BY <1>1
    <3> QED BY <1>1, <3>1
  <2>3. o = q \/ (\E i \in DOMAIN Q : Q[i] = o) => \E h \in DOMAIN R : R[h] = o
    <3>1. n + 1 \in DOMAIN R /\ \A i \in DOMAIN Q : i \in DOMAIN R
      BY <1>1
    <3> QED BY <1>1, <3>1
  <2> QED BY <2>1, <2>2, <2>3
<1> QED BY <1>3, <1>5, <1>7 DEF R, n

LEMMA GreedyStarting ==
  ASSUME SchedulerInv, SchedulerInv', CallInv, TurnInv, GreedyInv, caller # "ANY", NEW q \in ready, Started(q),
         order' = Append(order, q), Try(q), UNCHANGED callVars
  PROVE  GreedyInv'
<1>1. /\ q \in job.ops /\ q \notin Scheduled /\ Scheduled' = Scheduled \cup {q}
      /\ \A r \in Scheduled : placed'[r] = placed[r]
      /\ placed' = [r \in Scheduled \cup {q} |-> IF r = q THEN Slot(q) ELSE placed[r]]
      /\ job' = job /\ now' = now /\ phase = "dispatch" /\ placed'[q].start = now
      /\ pending' = pending \ {q} /\ ready' = ready \ {q} /\ pending = job.ops \ Scheduled
      /\ allocations' = allocations \cup Reserved(q, Slot(q)) /\ caller' = caller
      /\ Slot(q).start = now
  BY DEF Started, Place, Scheduled, SchedulerInv, IInv, Partition, callVars
<1>2. IInv /\ BInv /\ SlotFacts /\ BusyInv /\ job \in Replanned /\ Listed /\ Greedy(job, placed, order)
  BY DEF SchedulerInv, BInv, CallInv, GreedyInv
<1>3. now \in Nat /\ \A r \in Scheduled : placed[r].start \in Nat /\ placed[r].start <= now
  BY <1>2 DEF SlotFacts, Slotted
<1>4. placed'[q].end \in Nat /\ now < placed'[q].end
  <2>1. placed'[q] = SlotAt(now, job.duration[q]) /\ IsWorkingTime(now) /\ job.duration[q] \in Nat \ {0}
    BY <1>1, <1>2, SlotIsEarliest DEF Earliest
  <2> QED BY <1>3, <2>1, SlotParts
<1>5. ASSUME NEW o, NEW t \in Nat, t <= now
      PROVE  ReadyIn(job, placed', o, t) <=> ReadyIn(job, placed, o, t)
  <2>1. ~ (placed'[q].end <= t) /\ ~ (placed'[q].start < t)
    BY <1>1, <1>3, <1>4, <1>5
  <2>2. PICK S, R, j : S = placed' /\ R = placed /\ j = job
    OBVIOUS
  <2>3. ASSUME NEW p \in j.ops
        PROVE  /\ (p \in DOMAIN S /\ S[p].end <= t) <=> (p \in DOMAIN R /\ R[p].end <= t)
               /\ (p \in DOMAIN S /\ S[p].start < t) <=> (p \in DOMAIN R /\ R[p].start < t)
    BY <1>1, <2>1, <2>2 DEF Scheduled
  <2> HIDE <2>2
  <2>4. ReadyIn(j, S, o, t) <=> ReadyIn(j, R, o, t)
    BY <2>3, ReadyAlike
  <2> QED BY <2>2, <2>4
<1> DEFINE n == Len(order) + 1
<1>6. /\ DOMAIN order' = DOMAIN order \cup {n} /\ order'[n] = q
      /\ \A i \in DOMAIN order : order'[i] = order[i] /\ order[i] \in Scheduled
      /\ n - 1 = Len(order)
  <2>1. order \in Seq(job.ops) /\ \A i \in DOMAIN order : order[i] \in Scheduled
    BY <1>2 DEF Listed
  <2> QED BY <1>1, <2>1, Appended
<1>7. /\ \A i \in DOMAIN order : /\ FirstOf(order', i) = FirstOf(order, i)
                                /\ FirstOf(order', i - 1) = FirstOf(order, i - 1)
      /\ FirstOf(order', n - 1) = Scheduled
      /\ FirstOf(order', n) = Scheduled \cup {q}
  <2>1. order \in Seq(job.ops) /\ \A o : o \in Scheduled <=> \E i \in DOMAIN order : order[i] = o
    BY <1>2 DEF Listed
  <2>2. /\ \A i \in DOMAIN order : /\ FirstOf(order', i) = FirstOf(order, i)
                                  /\ FirstOf(order', i - 1) = FirstOf(order, i - 1)
        /\ \A o : o \in FirstOf(order', Len(order)) <=> o \in Scheduled
        /\ \A o : o \in FirstOf(order', n) <=> o = q \/ o \in Scheduled
    BY <1>1, <2>1, FirstOfMore
  <2> QED BY <1>6, <2>2
<1> HIDE DEF n
<1>8. allocations = TakenBy(placed', Scheduled)
  <2>1. allocations = TakenBy(placed, Scheduled)
    BY <1>2 DEF SlotFacts, TakenBy
  <2> QED BY <1>1, <2>1, TakenAlike
<1>9. ASSUME NEW i \in DOMAIN order
      PROVE  Greedily(job, placed', order', i, order'[i], placed'[order'[i]].start)
  <2> DEFINE o == order[i]
             t == placed[o].start
  <2>1. order'[i] = o /\ placed'[order'[i]].start = t /\ t \in Nat /\ t <= now /\ o \in Scheduled
    BY <1>1, <1>3, <1>6
  <2>2. TakenBy(placed', FirstOf(order, i - 1)) = TakenBy(placed, FirstOf(order, i - 1))
    <3>1. FirstOf(order, i - 1) \subseteq Scheduled
      BY <1>6 DEF FirstOf
    <3> QED BY <1>1, <3>1, TakenAlike
  <2>3. Greedily(job, placed, order, i, o, t)
    BY <1>2 DEF Greedy
  <2> HIDE DEF o, t
  <2>4. Greedily(job, placed', order', i, o, t)
    BY <1>5, <1>7, <2>1, <2>2, <2>3 DEF Greedily
  <2> QED BY <2>1, <2>4
<1>10. ASSUME NEW p \in job.ops \ (Scheduled \cup {q}), WasReady(p)
       PROVE  /\ job.state[p] = "RUNNING" => job.state[q] = "RUNNING" /\ ~ Longer(p, q)
              /\ job.state[q] # "RUNNING" /\ KeyOf(p) = KeyOf(q) /\ TieBreak(p, q) =>
                   ~ FitsAt(p, now, allocations)
  <2>1. p \in pending /\ p # q
    BY <1>1, <1>10
  <2>2. job.state[p] = "RUNNING" => p \in Running
    BY <1>1, <1>10, <2>1 DEF TurnInv, Running
  <2>3. CASE Continue(q)
    BY <2>1, <2>2, <2>3 DEF Continue, Running
  <2>4. CASE Dispatch(q)
    <3>1. KeyOf(p) = KeyOf(q) /\ TieBreak(p, q) => p \notin ready
      BY <1>10, <2>4 DEF Dispatch, SameTask, KeyOf
    <3>2. p \notin ready => ~ FitsAt(p, now, allocations)
      BY <1>1, <1>10, <2>1 DEF TurnInv
    <3>3. job.state[p] # "RUNNING"
      BY <2>2, <2>4 DEF Dispatch
    <3> QED BY <3>1, <3>2, <3>3
  <2> QED BY <2>3, <2>4 DEF Try
<1>11. Greedily(job, placed', order', n, q, now)
  <2>1. WasReady(q) /\ FitsAt(q, now, allocations)
    BY <1>1, <1>2, SlotIsNow DEF TurnInv
  <2>2. ReadyIn(job, placed', q, now) /\ FitsIn(job, q, now, allocations)
    BY <1>3, <1>5, <2>1, Here
  <2>3. \A p : ReadyIn(job, placed', p, now) => WasReady(p)
    BY <1>3, <1>5, Here
  <2>4. job.start <= now
    BY DEF GreedyInv
  <2>5. \A p \in job.ops \ (Scheduled \cup {q}) : ReadyIn(job, placed', p, now) =>
          /\ job.state[p] = "RUNNING" => job.state[q] = "RUNNING" /\ ~ LongerIn(job, p, q)
          /\ job.state[q] # "RUNNING" /\ KeyOf(p) = KeyOf(q) /\ TieBreakIn(job, p, q) =>
               ~ FitsIn(job, p, now, allocations)
    BY <1>10, <2>3, Here
  <2> QED BY <1>1, <1>7, <1>8, <2>2, <2>4, <2>5 DEF Greedily
<1>12. Greedy(job, placed', order')
  BY <1>1, <1>6, <1>9, <1>11 DEF Greedy
<1>13. PICK D : Instants(job, placed, D) /\ now \in D /\ \A u \in D : u <= now
  BY DEF GreedyInv
<1>18. Instants(job, placed', D)
  BY <1>1, <1>4, <1>13, InstantsMore DEF Scheduled
<1>14. placed' = [o \in Scheduled' |-> placed'[o]]
  BY <1>1
<1>15. Greedy(job, placed, order)' <=> Greedy(job', placed', order')
  BY DEF Greedy
<1>16. job'.start <= now'
  BY <1>1 DEF GreedyInv
<1> QED BY <1>1, <1>12, <1>13, <1>14, <1>15, <1>16, <1>18 DEF GreedyInv

-----------------------------------------------------------------------------
(* Every answer came from a greedy schedule of the job that asked            *)

LEMMA GreedyKeeping ==
  ASSUME GreedyInv, UNCHANGED <<job, now, placed, order>>, caller' # "ANY" => caller # "ANY"
  PROVE  GreedyInv'
<1>1. Scheduled' = Scheduled /\ (Greedy(job, placed, order)' <=> Greedy(job, placed, order))
  BY DEF Scheduled, Greedy
<1>2. \A D : Instants(job, placed, D)' <=> Instants(job, placed, D)
  BY DEF Instants
<1> QED BY <1>1, <1>2 DEF GreedyInv

LEMMA GreedyAdvancing ==
  ASSUME SchedulerInv, TurnInv, GreedyInv, Advance, UNCHANGED <<order, callVars>>
  PROVE  GreedyInv'
<1>1. /\ UNCHANGED <<job, placed, order, caller>> /\ phase = "dispatch" /\ ready = {}
      /\ now' = now \/ (now' = Min(Future) /\ Future # {})
  BY DEF Advance, callVars
<1>2. CASE now' = now
  BY <1>1, <1>2, GreedyKeeping
<1>3. CASE caller # "ANY" /\ now' = Min(Future) /\ Future # {}
  <2>1. /\ IInv /\ SlotFacts /\ now \in Nat /\ pending = job.ops \ Scheduled
        /\ placed = [o \in DOMAIN placed |-> placed[o]]
        /\ \A o \in DOMAIN placed : placed[o].start <= now
    BY <1>3 DEF SchedulerInv, BInv, SlotFacts, IInv, Partition, GreedyInv, Scheduled, Slotted
  <2>2. now' \in Nat /\ now < now' /\ now' = NextIn(job, placed, now)
    BY <1>3, <2>1, ClockMoves, EventsHere
  <2>3. PICK m \in Nat : m = now'
    BY <2>2
  <2>4. PICK D : Instants(job, placed, D) /\ now \in D /\ \A t \in D : t <= now
    BY <1>3 DEF GreedyInv
  <2>5. allocations = TakenBy(placed, DOMAIN placed)
    BY <2>1 DEF SlotFacts, TakenBy, Scheduled
  <2>6. \A o \in job.ops \ DOMAIN placed :
          ReadyIn(job, placed, o, now) => ~ FitsIn(job, o, now, TakenBy(placed, DOMAIN placed))
    BY <1>1, <1>3, <2>1, <2>5, Here DEF TurnInv, Scheduled
  <2>7. Instants(job, placed, D \cup {m}) /\ \A t \in D \cup {m} : t <= m
    BY <2>1, <2>2, <2>3, <2>4, <2>6, InstantsNext
  <2>8. Scheduled' = Scheduled /\ (Greedy(job, placed, order)' <=> Greedy(job, placed, order))
    BY <1>1 DEF Scheduled, Greedy
  <2>9. job.start <= now'
    <3>1. job.start \in Nat
      BY <2>1, JobsAreJobs DEF SlotFacts
    <3> QED BY <1>3, <2>1, <2>2, <3>1 DEF GreedyInv
  <2> QED BY <1>1, <1>3, <2>3, <2>7, <2>8, <2>9 DEF GreedyInv
<1>4. CASE caller = "ANY"
  BY <1>1, <1>4 DEF GreedyInv
<1> QED BY <1>1, <1>2, <1>3, <1>4

LEMMA GreedyBeginning ==
  ASSUME NEW j, NEW S, j.start \in Nat, DOMAIN S = {}
  PROVE  Instants(j, S, {j.start})
BY DEF Instants

LEMMA GreedyCalling ==
  ASSUME SchedulerInv, NEW c, Call(c)
  PROVE  GreedyInv'
<1>1. /\ Scheduled' = {} /\ placed' = [o \in {} |-> None] /\ order' = <<>> /\ job' = job
      /\ phase' = "decide" /\ now' = job.start
  BY DEF Call, Scheduled
<1>2. placed' = [o \in Scheduled' |-> placed'[o]]
  BY <1>1
<1>3. Greedy(job, placed, order)'
  BY <1>1 DEF Greedy
<1>4. job.start \in Nat /\ job.start <= now'
  BY <1>1, JobsAreJobs DEF SchedulerInv, BInv, SlotFacts
<1>5. Instants(job', placed', {job'.start})
  BY <1>1, <1>4, GreedyBeginning DEF Scheduled
<1> QED BY <1>1, <1>2, <1>3, <1>4, <1>5 DEF GreedyInv

LEMMA GreedyInductive ==
  SchedulerInv /\ CallInv /\ TurnInv /\ GreedyInv /\ [ReplanNext]_replanVars => GreedyInv'
<1> SUFFICES ASSUME SchedulerInv, CallInv, TurnInv, GreedyInv, [ReplanNext]_replanVars PROVE GreedyInv'
  OBVIOUS
<1>1. SchedulerInv' /\ IInv /\ SlotFacts
  BY ReplanInductive DEF SchedulerInv, BInv
<1>2. CASE (Decide \/ Finish) /\ UNCHANGED <<order, callVars>>
  BY <1>2, GreedyKeeping DEF Decide, Finish, callVars
<1>3. ASSUME NEW q \in ready, Try(q), UNCHANGED callVars
      PROVE  GreedyInv'
  <2>1. CASE caller = "ANY"
    BY <1>3, <2>1 DEF GreedyInv, callVars
  <2>2. CASE caller # "ANY" /\ Started(q) /\ order' = Append(order, q)
    BY <1>1, <1>3, <2>2, GreedyStarting
  <2>3. CASE Passed(q) /\ order' = order
    BY <1>3, <2>3, GreedyKeeping DEF Passed, callVars
  <2> QED BY <1>1, <1>3, <2>1, <2>2, <2>3, Turning
<1>4. CASE Step
  BY <1>2, <1>3, <1>4, GreedyAdvancing DEF Step
<1>5. CASE Evaluate
  BY <1>5, GreedyCalling DEF Evaluate
<1>6. CASE Build
  <2>1. PICK i \in DOMAIN Rules :
          /\ caller = Rules[i]
          /\ (caller' = "MANAGER" /\ UNCHANGED <<vars, order>>) \/ Call(Rules[i + 1])
    BY <1>6 DEF Build
  <2>2. caller # "ANY"
    BY <2>1, RuleNamed DEF RuleNames
  <2> QED BY <2>1, <2>2, GreedyKeeping, GreedyCalling DEF vars
<1>7. ASSUME NEW r \in DOMAIN built, Approve(r)
      PROVE  GreedyInv'
  BY <1>7, GreedyCalling DEF Approve
<1>8. CASE UNCHANGED replanVars
  BY <1>8, GreedyKeeping DEF replanVars, vars, callVars
<1> QED BY <1>4, <1>5, <1>6, <1>7, <1>8 DEF ReplanNext

LEMMA GreedyInitially == ReplanInit => GreedyInv
<1> SUFFICES ASSUME ReplanInit PROVE GreedyInv
  OBVIOUS
<1>1. /\ Scheduled = {} /\ placed = [o \in {} |-> None] /\ order = <<>> /\ phase = "decide"
      /\ now = job.start /\ job \in Jobs
  BY DEF ReplanInit, Init, Scheduled
<1>2. placed = [o \in Scheduled |-> placed[o]] /\ Greedy(job, placed, order)
  BY <1>1 DEF Greedy
<1>3. job.start \in Nat /\ job.start <= now
  BY <1>1, JobsAreJobs
<1>4. Instants(job, placed, {job.start})
  BY <1>1, <1>3, GreedyBeginning
<1> QED BY <1>1, <1>2, <1>3, <1>4 DEF GreedyInv

(* What is known of a candidate: its operations in the order of its list, each *)
(* started greedily, at the decisions that must be.                          *)
Known(j, c) ==
  /\ c.order \in Seq(j.ops) /\ \A o \in j.ops : \E i \in DOMAIN c.order : c.order[i] = o
  /\ \A h, i \in DOMAIN c.order : h < i => c.slots[c.order[h]].start <= c.slots[c.order[i]].start
  /\ DOMAIN c.slots = j.ops /\ c.slots = [o \in j.ops |-> c.slots[o]]
  /\ \A o \in j.ops :
       LET s == c.slots[o]
       IN s.start \in Nat /\ IsWorkingTime(s.start) /\ s = SlotAt(s.start, j.duration[o])
  /\ Greedy(j, c.slots, c.order)
  /\ \E D : Instants(j, c.slots, D)
  /\ c.kpi = KpiOf(j, c.slots)

LEMMA CandidateKnown ==
  ASSUME SchedulerInv, CallInv, GreedyInv, caller # "ANY", phase = "done"
  PROVE  Known(job, Candidate)
<1> DEFINE c == Candidate
<1>1. c.order = order /\ c.slots = placed /\ c.kpi = Kpi
  BY DEF Candidate
<1> HIDE DEF c
<1>2. /\ Scheduled = job.ops /\ Listed /\ SlotFacts /\ Greedy(job, placed, order)
      /\ placed = [o \in job.ops |-> placed[o]] /\ \E D : Instants(job, placed, D)
  BY DEF SchedulerInv, BInv, CallInv, IInv, Partition, GreedyInv
<1>3. ASSUME NEW o \in job.ops
      PROVE  /\ placed[o].start \in Nat /\ IsWorkingTime(placed[o].start)
             /\ placed[o] = SlotAt(placed[o].start, job.duration[o])
  BY <1>2 DEF SlotFacts, Slotted
<1>4. Known(job, c)
  BY <1>1, <1>2, <1>3, KpiHere DEF Known, Listed, Scheduled
<1> QED BY <1>4 DEF c

KnownInv == \A r \in DOMAIN built : Known(job, built[r])

LEMMA KnownInductive ==
  SchedulerInv /\ CallInv /\ GreedyInv /\ KnownInv /\ [ReplanNext]_replanVars => KnownInv'
<1> SUFFICES ASSUME SchedulerInv, CallInv, GreedyInv, KnownInv, [ReplanNext]_replanVars PROVE KnownInv'
  OBVIOUS
<1>1. job' = job
  BY DEF ReplanNext, replanVars, vars, Step, Decide, Advance, Finish, Try, Continue, Dispatch, Evaluate, Build,
         Approve, Call
<1>2. CASE Build
  <2>1. PICK i \in DOMAIN Rules :
          /\ phase = "done" /\ caller = Rules[i]
          /\ built' = [r \in DOMAIN built \cup {caller} |-> IF r = caller THEN Candidate ELSE built[r]]
    BY <1>2 DEF Build
  <2>2. Known(job, Candidate)
    BY <2>1, CandidateKnown, RuleNamed DEF RuleNames
  <2>3. \A r \in DOMAIN built' : Known(job, built'[r])
    BY <2>1, <2>2 DEF KnownInv
  <2> QED BY <1>1, <2>3 DEF KnownInv
<1>3. CASE ~ Build
  <2>1. built' = built
    BY <1>3 DEF ReplanNext, replanVars, callVars, Step, Evaluate, Approve
  <2> QED BY <1>1, <2>1 DEF KnownInv
<1> QED BY <1>2, <1>3

-----------------------------------------------------------------------------
(* A greedy schedule of an approved order follows the candidate              *)

(* A call follows a candidate: what it has started is the beginning of the     *)
(* list, in the same slots, and it decides when the candidate did.           *)
Timely(c, t) ==
  /\ \A o \in pending : t <= c.slots[o].start
  /\ \A D : Instants(job, c.slots, D) => t \in D
Follows(c) ==
  /\ \A i \in DOMAIN order : i \in DOMAIN c.order /\ order[i] = c.order[i]
  /\ \A o \in Scheduled : placed[o] = c.slots[o]
  /\ phase \in {"decide", "dispatch"} => Timely(c, now)

LEMMA Following ==
  ASSUME SchedulerInv, CallInv, GreedyInv, caller # "ANY", phase \in {"decide", "dispatch"},
         NEW c, Known(job, c), Follows(c), pending # {}
  PROVE  LET n == Len(order) + 1
             q == c.order[n]
         IN /\ n \in DOMAIN c.order /\ q \in pending
            /\ FirstOf(c.order, n - 1) = Scheduled /\ FirstOf(c.order, n) = Scheduled \cup {q}
            /\ \A o \in pending : \E h \in DOMAIN c.order : c.order[h] = o /\ n <= h
            /\ \A o \in pending : c.slots[q].start <= c.slots[o].start
            /\ now <= c.slots[q].start /\ c.slots[q].start \in Nat
            /\ TakenBy(c.slots, Scheduled) = allocations
            /\ \A o : ReadyIn(job, c.slots, o, now) <=> WasReady(o)
            /\ now < c.slots[q].start => Upto(c.slots, now) = placed
            /\ Greedily(job, c.slots, c.order, n, q, c.slots[q].start)
<1> DEFINE Q == c.order
           S == c.slots
           m == Len(order)
           n == m + 1
           q == Q[n]
<1>1. /\ Listed /\ SlotFacts /\ Scheduled = job.ops \ pending /\ pending \subseteq job.ops
  BY DEF CallInv, SchedulerInv, BInv, IInv, Partition
<1>2. /\ Q \in Seq(job.ops) /\ (\A o \in job.ops : \E i \in DOMAIN Q : Q[i] = o)
      /\ (\A h, i \in DOMAIN Q : h < i => S[Q[h]].start <= S[Q[i]].start)
      /\ DOMAIN S = job.ops
      /\ \A o \in job.ops : S[o].start \in Nat /\ IsWorkingTime(S[o].start)
                            /\ S[o] = SlotAt(S[o].start, job.duration[o])
      /\ Greedy(job, S, Q)
  BY DEF Known
<1>3. /\ \A i \in DOMAIN order : i \in DOMAIN Q /\ order[i] = Q[i]
      /\ \A o \in Scheduled : placed[o] = S[o]
      /\ \A o \in pending : now <= S[o].start
  BY DEF Follows, Timely
<1> HIDE DEF Q, S
<1>4. /\ m \in Nat /\ DOMAIN order = 1 .. m
      /\ Len(Q) \in Nat /\ DOMAIN Q = 1 .. Len(Q) /\ \A i \in DOMAIN Q : Q[i] \in job.ops
  BY <1>1, <1>2 DEF Listed
<1> HIDE DEF m
<1>5. \A o : o \in Scheduled <=> \E i \in 1 .. m : Q[i] = o
  BY <1>1, <1>3, <1>4 DEF Listed
<1>6. 1 .. m \subseteq DOMAIN Q
  BY <1>3, <1>4
<1>7. n \in DOMAIN Q
  <2>1. PICK o \in pending : TRUE
    OBVIOUS
  <2>2. PICK h \in DOMAIN Q : Q[h] = o
    BY <1>1, <1>2
  <2>3. h \notin 1 .. m
    BY <1>1, <1>5, <2>2
  <2> QED BY <1>4, <2>3
<1>8. FirstOf(Q, n - 1) = Scheduled
  <2>1. {i \in DOMAIN Q : i <= n - 1} = 1 .. m
    BY <1>4, <1>6
  <2>2. FirstOf(Q, n - 1) = {Q[i] : i \in 1 .. m}
    BY <2>1 DEF FirstOf
  <2> QED BY <1>5, <2>2
<1>9. FirstOf(Q, n) = Scheduled \cup {q}
  <2>1. {i \in DOMAIN Q : i <= n} = (1 .. m) \cup {n}
    BY <1>4, <1>6, <1>7
  <2>2. FirstOf(Q, n) = {Q[i] : i \in (1 .. m) \cup {n}}
    BY <2>1 DEF FirstOf
  <2> QED BY <1>5, <2>2
<1>10. Greedily(job, S, Q, n, q, S[q].start)
  BY <1>2, <1>7 DEF Greedy
<1>11. q \in pending /\ q \in job.ops
  BY <1>1, <1>4, <1>7, <1>8, <1>10 DEF Greedily
<1>12. ASSUME NEW o \in pending
       PROVE  /\ \E h \in DOMAIN Q : Q[h] = o /\ n <= h
              /\ S[q].start <= S[o].start
  <2>1. PICK h \in DOMAIN Q : Q[h] = o
    BY <1>1, <1>2
  <2>2. h \notin 1 .. m
    BY <1>1, <1>5, <2>1
  <2>3. n <= h
    BY <1>4, <2>2
  <2>4. CASE h = n
    BY <1>2, <1>11, <2>1, <2>3, <2>4
  <2>5. CASE h # n
    <3>1. n < h
      BY <1>4, <2>3, <2>5
    <3> QED BY <1>2, <1>7, <2>1, <2>3, <3>1
  <2> QED BY <2>4, <2>5
<1>13. now <= S[q].start /\ S[q].start \in Nat
  BY <1>2, <1>3, <1>11
<1>14. TakenBy(S, Scheduled) = allocations
  <2>1. TakenBy(placed, Scheduled) = allocations
    BY <1>1 DEF SlotFacts, TakenBy
  <2> QED BY <1>3, <2>1, TakenAlike
<1>15. now \in Nat /\ \A o \in Scheduled : placed[o].start \in Nat /\ placed[o].start <= now
  BY <1>1 DEF SlotFacts, Slotted
<1>16. \A o : ReadyIn(job, S, o, now) <=> WasReady(o)
  <2>1. ASSUME NEW p \in job.ops
        PROVE  /\ (p \in DOMAIN S /\ S[p].end <= now) <=> (p \in DOMAIN placed /\ placed[p].end <= now)
               /\ (p \in DOMAIN S /\ S[p].start < now) <=> (p \in DOMAIN placed /\ placed[p].start < now)
    <3>1. CASE p \in Scheduled
      BY <1>1, <1>2, <1>3, <3>1 DEF Scheduled
    <3>2. CASE p \notin Scheduled
      <4>1. p \in pending /\ now <= S[p].start
        BY <1>1, <1>3, <3>2
      <4>2. S[p].end \in Nat /\ S[p].start < S[p].end /\ S[p].start \in Nat
        <5>1. job.duration[p] \in Nat \ {0}
          BY <1>1, SlotIsEarliest
        <5>2. PICK v \in Nat : v = S[p].start /\ IsWorkingTime(v) /\ S[p] = SlotAt(v, job.duration[p])
          BY <1>2
        <5>3. SlotAt(v, job.duration[p]).end \in Nat /\ v < SlotAt(v, job.duration[p]).end
          BY <5>1, <5>2, SlotParts
        <5> QED BY <5>2, <5>3
      <4>3. ~ (S[p].end <= now) /\ ~ (S[p].start < now)
        BY <1>15, <4>1, <4>2
      <4> QED BY <3>2, <4>3 DEF Scheduled
    <3> QED BY <3>1, <3>2
  <2>2. \A o : ReadyIn(job, S, o, now) <=> ReadyIn(job, placed, o, now)
    BY <2>1, ReadyAlike
  <2> QED BY <2>2, Here
<1>17. ASSUME now < S[q].start
       PROVE  Upto(S, now) = placed
  <2>1. \A o \in pending : ~ (S[o].start <= now)
    <3> TAKE o \in pending
    <3>1. S[o].start \in Nat /\ S[q].start <= S[o].start
      BY <1>1, <1>2, <1>12
    <3> QED BY <1>13, <1>15, <1>17, <3>1
  <2>2. \A o \in Scheduled : S[o].start <= now /\ o \in DOMAIN S
    BY <1>1, <1>2, <1>3, <1>15
  <2>3. {o \in DOMAIN S : S[o].start <= now} = Scheduled
    BY <1>1, <1>2, <2>1, <2>2
  <2>4. Upto(S, now) = [o \in Scheduled |-> S[o]]
    BY <2>3 DEF Upto
  <2>5. placed = [o \in Scheduled |-> placed[o]]
    BY DEF GreedyInv
  <2> QED BY <1>3, <2>4, <2>5
<1> HIDE DEF n, q
<1> QED BY <1>7, <1>8, <1>9, <1>10, <1>11, <1>12, <1>13, <1>14, <1>16, <1>17 DEF n, q, Q, S, m

(* The operation that starts is the next of the list.                        *)
LEMMA NextOfList ==
  ASSUME SchedulerInv, CallInv, TurnInv, GreedyInv, PlanInv, caller = "AGAIN",
         NEW c, Known(job, c), Follows(c), plan = c.ranks, TaskByTask(c),
         NEW o \in ready, Try(o), Started(o)
  PROVE  o = c.order[Len(order) + 1] /\ placed'[o] = c.slots[o]
<1> DEFINE n == Len(order) + 1
           q == c.order[n]
           t == c.slots[q].start
<1>1. /\ IInv /\ SlotFacts /\ ready \subseteq pending /\ pending \subseteq job.ops
      /\ o \in pending /\ o \in job.ops /\ o \notin Scheduled /\ Scheduled = job.ops \ pending
      /\ phase = "dispatch" /\ job \in Replanned /\ now \in Nat
  BY DEF SchedulerInv, BInv, IInv, Partition, Started, CallInv, SlotFacts
<1>2. /\ n \in DOMAIN c.order /\ q \in pending
      /\ FirstOf(c.order, n - 1) = Scheduled /\ FirstOf(c.order, n) = Scheduled \cup {q}
      /\ \A p \in pending : \E h \in DOMAIN c.order : c.order[h] = p /\ n <= h
      /\ \A p \in pending : t <= c.slots[p].start
      /\ now <= t /\ t \in Nat
      /\ TakenBy(c.slots, Scheduled) = allocations
      /\ \A p : ReadyIn(job, c.slots, p, now) <=> WasReady(p)
      /\ now < t => Upto(c.slots, now) = placed
      /\ Greedily(job, c.slots, c.order, n, q, t)
  BY <1>1, Following
<1> HIDE DEF n, q, t
<1>3. WasReady(o) /\ FitsAt(o, now, allocations)
  BY <1>1, SlotIsNow DEF Started, TurnInv
<1>4. ReadyIn(job, c.slots, o, now) /\ FitsIn(job, o, now, allocations)
  BY <1>2, <1>3, Here
<1>5. t = now
  <2> SUFFICES ASSUME now < t PROVE FALSE
    BY <1>1, <1>2
  <2>1. PICK D : Instants(job, c.slots, D)
    BY DEF Known
  <2>2. now \in D
    BY <1>1, <2>1 DEF Follows, Timely
  <2>3. t \in D
    BY <1>1, <1>2, <2>1 DEF Instants, Known, t
  <2>4. now < c.slots[o].start
    <3>1. c.slots[o].start \in Nat
      BY <1>1 DEF Known
    <3> QED BY <1>1, <1>2, <3>1
  <2>5. ~ FitsIn(job, o, now, TakenBy(c.slots, DOMAIN Upto(c.slots, now)))
    BY <1>1, <1>4, <2>1, <2>2, <2>3, <2>4 DEF Instants
  <2>6. DOMAIN Upto(c.slots, now) = Scheduled
    BY <1>2 DEF Scheduled
  <2> QED BY <1>2, <1>4, <2>5, <2>6
<1>6. /\ FitsIn(job, q, now, allocations) /\ WasReady(q)
      /\ \A p \in job.ops \ (Scheduled \cup {q}) : ReadyIn(job, c.slots, p, now) =>
           /\ job.state[p] = "RUNNING" => job.state[q] = "RUNNING" /\ ~ LongerIn(job, p, q)
           /\ job.state[q] # "RUNNING" /\ KeyOf(p) = KeyOf(q) /\ TieBreakIn(job, p, q) =>
                ~ FitsIn(job, p, now, allocations)
  BY <1>2, <1>5 DEF Greedily
<1>7. q \in ready
  BY <1>1, <1>2, <1>6, Here DEF TurnInv
<1>8. o = q
  <2> SUFFICES ASSUME o # q PROVE FALSE
    OBVIOUS
  <2>1. /\ job.state[o] = "RUNNING" => job.state[q] = "RUNNING" /\ ~ Longer(o, q)
        /\ ~ (job.state[q] # "RUNNING" /\ KeyOf(o) = KeyOf(q) /\ TieBreak(o, q))
    BY <1>1, <1>4, <1>6, Here
  <2>2. CASE Continue(o)
    <3>1. o \in Running /\ \A p \in Running \ {o} : ~ Longer(p, o)
      BY <2>2 DEF Continue
    <3>2. job.state[o] = "RUNNING" /\ job.state[q] = "RUNNING" /\ ~ Longer(o, q)
      BY <2>1, <3>1 DEF Running
    <3>3. ~ Longer(q, o)
      BY <1>7, <3>1, <3>2 DEF Running
    <3>4. ~ TieBreak(o, q) /\ ~ TieBreak(q, o)
      BY <3>2, <3>3 DEF TieBreak, Waiting
    <3>5. LotOf[o] = LotOf[q]
      <4>1. /\ job.eligible[o] \in Nat /\ job.eligible[q] \in Nat /\ o \in Ops /\ q \in Ops
            /\ UnitOf[o] \in Nat /\ UnitOf[q] \in Nat
        BY <1>1, <1>2, JobsAreJobs, SchedulerAssumption DEF SlotFacts
      <4>2. UnitOf[o] = UnitOf[q]
        BY <3>2, <3>3, <4>1 DEF Longer
      <4> QED BY <4>1, <4>2, SchedulerAssumption
    <3> QED BY <1>7, <3>4, <3>5, TotalTieBreak
  <2>3. CASE Dispatch(o) /\ InTurn(o)
    <3>1. job.state[q] # "RUNNING"
      BY <1>7, <2>3 DEF Dispatch, Running
    <3>2. ~ Preferred(q, o)
      BY <1>7, <2>3 DEF InTurn
    <3>3. /\ KeyOf(o) \in DOMAIN plan /\ KeyOf(q) \in DOMAIN plan /\ Ranked(plan)
      BY <1>1, <1>2 DEF PlanInv, Ranked, Tasks
    <3>4. plan[KeyOf(q)] <= plan[KeyOf(o)]
      <4>1. PICK h \in DOMAIN c.order : c.order[h] = o /\ n <= h
        BY <1>1, <1>2
      <4>2. h # n
        BY <4>1 DEF q
      <4>3. n < h
        <5>1. DOMAIN c.order \subseteq Nat
          BY DEF Known
        <5> QED BY <1>2, <4>1, <4>2, <5>1
      <4> QED BY <1>2, <4>1, <4>3 DEF TaskByTask, q
    <3>5. plan[KeyOf(q)] = plan[KeyOf(o)]
      <4>1. plan[KeyOf(q)] \in Nat /\ plan[KeyOf(o)] \in Nat
        BY <3>3 DEF Ranked
      <4> QED BY <3>2, <3>4, <4>1 DEF Preferred, Forecasting
    <3>6. KeyOf(q) = KeyOf(o)
      BY <3>3, <3>5 DEF Ranked
    <3>7. ~ TieBreak(q, o) /\ ~ TieBreak(o, q)
      BY <2>1, <3>1, <3>2, <3>6 DEF Preferred, Forecasting
    <3>8. LotOf[o] = LotOf[q]
      BY <3>6 DEF KeyOf
    <3> QED BY <1>7, <3>7, <3>8, TotalTieBreak
  <2> QED BY <2>2, <2>3 DEF Try
<1>9. placed'[o] = c.slots[o]
  <2>1. placed'[o] = Slot(o) /\ Slot(o).start = now
    BY DEF Started, Place
  <2>2. Slot(o) = SlotAt(now, job.duration[o])
    BY <1>1, <2>1, SlotIsEarliest
  <2>3. c.slots[o] = SlotAt(now, job.duration[o])
    <3>1. c.slots[o].start = now
      BY <1>5, <1>8 DEF t
    <3> QED BY <1>1, <3>1 DEF Known
  <2> QED BY <2>1, <2>2, <2>3
<1> QED BY <1>8, <1>9 DEF q, n

-----------------------------------------------------------------------------
(* What was approved is what is forecast                                     *)

(* The clock moves to a decision of the candidate, and does not pass the next  *)
(* operation of its list.                                                   *)
LEMMA NotPast ==
  ASSUME SchedulerInv, CallInv, TurnInv, GreedyInv, caller = "AGAIN", NEW c, Known(job, c), Follows(c),
         phase = "dispatch", ready = {}, pending # {}, Future # {}
  PROVE  Timely(c, Min(Future))
<1> DEFINE n == Len(order) + 1
           q == c.order[n]
           t == c.slots[q].start
<1>1. /\ IInv /\ SlotFacts /\ pending \subseteq job.ops /\ now \in Nat
      /\ Min(Future) \in Nat /\ now < Min(Future)
  BY ClockMoves DEF SchedulerInv, BInv, IInv, Partition, SlotFacts
<1>2. /\ q \in pending /\ FirstOf(c.order, n - 1) = Scheduled
      /\ \A o \in pending : t <= c.slots[o].start
      /\ now <= t /\ t \in Nat
      /\ TakenBy(c.slots, Scheduled) = allocations
      /\ ReadyIn(job, c.slots, q, now) <=> WasReady(q)
      /\ now < t => Upto(c.slots, now) = placed
      /\ Greedily(job, c.slots, c.order, n, q, t)
  BY Following
<1> HIDE DEF n, q, t
<1>3. now < t
  <2> SUFFICES ASSUME t = now PROVE FALSE
    BY <1>1, <1>2
  <2>1. WasReady(q) /\ FitsAt(q, now, allocations)
    BY <1>2, Here DEF Greedily
  <2> QED BY <1>2, <2>1 DEF TurnInv
<1>4. NextIn(job, Upto(c.slots, now), now) = Min(Future)
  BY <1>1, <1>2, <1>3, EventsHere
<1>5. ASSUME NEW D, Instants(job, c.slots, D)
      PROVE  Min(Future) \in D /\ Min(Future) <= t
  <2>1. now \in D
    BY <1>5 DEF Follows, Timely
  <2>2. t \in D
    BY <1>1, <1>2, <1>5 DEF Instants, Known, t
  <2> QED BY <1>3, <1>4, <1>5, <2>1, <2>2 DEF Instants
<1>6. \A o \in pending : Min(Future) <= c.slots[o].start
  <2> TAKE o \in pending
  <2>1. PICK D : Instants(job, c.slots, D)
    BY DEF Known
  <2>2. Min(Future) <= t
    BY <1>5, <2>1
  <2>3. c.slots[o].start \in Nat
    BY <1>1 DEF Known
  <2> QED BY <1>1, <1>2, <2>2, <2>3
<1> QED BY <1>5, <1>6 DEF Timely

LEMMA FollowsStepping ==
  ASSUME SchedulerInv, SchedulerInv', CallInv, TurnInv, GreedyInv, PlanInv, caller = "AGAIN",
         NEW c, Known(job, c), Follows(c), plan = c.ranks, TaskByTask(c), Step
  PROVE  Follows(c)'
<1>1. IInv /\ SlotFacts /\ Listed /\ now \in Nat
  BY DEF SchedulerInv, BInv, CallInv, SlotFacts
<1>2. ASSUME UNCHANGED <<job, order, placed, pending>>,
             phase' \in {"decide", "dispatch"} => Timely(c, now')
      PROVE  Follows(c)'
  <2>1. \A t : Timely(c, t)' <=> Timely(c, t')
    BY <1>2 DEF Timely, Instants
  <2> QED BY <1>2, <2>1 DEF Follows, Scheduled
<1>3. CASE (Decide \/ Finish) /\ UNCHANGED order
  <2>1. UNCHANGED <<job, order, placed, pending, now>> /\ (phase' \in {"decide", "dispatch"} => phase = "decide")
    BY <1>3 DEF Decide, Finish
  <2> QED BY <1>2, <2>1 DEF Follows
<1>4. CASE Advance /\ UNCHANGED order
  <2>1. UNCHANGED <<job, order, placed, pending>> /\ phase = "dispatch" /\ ready = {} /\ pending # {}
        /\ (phase' \in {"decide", "dispatch"} => now' = Min(Future) /\ Future # {})
    BY <1>4 DEF Advance
  <2> QED BY <1>2, <2>1, NotPast
<1>5. ASSUME NEW q \in ready, Try(q)
      PROVE  Follows(c)'
  <2>1. CASE Started(q) /\ order' = Append(order, q)
    <3>1. q = c.order[Len(order) + 1] /\ placed'[q] = c.slots[q]
      BY <1>5, <2>1, NextOfList
    <3>2. /\ q \in job.ops /\ q \notin Scheduled /\ Scheduled' = Scheduled \cup {q}
          /\ \A p \in Scheduled : placed'[p] = placed[p]
          /\ pending' = pending \ {q} /\ now' = now /\ phase = "dispatch" /\ pending # {} /\ job' = job
      BY <2>1 DEF Started, Place, Scheduled, SchedulerInv, IInv, Partition
    <3>3. Len(order) + 1 \in DOMAIN c.order
      BY <3>2, Following
    <3>4. DOMAIN order' = DOMAIN order \cup {Len(order) + 1} /\ order'[Len(order) + 1] = q
          /\ \A i \in DOMAIN order : order'[i] = order[i]
      BY <1>1, <2>1, <3>2, Appended DEF Listed
    <3>5. \A i \in DOMAIN order' : i \in DOMAIN c.order /\ order'[i] = c.order[i]
      BY <3>1, <3>3, <3>4 DEF Follows
    <3>6. \A p \in Scheduled' : placed'[p] = c.slots[p]
      BY <3>1, <3>2 DEF Follows
    <3>7. Timely(c, now)'
      <4>1. Timely(c, now)
        BY <3>2 DEF Follows
      <4> QED BY <3>2, <4>1 DEF Timely, Instants
    <3> QED BY <3>5, <3>6, <3>7 DEF Follows
  <2>2. CASE Passed(q) /\ order' = order
    <3>1. UNCHANGED <<job, order, placed, pending, now>> /\ phase = "dispatch"
      BY <2>2 DEF Passed
    <3> QED BY <1>2, <3>1 DEF Follows
  <2> QED BY <1>1, <1>5, <2>1, <2>2, Turning
<1> QED BY <1>3, <1>4, <1>5 DEF Step

FollowInv ==
  \A r \in DOMAIN built :
    caller = "AGAIN" /\ plan = built[r].ranks /\ TaskByTask(built[r]) => Follows(built[r])

LEMMA FollowInductive ==
  SchedulerInv /\ CallInv /\ TurnInv /\ GreedyInv /\ PlanInv /\ KnownInv /\ FollowInv /\ [ReplanNext]_replanVars
    => FollowInv'
<1> SUFFICES ASSUME SchedulerInv, CallInv, TurnInv, GreedyInv, PlanInv, KnownInv, FollowInv,
                    [ReplanNext]_replanVars
             PROVE  FollowInv'
  OBVIOUS
<1>1. SchedulerInv'
  BY ReplanInductive
<1>2. CASE Step
  <2>1. UNCHANGED <<caller, plan, built>>
    BY <1>2 DEF Step, callVars
  <2>2. ASSUME NEW r \in DOMAIN built, caller = "AGAIN", plan = built[r].ranks, TaskByTask(built[r])
        PROVE  Follows(built[r])'
    <3>1. Known(job, built[r]) /\ Follows(built[r])
      BY <2>2 DEF KnownInv, FollowInv
    <3>2. PICK c : c = built[r]
      OBVIOUS
    <3>3. Follows(c)'
      BY <1>1, <1>2, <2>2, <3>1, <3>2, FollowsStepping
    <3> QED BY <2>1, <3>2, <3>3 DEF Follows
  <2>3. \A r \in DOMAIN built : TaskByTask(built[r])' <=> TaskByTask(built[r])
    BY <2>1 DEF TaskByTask
  <2> QED BY <2>1, <2>2, <2>3 DEF FollowInv
<1>3. CASE Evaluate \/ Build
  <2>1. caller' # "AGAIN"
    BY <1>3, RuleNamed DEF Evaluate, Build, Call, RuleNames, Rules
  <2> QED BY <2>1 DEF FollowInv
<1>4. ASSUME NEW a \in DOMAIN built, Approve(a)
      PROVE  FollowInv'
  <2>1. /\ built' = built /\ Scheduled' = {} /\ order' = <<>> /\ job' = job /\ pending' = job.ops
        /\ now' = job.start
    BY <1>4 DEF Approve, Call, Scheduled
  <2>2. ASSUME NEW r \in DOMAIN built
        PROVE  Follows(built[r])'
    <3>1. Known(job, built[r])
      BY DEF KnownInv
    <3>2. \A o \in job.ops : job.start <= built[r].slots[o].start
      <4> TAKE o \in job.ops
      <4>1. PICK i \in DOMAIN built[r].order : built[r].order[i] = o
        BY <3>1 DEF Known
      <4> QED BY <3>1, <4>1 DEF Known, Greedy, Greedily
    <3>3. \A D : Instants(job, built[r].slots, D) => job.start \in D
      BY DEF Instants
    <3>4. Timely(built[r], now)'
      BY <2>1, <3>2, <3>3 DEF Timely, Instants
    <3> QED BY <2>1, <3>4 DEF Follows
  <2> QED BY <2>1, <2>2 DEF FollowInv
<1>5. CASE UNCHANGED replanVars
  <2>1. UNCHANGED <<caller, plan, built, order, placed, phase, pending, now, job>>
    BY <1>5 DEF replanVars, callVars, vars
  <2>2. \A c : (Timely(c, now)' <=> Timely(c, now)) /\ (TaskByTask(c)' <=> TaskByTask(c))
    BY <2>1 DEF Timely, Instants, TaskByTask
  <2>3. \A c : Follows(c)' <=> Follows(c)
    BY <2>1, <2>2 DEF Follows, Scheduled
  <2> QED BY <2>1, <2>2, <2>3 DEF FollowInv
<1> QED BY <1>2, <1>3, <1>4, <1>5 DEF ReplanNext

(* At its end the call has started the whole list.                           *)
LEMMA FollowMeans ==
  ASSUME SchedulerInv, CallInv, GreedyInv, KnownInv, FollowInv
  PROVE  ApprovedOrderKept
<1> SUFFICES ASSUME NEW r \in DOMAIN built, caller = "AGAIN", plan = built[r].ranks, TaskByTask(built[r])
             PROVE  /\ \A i \in DOMAIN order : i \in DOMAIN built[r].order /\ order[i] = built[r].order[i]
                    /\ \A o \in Scheduled : placed[o] = built[r].slots[o]
                    /\ phase = "done" => order = built[r].order /\ Kpi = built[r].kpi
  BY DEF ApprovedOrderKept
<1> DEFINE c == built[r]
<1>1. Known(job, c) /\ Follows(c)
  BY DEF KnownInv, FollowInv
<1> HIDE DEF c
<1>2. ASSUME phase = "done"
      PROVE  order = c.order /\ Kpi = c.kpi
  <2>1. Listed /\ Scheduled = job.ops /\ placed = [o \in Scheduled |-> placed[o]]
    BY <1>2 DEF CallInv, SchedulerInv, IInv, Partition, GreedyInv
  <2>2. placed = c.slots
    BY <1>1, <2>1 DEF Follows, Known
  <2>3. order \in Seq(job.ops) /\ c.order \in Seq(job.ops)
    BY <1>1, <2>1 DEF Listed, Known
  <2> DEFINE m == Len(order)
             k == Len(c.order)
  <2>4. m \in Nat /\ k \in Nat /\ DOMAIN order = 1 .. m /\ DOMAIN c.order = 1 .. k
    BY <2>3
  <2> HIDE DEF m, k
  <2>5. m <= k
    BY <1>1, <2>4 DEF Follows
  <2>6. ~ (m < k)
    <3> SUFFICES ASSUME m < k PROVE FALSE
      OBVIOUS
    <3> DEFINE q == c.order[m + 1]
    <3>1. m + 1 \in DOMAIN c.order /\ q \in job.ops
      BY <2>3, <2>4
    <3>2. PICK i \in DOMAIN order : order[i] = q
      BY <2>1, <3>1 DEF Listed
    <3>3. i \in DOMAIN c.order /\ c.order[i] = q /\ i <= (m + 1) - 1
      BY <1>1, <2>4, <3>2 DEF Follows
    <3>4. q \in FirstOf(c.order, (m + 1) - 1)
      BY <3>3 DEF FirstOf
    <3>5. q \notin FirstOf(c.order, (m + 1) - 1)
      BY <1>1, <3>1 DEF Known, Greedy, Greedily
    <3> QED BY <3>4, <3>5
  <2>7. m = k
    BY <2>4, <2>5, <2>6
  <2>8. order = c.order
    BY <1>1, <2>3, <2>4, <2>7 DEF Follows
  <2> QED BY <1>1, <2>2, <2>8, KpiHere DEF Known
<1> QED BY <1>1, <1>2 DEF Follows, c

LEMMA FollowInitially == ReplanInit => KnownInv /\ FollowInv
BY DEF ReplanInit, KnownInv, FollowInv

(* ApprovalIsReplayed: in every job, whatever the calendar and the resources,   *)
(* the live forecast after the approval of a candidate that dispatches its    *)
(* tasks one after another is the schedule of that candidate.                *)
THEOREM ApprovalIsReplayed == ReplanSpec => []ApprovedOrderKept
BY ReplanInitially, ReplanInductive, CallInitially, CallInductive, TurnInitially, TurnInductive,
   PlanInitially, PlanInductive, GreedyInitially, GreedyInductive, FollowInitially, KnownInductive, FollowInductive, FollowMeans,
   PTL DEF ReplanSpec

-----------------------------------------------------------------------------
(* Other answers: what a buffer can wait for, and tasks of one operation     *)

(* Enough operations of the step before are in the job to release the buffer.  *)
BuffersAttainable ==
  \A o \in job.ops : job.buffer[o] # None =>
    EarlierPlaces(o) # {} /\ job.buffer[o] <= Cardinality(Upstream(o))
Calculated == BuffersAttainable => ForecastCalculated

LEMMA EarlierUpstream ==
  ASSUME SlotFacts, NEW o \in job.ops, EarlierPlaces(o) # {}
  PROVE  \A p \in Upstream(o) : p \in job.ops /\ SeqOf[p] < SeqOf[o]
<1> DEFINE E == EarlierPlaces(o)
<1>1. IsFiniteSet(job.ops) /\ (\A p \in job.ops : SeqOf[p] \in Nat)
  BY SchedulerAssumption, JobsAreJobs, FS_Subset DEF SlotFacts
<1>2. E \in SUBSET Nat /\ E # {} /\ \A s \in E : s <= SeqOf[o]
  BY <1>1 DEF EarlierPlaces
<1>3. \E s \in E : \A t \in E : t <= s
  <2> HIDE DEF E
  <2>1. SeqOf[o] \in Nat
    BY <1>1
  <2> QED BY <1>2, <2>1, GreatestNatural
<1>4. Max(E) \in E
  BY <1>2, <1>3 DEF Max
<1>5. \A s \in E : s < SeqOf[o]
  BY DEF EarlierPlaces
<1> HIDE DEF E
<1> QED BY <1>4, <1>5 DEF Upstream, E

(* The first step that has work left is due when all that is scheduled has    *)
(* ended, and then its slot is an event to come.                            *)
LEMMA SomethingComes ==
  ASSUME IInv, SlotFacts, BusyInv, BuffersAttainable, phase = "dispatch", ready = {}, pending # {}
  PROVE  Future # {}
<1> SUFFICES ASSUME Future = {} PROVE FALSE
  OBVIOUS
<1>1. /\ now \in Nat /\ Scheduled = job.ops \ pending /\ pending \subseteq job.ops
      /\ \A o \in job.ops : o \in Ops /\ SeqOf[o] \in Nat
  BY SchedulerAssumption, JobsAreJobs DEF SlotFacts, IInv, Partition
<1>2. \A e \in Events : e <= now
  BY <1>1, EventsAreTimes DEF Future
<1>3. PICK o \in pending : \A p \in pending : SeqOf[o] <= SeqOf[p]
  <2> DEFINE S == {SeqOf[p] : p \in pending}
  <2>1. S \in SUBSET Nat /\ S # {}
    BY <1>1
  <2>2. \E s \in S : \A t \in S : s <= t
    <3> HIDE DEF S
    <3> QED BY <2>1, LeastNatural
  <2> QED BY <2>2
<1>4. \A p \in job.ops : SeqOf[p] < SeqOf[o] => p \in Scheduled /\ placed[p].end <= now
  <2> TAKE p \in job.ops
  <2> HAVE SeqOf[p] < SeqOf[o]
  <2>1. p \in Scheduled
    BY <1>1, <1>3
  <2>2. placed[p].end \in Events
    BY <2>1 DEF Events
  <2> QED BY <1>2, <2>1, <2>2
<1>5. job.release[o] <= now /\ job.eligible[o] <= now
  BY <1>2, <1>3 DEF Events
<1>6. job.buffer[o] # None => Cardinality(CompletedUpstream(o, now)) >= job.buffer[o]
  <2> HAVE job.buffer[o] # None
  <2>1. EarlierPlaces(o) # {} /\ job.buffer[o] <= Cardinality(Upstream(o))
    BY <1>1, <1>3 DEF BuffersAttainable
  <2>2. \A p \in Upstream(o) : p \in Scheduled /\ placed[p].end <= now
    BY <1>1, <1>3, <1>4, <2>1, EarlierUpstream
  <2>3. CompletedUpstream(o, now) = Upstream(o)
    BY <2>2 DEF CompletedUpstream
  <2>4. Cardinality(Upstream(o)) \in Nat /\ job.buffer[o] \in Nat
    <3>1. IsFiniteSet(job.ops)
      BY SchedulerAssumption, JobsAreJobs, FS_Subset DEF SlotFacts
    <3>2. Upstream(o) \in SUBSET job.ops
      BY DEF Upstream
    <3>3. job.buffer[o] \in Nat
      BY <1>1, <1>3, JobsAreJobs DEF SlotFacts
    <3> QED BY <3>1, <3>2, <3>3, FS_Subset, FS_CardinalityType
  <2> QED BY <2>1, <2>3, <2>4
<1>7. DueAt(o, now)
  BY <1>4, <1>5, <1>6 DEF DueAt, Before
<1>8. Slot(o).start \in Events
  BY <1>3, <1>7, DueIsReady DEF Events
<1>9. FitsAt(o, now, allocations)
  BY <1>1, <1>2, <1>3, <1>8, SlotIsNow
<1> QED BY <1>3, <1>7, <1>9 DEF BusyInv, Tried

LEMMA CalculatedInductive ==
  IInv /\ SlotFacts /\ BusyInv /\ Calculated /\ [Next]_vars => Calculated'
<1> SUFFICES ASSUME IInv, SlotFacts, BusyInv, Calculated, [Next]_vars, BuffersAttainable'
             PROVE  ForecastCalculated'
  BY DEF Calculated
<1>1. job' = job
  BY DEF Next, vars, Decide, Advance, Finish, Continue, Dispatch
<1>2. BuffersAttainable
  BY <1>1 DEF BuffersAttainable, EarlierPlaces, Upstream
<1>3. phase \notin {"refused", "stuck"}
  BY <1>2 DEF Calculated, ForecastCalculated
<1>4. CASE Decide
  <2>1. \A o \in pending : ~ Misplaced(o)
    BY <1>2 DEF IInv, Partition, BuffersAttainable, Misplaced
  <2> QED BY <1>4, <2>1 DEF Decide, ForecastCalculated
<1>5. CASE Advance
  BY <1>2, <1>5, SomethingComes DEF Advance, ForecastCalculated
<1>6. CASE ~ Decide /\ ~ Advance
  <2>1. phase' \in {phase, "stopped", "done"}
    BY <1>6 DEF Next, vars, Finish, Continue, Dispatch
  <2> QED BY <1>3, <2>1 DEF ForecastCalculated
<1> QED BY <1>4, <1>5, <1>6

(* CalculatedIfAttainable: when the job holds enough operations to release     *)
(* every buffer, the forecast is calculated, unless an operation that is      *)
(* running cannot go on: it is not refused, nor does the clock ever have no    *)
(* next event.                                                              *)
THEOREM CalculatedIfAttainable == Spec => [](BuffersAttainable => ForecastCalculated)
<1>1. Init => Calculated
  BY DEF Init, Calculated, ForecastCalculated
<1>2. Calculated => (BuffersAttainable => ForecastCalculated)
  BY DEF Calculated
<1> QED BY <1>1, <1>2, Initially, Inductive, SlotsInitially, SlotsInductive, BusyInitially, BusyInductive,
           CalculatedInductive, PTL DEF Spec

(* Every task of a LOT of one unit is one operation.                          *)
OneEach == \A o, p \in job.ops : KeyOf(o) = KeyOf(p) => o = p

LEMMA OneEachInTurn ==
  ASSUME SchedulerInv, CallInv, GreedyInv, caller # "ANY", phase = "done", Ranked(plan), OneEach
  PROVE  TaskByTask(Candidate)
<1>1. /\ \A k, l \in Tasks : Ranks[k] < Ranks[l] => FirstDispatch(k) < FirstDispatch(l)
      /\ \A k \in Tasks : Ranks[k] \in Nat
  <2>1. Ranks \in [Tasks -> RankSlots] /\ RankSlots \subseteq Nat \ {0}
    BY RanksMean
  <2> QED BY <2>1, RanksMean
<1>2. Listed /\ Greedy(job, placed, order)
  BY DEF CallInv, GreedyInv
<1>3. DOMAIN order \subseteq Nat /\ \A i \in DOMAIN order : order[i] \in job.ops
  BY <1>2 DEF Listed
<1>4. ASSUME NEW i \in DOMAIN order, NEW j \in DOMAIN order, i < j
      PROVE  Ranks[KeyOf(order[i])] <= Ranks[KeyOf(order[j])]
  <2> DEFINE k == KeyOf(order[i])
             l == KeyOf(order[j])
  <2>1. k \in Tasks /\ l \in Tasks
    BY <1>3 DEF Tasks
  <2>2. FirstDispatch(k) <= i /\ FirstDispatch(k) \in Nat
    BY <2>1, FirstOfTask
  <2>3. FirstDispatch(l) \in DOMAIN order /\ KeyOf(order[FirstDispatch(l)]) = l /\ FirstDispatch(l) <= j
    BY <2>1, FirstOfTask
  <2>4. order[FirstDispatch(l)] = order[j]
    BY <1>3, <2>3 DEF OneEach
  <2>5. ~ (FirstDispatch(l) <= j - 1)
    <3>1. order[j] \notin FirstOf(order, j - 1)
      BY <1>2 DEF Greedy, Greedily
    <3> QED BY <2>3, <2>4, <3>1 DEF FirstOf
  <2> HIDE DEF k, l
  <2>6. FirstDispatch(k) < FirstDispatch(l)
    BY <1>3, <1>4, <2>2, <2>3, <2>5
  <2>7. ~ (Ranks[l] < Ranks[k])
    BY <1>1, <1>3, <2>1, <2>2, <2>3, <2>6
  <2> QED BY <1>1, <2>1, <2>7 DEF k, l
<1>5. Candidate.order = order /\ Candidate.ranks = Ranks
  BY DEF Candidate
<1> QED BY <1>4, <1>5 DEF TaskByTask

OneEachInv == OneEach => \A r \in DOMAIN built : TaskByTask(built[r])

LEMMA OneEachInductive ==
  SchedulerInv /\ CallInv /\ GreedyInv /\ PlanInv /\ OneEachInv /\ [ReplanNext]_replanVars => OneEachInv'
<1> SUFFICES ASSUME SchedulerInv, CallInv, GreedyInv, PlanInv, OneEachInv, [ReplanNext]_replanVars, OneEach'
             PROVE  \A r \in DOMAIN built' : TaskByTask(built'[r])
  BY DEF OneEachInv, TaskByTask
<1>1. job' = job
  BY DEF ReplanNext, replanVars, vars, Step, Decide, Advance, Finish, Try, Continue, Dispatch, Evaluate, Build,
         Approve, Call
<1>2. OneEach
  BY <1>1 DEF OneEach
<1>3. \A r \in DOMAIN built : TaskByTask(built[r])
  BY <1>2 DEF OneEachInv
<1>4. CASE Build
  <2>1. PICK i \in DOMAIN Rules :
          /\ phase = "done" /\ caller = Rules[i]
          /\ built' = [r \in DOMAIN built \cup {caller} |-> IF r = caller THEN Candidate ELSE built[r]]
    BY <1>4 DEF Build
  <2>2. caller # "ANY" /\ Ranked(plan)
    BY <2>1, RuleNamed DEF RuleNames, PlanInv
  <2>3. TaskByTask(Candidate)
    BY <1>2, <2>1, <2>2, OneEachInTurn
  <2> QED BY <1>3, <2>1, <2>3
<1>5. CASE ~ Build
  <2>1. built' = built
    BY <1>5 DEF ReplanNext, replanVars, callVars, Step, Evaluate, Approve
  <2> QED BY <1>3, <2>1
<1> QED BY <1>4, <1>5

Replayed ==
  \A r \in DOMAIN built :
    caller = "AGAIN" /\ plan = built[r].ranks =>
      /\ \A i \in DOMAIN order : i \in DOMAIN built[r].order /\ order[i] = built[r].order[i]
      /\ \A o \in Scheduled : placed[o] = built[r].slots[o]
      /\ phase = "done" => order = built[r].order /\ Kpi = built[r].kpi

(* SinglesAreReplayed: where every task is one operation, as in LOTs of one    *)
(* unit, so is every candidate that may be approved.                        *)
THEOREM SinglesAreReplayed == ReplanSpec => [](OneEach => Replayed)
<1>1. ReplanInit => OneEachInv
  BY DEF ReplanInit, OneEachInv
<1>2. OneEachInv /\ ApprovedOrderKept => (OneEach => Replayed)
  BY DEF OneEachInv, ApprovedOrderKept, Replayed
<1> QED BY <1>1, <1>2, ReplanInitially, ReplanInductive, CallInitially, CallInductive, TurnInitially,
           TurnInductive, PlanInitially, PlanInductive, GreedyInitially, GreedyInductive, OneEachInductive, ApprovalIsReplayed,
           PTL DEF ReplanSpec
=============================================================================
