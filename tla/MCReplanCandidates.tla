------------------------- MODULE MCReplanCandidates -------------------------
(* The jobs of MCEventScheduler, in any order of dispatch, and jobs of two    *)
(* LOTs that are replanned: one unit or two that are assembled and tested,    *)
(* and two units of the other LOT, of which one takes longer.  In some jobs   *)
(* the first LOT is also packed, and a unit of it has failed its test: its    *)
(* rework is at the place of the others' packing, its retest behind it.       *)
EXTENDS ReplanCandidates, MCEventScheduler

CONSTANTS d, e, p1, p2, rework, retest, repack

Repaired == {rework, retest, repack}
Lots2 == [o \in Ops |-> IF o \in {p1, p2} \cup Repaired THEN 1 ELSE Lot[o]]
Units ==
  [o \in Ops |-> IF o = e THEN 4 ELSE IF o = d THEN 5 ELSE IF o \in Repaired THEN 6
                 ELSE IF o = p1 THEN 1 ELSE IF o = p2 THEN 2 ELSE Unit[o]]
Steps ==
  [o \in Ops |-> IF o \in {b1, b2, retest} THEN 2 ELSE IF o \in {p1, p2, repack} THEN 3 ELSE 1]
Places ==
  [o \in Ops |-> IF o = rework THEN 3 ELSE IF o = retest THEN 4 ELSE IF o = repack THEN 5
                 ELSE Steps[o]]
Requirements == [o \in Ops |-> IF o = retest THEN Requirement[b1] ELSE Requirement[o]]

Released == <<1, 0>>
DueDates == <<20, 24>>
PendingGates == {[lot |-> 1, step |-> 2, at |-> 10], [lot |-> 2, step |-> 1, at |-> 18]}

RankOf(w, x, y, z) == <<1, 1>> :> w @@ <<1, 2>> :> x @@ <<1, 3>> :> y @@ <<2, 1>> :> z
Approved == {RankOf(1, 2, 4, 3), RankOf(2, 4, 5, 1), RankOf(1, 3, 4, 2)}

(* A long operation of the other LOT may be under way.                      *)
TwoLots ==
  {[Job(ops, 1, assembly, test, late, running, None) EXCEPT !.duration[d] = 3] :
     ops \in {{a1, b1, d, e}, {a1, a2, b1, b2, d, e}},
     assembly \in {1, 2}, test \in {1}, late \in {0, 4}, running \in {{}, {d}}}

(* Packing waits for k tests, or for none; the rework may be late.            *)
Packed(j, k, late) ==
  [j EXCEPT !.buffer = [o \in Ops |-> IF Steps[o] = 3 THEN k ELSE None],
            !.eligible[rework] = late]
Reworked ==
  {Packed(Job({b1, b2, p1, p2, rework, d}, 1, 1, 3, 0, {}, None), 2, late) : late \in {0, 7}}
    \cup {Packed(Job({b1, p1, retest, repack, d, e}, 1, 1, test, 0, running, None), k, 0) :
            test \in {1, 2}, running \in {{}, {d}}, k \in {None, 1}}

OneLot == {[j EXCEPT !.ops = @ \ ({d, e, p1, p2} \cup Repaired)] : j \in WholeLots}
ReplannedJobs == TwoLots \cup Reworked
EveryJob == ReplannedJobs \cup OneLot
=============================================================================
