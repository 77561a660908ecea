---------------------------- MODULE WorkCalendar ----------------------------
(***************************************************************************)
(* core/calendar_engine.py: a weekly calendar with one working interval per  *)
(* active day.  Instants are natural numbers; day 0 is a Monday.            *)
(***************************************************************************)
EXTENDS Integers, Sequences

CONSTANTS
  DayLength,         \* instants in a day
  WorkStart,         \* work_start and work_end, within a day
  WorkEnd,
  ActiveWeekdays     \* 0 is Monday

ASSUME CalendarAssumption ==
  /\ DayLength \in Nat /\ WorkStart \in Nat /\ WorkEnd \in Nat
  /\ WorkStart < WorkEnd /\ WorkEnd < DayLength
  /\ ActiveWeekdays # {} /\ ActiveWeekdays \subseteq 0 .. 6

Day(t) == t \div DayLength
Active(d) == d % 7 \in ActiveWeekdays
Opening(d) == d * DayLength + WorkStart
Closing(d) == d * DayLength + WorkEnd

IsWorkingTime(t) ==
  Active(Day(t)) /\ Opening(Day(t)) <= t /\ t < Closing(Day(t))

(* The instant itself, or the next opening.                                 *)
NextOpening(t) ==
  LET openings == {Opening(d) : d \in {d \in Day(t) .. Day(t) + 7 : Active(d)}}
  IN CHOOSE o \in openings : t < o /\ \A p \in openings : t < p => o <= p
NextWorkStart(t) == IF IsWorkingTime(t) THEN t ELSE NextOpening(t)

(* The part of some work that is done before the day closes.                *)
Segment(t, minutes) ==
  [start |-> t,
   end   |-> IF t + minutes < Closing(Day(t)) THEN t + minutes ELSE Closing(Day(t))]

(* Work of some minutes from an instant on, split at the closing times.     *)
WorkingSegments(start, minutes) ==
  LET from[w \in Nat \X Nat] ==
        LET first == Segment(w[1], w[2])
            rest == w[2] - (first.end - first.start)
        IN <<first>> \o IF rest = 0 THEN <<>> ELSE from[<<NextWorkStart(first.end), rest>>]
  IN from[<<NextWorkStart(start), minutes>>]
=============================================================================
