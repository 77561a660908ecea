\* Two managers approve while one LOT is worked on.
SPECIFICATION Spec
CONSTANTS
  s1 = s1
  s2 = s2
  Sessions = {s1, s2}
  u1 = u1
  u2 = u2
  Units = {u1}
  LotOf <- OwnLot
  Rules = {"EDD"}
  Candidates = {"EDD"}
  MaxPlans = 3
  MaxTime = 0
  None = None
SYMMETRY AnySession
VIEW Unread
INVARIANTS TypeOK Lineage RankedFromParent
PROPERTIES HistoryKept NoWayBack LinearHistory
