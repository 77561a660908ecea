\* A final test that fails after a replan was approved.
SPECIFICATION Spec
CONSTANTS
  s1 = s1
  s2 = s2
  Sessions = {s1}
  u1 = u1
  u2 = u2
  Units = {u1}
  LotOf <- OwnLot
  Rules = {"EDD"}
  Candidates = {"EDD"}
  MaxPlans = 3
  MaxTime = 1
  None = None
INVARIANT OpenWorkPlanned
