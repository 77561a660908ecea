\* Two administrators on the same LOT and gate, while work is reported and the
\* demo database is initialised, reset, and left half-built.
SPECIFICATION DemoSpec
CONSTANTS
  s1 = s1
  s2 = s2
  Sessions = {s1, s2}
  o1 = o1
  Ops = {o1}
  Named = {"release_at", "due_at", "completed_at"}
  Values = {0, 1}
  None = None
  Seeded = 0
VIEW Unanswered
SYMMETRY AnySession
ACTION_CONSTRAINTS OneMoveAgain Between
INVARIANTS ReleaseCopied ServedComplete
PROPERTIES PatchesApply ReleaseFrozen WorkKept
