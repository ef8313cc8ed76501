CONSTANTS
  TicksPerMs = 3
  Word = 8
  MaxTime = 20
  MaxAway = 20
SPECIFICATION TimeSpec
INVARIANT DeadlineKept
CHECK_DEADLOCK FALSE
