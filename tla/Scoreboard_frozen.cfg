\* A board built around the freeze.
SPECIFICATION ScoreboardSpec
CONSTANTS
  Participations = {p1, p2}
  Challenges = {c1}
  EndAt = 2
  MaxTime = 2
  MaxLag = 0
  MaxFacts = 2
  Readers = {a}
  Views = {"public", "internal"}
  FreezeAt = 1
SYMMETRY ScoreboardSymmetry
CHECK_DEADLOCK FALSE
INVARIANT
  FrozenShowsNothingLater
