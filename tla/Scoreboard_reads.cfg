\* Two teams race for one challenge around the freeze and the end.
SPECIFICATION ScoreboardSpec
CONSTANTS
  Participations = {p1, p2}
  Challenges = {c1}
  EndAt = 2
  MaxTime = 2
  MaxLag = 1
  MaxFacts = 2
  Readers = {a, b}
  Views = {"public"}
  FreezeAt = 1
SYMMETRY ScoreboardSymmetry
CHECK_DEADLOCK FALSE
INVARIANTS
  ScoreboardTypeOK
  SnapshotsAreExact
  PublicReadsAreFresh
  ArchivedReadsAreComplete
