\* Two teams on two challenges whose limits are lowered, before and after the end.
SPECIFICATION SubmissionsSpec
CONSTANTS
  Participations = {p1, p2}
  Challenges = {c1, c2}
  StaticFlag = StaticFlag
  Answers <- TeamFlags
  Requests = {r1, r2}
  Rows <- TightenedRows
  FirstRows <- AllPublished
  AutoAccept = FALSE
  PracticeEnabled = TRUE
  StartAt = 0
  EndAt = 1
  MaxTime = 1
  MaxCalls = 2
  MaxAdjustments = 1
  MaxReviewed = 0
  MaxLag = 1
  RepeatThreshold = 2
  FrequencyThreshold = 9
  FrequencyWindow = 1
SYMMETRY SubmissionSymmetry
CHECK_DEADLOCK FALSE
INVARIANTS
  TypeOK
  FactsReplayable
  FactsAreCounted
  RequestsAreIdempotent
PROPERTIES
  LimitHolds
  ImplementsScoreFacts
