\* Three submissions to one challenge whose flag policy is revised between them.
SPECIFICATION SubmissionsSpec
CONSTANTS
  Participations = {p1, p2}
  Challenges = {c1}
  StaticFlag = StaticFlag
  Answers <- Entered
  Requests = {r1, r2, r3}
  Rows <- SharedRows
  FirstRows <- AllPublished
  AutoAccept = TRUE
  PracticeEnabled = FALSE
  StartAt = 0
  EndAt = 2
  MaxTime = 1
  MaxCalls = 1
  MaxAdjustments = 0
  MaxReviewed = 1
  MaxLag = 0
  RepeatThreshold = 2
  FrequencyThreshold = 2
  FrequencyWindow = 1
SYMMETRY SubmissionSymmetry
CHECK_DEADLOCK FALSE
INVARIANT
  CluesMatchSubmissions
PROPERTY
  ReviewedCluesStay
