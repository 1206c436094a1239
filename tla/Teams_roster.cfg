SPECIFICATION TeamsSpec
CONSTANTS
  Users = {u1, u2, u3}
  TeamIds = {t1, t2}
  Contests = {c1}
  NoUser = NoUser
  MinSize <- Alone
  MaxSize <- Pairs
  MaxInvitation = 2
  MaxCalls = 1
SYMMETRY TeamSymmetry
INVARIANTS
  TeamsTypeOK
  RosterHolds
  TeamsAreSound
PROPERTIES
  OldNewsDecidesNothing
