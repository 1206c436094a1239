\* Two addresses and two tokens, two requests under way together.
SPECIFICATION AccountsSpec
CONSTANTS
  Emails = {e1, e2}
  TokenIds = {k1, k2}
  MaxPassword = 2
  MaxVersion = 3
  MaxRequests = 2
SYMMETRY AccountSymmetry
INVARIANTS
  AccountsTypeOK
  ProofsAreCurrent
PROPERTIES
  EndedSessionsStayEnded
\* The bound on versions stops a banned account.
CHECK_DEADLOCK FALSE
