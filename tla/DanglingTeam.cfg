SPECIFICATION TrackedSpec
CONSTANTS
  Teams = {t1}
  Users = {u1, u2}
  Requests = {h1}
  MaxCreated = 1
  MaxDeletions = 1
  MaxLost = 0
  Nobody = Nobody
  NoTeam = NoTeam
SYMMETRY Symmetry
INVARIANT HomeExists
CHECK_DEADLOCK FALSE
