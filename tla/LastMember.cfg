SPECIFICATION TrackedSpec
CONSTANTS
  Teams = {t1}
  Users = {u1, u2}
  Requests = {h1, h2}
  MaxCreated = 1
  MaxDeletions = 0
  MaxLost = 0
  Nobody = Nobody
  NoTeam = NoTeam
PROPERTY OnlyTheLastDeletes
CHECK_DEADLOCK FALSE
