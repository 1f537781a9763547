SPECIFICATION TrackedSpec
CONSTANTS
  Teams = {t1, t2}
  Users = {u1, u2, u3}
  Requests = {h1, h2}
  MaxCreated = 2
  MaxDeletions = 1
  MaxLost = 1
  Nobody = Nobody
  NoTeam = NoTeam
CHECK_DEADLOCK FALSE
SYMMETRY Symmetry
INVARIANTS
  TypeOK
  CountNeverAbove
  CountIsMembers
  CaptainIsMember
  HomeAgrees
