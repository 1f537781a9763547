SPECIFICATION ScheduledSpec
CONSTANTS
  Crons = {c1, c2}
  Organizers = {o1}
  Admins = {}
  Users = {u1, u2}
  MaxTime = 1
  MaxEdits = 1
  MaxFailures = 1
  NoCron = NoCron
INVARIANT TypeOK
INVARIANT MatchedRowIsLocked
INVARIANT MovesFollowEdits
INVARIANT NoticesBounded
PROPERTY CronOnlyForward
PROPERTY StartsOnTime
PROPERTY EndsOnTime
CHECK_DEADLOCK FALSE
