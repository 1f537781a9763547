SPECIFICATION Spec
CONSTANTS
  Crons = {c1}
  Organizers = {}
  Admins = {}
  Users = {u1}
  MaxTime = 0
  MaxEdits = 0
  MaxFailures = 1
  NoCron = NoCron
INVARIANT FailureLeavesNothing
CHECK_DEADLOCK FALSE
