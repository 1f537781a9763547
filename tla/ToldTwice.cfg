SPECIFICATION Spec
CONSTANTS
  Crons = {c1, c2}
  Organizers = {}
  Admins = {}
  Users = {u1}
  MaxTime = 0
  MaxEdits = 0
  MaxFailures = 0
  NoCron = NoCron
INVARIANT ToldOnce
CHECK_DEADLOCK FALSE
