SPECIFICATION ContestSpec
CONSTANTS
  Teams = {t1, t2}
  Challenges = {c1}
  Requests = {q1, q2}
  Configs <- OneConfig
  Presets <- NoPresets
  Players = {}
  NoPlayer = NoPlayer
  MaxTeams = 2
  MaxEntries = 1
  NoTeam = NoTeam
  NoLink = NoLink
  Free = Free
PROPERTIES
  NoSolveAfterEnd
