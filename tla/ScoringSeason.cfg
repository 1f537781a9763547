SPECIFICATION RejoinSpec
CONSTANTS
  Teams = {t1, t2}
  Challenges = {c1}
  Requests = {q1, q2}
  Configs <- TwoConfigs
  Presets <- SomePresets
  Players = {}
  NoPlayer = NoPlayer
  MaxTeams = 2
  MaxEntries = 2
  NoTeam = NoTeam
  NoLink = NoLink
  Free = Free
SYMMETRY Symmetry
INVARIANTS
  TypeOK
  RewardWithinBounds
  NeverOvercharged
PROPERTY
  ImplementsScoreboard
