SPECIFICATION ContestSpec
CONSTANTS
  Teams = {t1, t2, t3}
  Challenges = {c1, c2}
  Requests = {q1, q2, q3}
  Configs <- TieConfig
  Presets <- NoPresets
  Players = {}
  NoPlayer = NoPlayer
  MaxTeams = 3
  MaxEntries = 1
  NoTeam = NoTeam
  NoLink = NoLink
  Free = Free
SYMMETRY Symmetry
INVARIANTS
  NoDoubleSolve
  CountersAgree
  FirstBloodIsFirstSolve
  RewardChain
  CopyIsCurrent
  ScoreLedger
