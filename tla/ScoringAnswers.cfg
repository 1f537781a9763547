SPECIFICATION AnswersSpec
CONSTANTS
  Teams = {t1, t2, t3, t4}
  Challenges = {c1, c2}
  Requests = {q1, q2}
  Configs <- OneConfig
  Presets <- NoPresets
  Players = {p1}
  NoPlayer = NoPlayer
  MaxTeams = 2
  MaxEntries = 2
  NoTeam = NoTeam
  NoLink = NoLink
  Free = Free
INVARIANT OverbookingBounded
PROPERTY RequestsEnd
