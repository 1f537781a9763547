SPECIFICATION Spec
CONSTANTS
    FriendsSteps = 3
    TeamSteps = 2
    EventSteps = 2
    LinkSteps = 3
    ChallengeSteps = 2
    PlaySteps = 3
    ProfileSteps = 3
INVARIANTS
    OwnChangesShown
    OffersAreAccepted
    SaveKeepsTheRest
    AvatarIsThere
PROPERTY LeaderboardCatchesUp
CHECK_DEADLOCK FALSE
