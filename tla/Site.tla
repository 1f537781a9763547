-------------------------------- MODULE Site --------------------------------
(***************************************************************************)
(* The web application in one browser: the pages of one of its sections,   *)
(* chosen when the tab is opened, over the services behind them.  Every     *)
(* section is an instance of the same machine, QueryPage.                   *)
(***************************************************************************)
EXTENDS Naturals

\* Bounds of the sections.
CONSTANTS FriendsSteps, TeamSteps, EventSteps, LinkSteps, ChallengeSteps, PlaySteps,
          ProfileSteps

VARIABLES at, db, ui, data, fetch, failed, pending, owed, steps

page == <<db, ui, data, fetch, failed, pending, owed, steps>>
vars == <<at, page>>

Friends   == INSTANCE FriendsPages WITH MaxSteps <- FriendsSteps
Team      == INSTANCE TeamPages WITH MaxSteps <- TeamSteps
Event     == INSTANCE EventPages WITH MaxSteps <- EventSteps
Links     == INSTANCE EventChallenges WITH MaxSteps <- LinkSteps
Catalogue == INSTANCE ChallengePages WITH MaxSteps <- ChallengeSteps
Play      == INSTANCE PlayPage WITH MaxSteps <- PlaySteps
Profile   == INSTANCE ProfilePage WITH MaxSteps <- ProfileSteps

Init == \/ at = "friends"   /\ Friends!Init
        \/ at = "team"      /\ Team!Init
        \/ at = "event"     /\ Event!Init
        \/ at = "links"     /\ Links!Init
        \/ at = "catalogue" /\ Catalogue!Init
        \/ at = "play"      /\ Play!Init
        \/ at = "profile"   /\ Profile!Init

Next == /\ \/ at = "friends"   /\ Friends!Next
           \/ at = "team"      /\ Team!Next
           \/ at = "event"     /\ Event!Next
           \/ at = "links"     /\ Links!Next
           \/ at = "catalogue" /\ Catalogue!Next
           \/ at = "play"      /\ Play!Next
           \/ at = "profile"   /\ Profile!Next
        /\ UNCHANGED at

\* On the pages of an event the services answer and the browser runs its
\* callbacks, and the timer of the leaderboard fires while the tab is visible.
\* Nobody has to click.
EventAnswers == at = "event" /\ Event!P!Answers /\ UNCHANGED at
PollBoard    == at = "event" /\ (\E q \in Event!Polls : Event!P!Poll(q)) /\ UNCHANGED at

Spec == Init /\ [][Next]_vars /\ WF_vars(EventAnswers) /\ WF_vars(PollBoard)

-----------------------------------------------------------------------------
\* What a mutation of this browser changed is shown, once everything has
\* settled: no page keeps the data it had before its own change, unless the last
\* request for it failed.
OwnChangesShown ==
    CASE at = "friends"   -> Friends!OwnChangesShown
      [] at = "team"      -> Team!OwnChangesShown
      [] at = "event"     -> Event!OwnChangesShown
      [] at = "links"     -> Links!OwnChangesShown
      [] at = "catalogue" -> Catalogue!OwnChangesShown
      [] at = "play"      -> Play!OwnChangesShown
      [] at = "profile"   -> Profile!OwnChangesShown

\* A page that has the data of the moment offers nothing the handler behind it
\* would refuse; the exceptions are named with each section.  The catalogue
\* refuses nothing but what its dialogs offer for a challenge that is gone.
OffersAreAccepted ==
    CASE at = "friends"   -> Friends!OffersAreAccepted
      [] at = "team"      -> Team!OffersAreAccepted
      [] at = "event"     -> Event!OffersAreAccepted
      [] at = "links"     -> Links!OffersAreAccepted
      [] at = "play"      -> Play!OffersAreAccepted
      [] at = "profile"   -> Profile!OffersAreAccepted
      [] at = "catalogue" -> TRUE

\* A form that is saved sends nothing its user did not edit: what somebody else
\* changed meanwhile is not put back.  There are two exceptions, named with the
\* sections: the description of a team without one, and times with seconds.
SaveKeepsTheRest ==
    CASE at = "team"      -> Team!SaveKeepsTheRest
      [] at = "event"     -> Event!SaveKeepsTheRest
      [] at = "links"     -> Links!SaveKeepsTheRest
      [] at = "catalogue" -> Catalogue!SaveKeepsTheRest
      [] at = "profile"   -> Profile!SaveKeepsTheRest
      [] OTHER             -> TRUE

\* The avatar a profile names is a file that exists, whatever uploads and deletions
\* of two windows overlap.
AvatarIsThere == at = "profile" => Profile!AvatarIsThere

\* When the scores stop changing, the leaderboard shows them for good, without
\* anybody touching the page: failed requests for the scores are made up for by
\* the next one.  A failed request for the event is not, and hides the board.
LeaderboardCatchesUp == <>[](at = "event" => Event!BoardCurrent)
=============================================================================
