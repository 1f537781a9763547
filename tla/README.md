# FoilCTF: specifications, model checking and proofs

FoilCTF runs capture-the-flag events. It is a set of services over one PostgreSQL
database and a React front end. This directory holds TLA+ modules that model the
services' state and operations, TLC configurations that check them on small
instances, and theorems checked by TLAPS.

1. The system: an inventory
2. The plan
3. The modules and the code
4. The runs
5. Fairness
6. The proofs
7. What the checks showed
8. What is not modelled
9. How to run it

## 1. The system

| Part | Source | State it keeps | Operations |
| --- | --- | --- | --- |
| Event service (Go) | `app/event` | `ctfs`, `ctf_organizers`, `ctfs_challenges`, `participations`, `solves`, `chat_rooms`; in memory the scoreboard sockets | join, leave, submit a flag; link, edit, unlink a challenge; create, update, start, stop, delete an event; a cron job that follows the clock |
| User service (TypeScript) | `app/user` | `users`, `profiles`, `teams`, `team_members`, `team_join_requests`, `friends`, `friend_requests`, `sessions` | register, login, refresh, logout; teams and their requests; friends; profiles |
| Chat service (Go) | `app/chat` | `messages`; in memory the hub, clients, online sets | join, leave, send, edit, delete, typing, history |
| Notification service (Go) | `app/notification` | `notifications`, `notification_users`; in memory the hub | LISTEN/NOTIFY delivery, inbox, read, dismiss |
| Gateway (Go) | `app/gateway` | in memory the rate limiters | proxy requests and web sockets, limit rates |
| Sandbox (Go) | `app/sandbox` | images and containers (podman), build log streams | build, list, remove, stream logs, run |
| Challenge service (TypeScript) | `app/challenge` | `challenges`, `attachments` | create, update, delete, attach |
| Front end (React) | `app/web` | browser state | pages, token refresh, web sockets |
| Database | `app/database` | the schema: defaults, unique and foreign keys | migrations |

All paths are below `src/`. The services share one database and do not lock
anything outside of it: every conflict between two of them is settled by row
locks, unique constraints and foreign keys, or not at all. PostgreSQL runs at READ
COMMITTED: a statement sees what is committed when it starts, and an UPDATE
that had to wait for a row evaluates its WHERE again on the new version. That is
the level of detail the modules work at.

**How they interact.**

* The gateway forwards requests and sockets, after checking the access token on
  protected routes. It keeps no state but its limiters.
* Event, user and notification write the rows of each other's tables: the cron job of
  the event service reads `team_members` and writes `notification_users`; the
  user service deletes rows the event service refers to, through ON DELETE CASCADE.
* Notifications travel by a trigger: an UPDATE that publishes a notification fires
  `NOTIFY`, the notification service LISTENs and pushes to open sockets.
* Inside a Go service a hub goroutine owns the set of sockets; each socket has a reader
  and a writer goroutine that talk to it by channels.

**What is hard in each part, and what makes it correct.**

| Component | Hard behaviour | Correct when |
| --- | --- | --- |
| Flag submission | concurrent submissions compute reward, counters and first blood from the same row; scores are kept by increments; submissions for different challenges deadlock; wrong flags roll back; teams leave, rejoin; organizers relink | a team solves a challenge once; counters equal rows; first blood is the first solve; the rewards paid form one decay chain; every score is what the solve rows account for |
| Registration | count, then insert | `max_teams` is exceeded by at most the joins in flight |
| Event lifecycle | organizers act on a copy read by a middleware; the cron job is a transaction over several statements, with one write outside of it; ticks fail; several instances may tick | the cron job moves the status forward only, once per publication; each announcement has a move or a change by hand; events start and end |
| Teams | every handler reads first, writes later and locks nothing in between; four records (`members_count`, `captain_name`, `team_members`, `users.team_name`) of one membership | the records agree; a count never claims more members than there are; the captain is a member |
| Hubs of sockets (chat, notifications, live scoreboard) | goroutines of a connection started before it is registered; unregistered by several of them; channels closed while others send; locks held while a slow client is waited for; a map read without its lock | no channel is closed twice, nobody is killed by sending on a closed one; the hub comes back to its channels; a lost connection and its goroutines are gone in the end |
| Notification inbox | counts kept by queries over columns that are not written | what was read is not counted (it is: see 8) |
| Friends | requests in both directions, accepted and cancelled by statements that look first and write later | a page offers what the service accepts |
| Sessions | two requests of one browser each read and replace a whole cookie; refresh tokens rotated in bulk after a rename | the tokens of a cookie belong together; no page keeps an expired token, no session a dead one or an old name |
| Profiles | a file and the row that names it, written one after the other | the file is there |
| Pages of the web application | several queries show one thing; an answer is older than the change that came after it; forms and dialogs outlive what they are about | what the page changed is shown; what it offers is accepted; what is saved is what was edited |
| Build logs | an unlocked table of streams, replaced by the next build of an image | every reader gets the log and ends |
| Rate limits | a limiter dropped while in use | the limit holds between cleanups |

`PROJECT.json` lists every component with its status, and the hazards with the line
where each bites and the properties that cover it. Those of parts that are not modelled,
and steps the models have but no property forbids, are in sections 7 and 8.

## 2. The plan

In this order, the most important behaviour first. All but the last are done.

1. **Scores**: `Rewards`, `ScoreTables`, `Scoreboard` (abstract), `Scoring`
   (detailed, implements `Scoreboard`).
2. **Event lifecycle**: `EventLifecycle`.
3. **Teams**: `Teams`.
4. **Sessions**: the cookie, the pages and the table of sessions (`Sessions`).
5. **Pages**: one machine of the library the pages are written with (`QueryPage`), seven
   sections of the site that instantiate it over the services behind them, and
   their choice (`Site`).
6. **Sockets**: one hub for the three services that have one (`Sockets`), composed with
   the sessions whose tokens open them (`SignedIn`).
7. Left: build logs, rate limits, the rows of chat messages, attachments.

Every safety property of the passing runs is a theorem (section 6); liveness is
model-checked.

## 3. The modules and the code

### Scores

| Module | Role |
| --- | --- |
| `Rewards` | gorm's column defaults, `CalculateNewReward` |
| `ScoreTables` | the committed tables and what one solve does to them |
| `Scoreboard` | abstract: one step per operation |
| `Scoring` | detailed: one action per SQL statement |
| `ScoringProperties`, `ScoringLedger` | the properties |
| `ScoringRejoins` | `Scoring` with a history variable: teams that leave and join again |
| `MCScoring`, `MCScoringSeason` | instances: configurations of rewards, a contest already running |
| `ScoringProofs`, `ScoringRefinementProofs`, `ScoringLedgerProofs` | the proofs |

A *request* of `Scoring` is a handler goroutine. Its `pc` goes

    idle -> authed      PlayerAuthMiddleware has read the event
         -> admitted    EnsureEventAccess has found the participation
         -> locked      SELECT ... FOR UPDATE of the link, lookup in solves, attempts + 1
         -> attempted   UPDATE participations SET last_attempt_at
         -> scored      flag right: reward, first blood, the set of rows to charge
         -> idle        INSERT INTO solves, credits, COMMIT

with `ChargeSolver` taking the row lock of each earlier solver in between, in any
order (the order of an UPDATE is the planner's). What a transaction
writes appears at its commit; until then `linkLock` and `partLock` record the rows
it holds. `DeadlockAbort` is PostgreSQL's detector: it fires only when a request
waits, through others, for itself. `Restart` is the death of the service.
`registered`, `score`, `solved` are the columns of `participations`; `entries`
counts how often a team joined. `profile` holds the career totals by username: a solve credits
the profile the token names, and when it names none (`NoPlayer`: renamed or deleted since)
the UPDATE changes no row, raises no error, and the solve stands. A request that links or edits a
challenge is decoded into the whole row, so it may set the counters and first blood as well
(`Presets`).

`CalculateNewReward` computes in float64. Its exact value is a rational number and the
result its nearest integer; on a tie the error of the two divisions decides,
so `DecayedReward` returns both neighbours.

The refinement mapping of `Scoring` to `Scoreboard` is the identity on the committed
tables. One thing in the abstract specification is not what a reader would expect:
`spared`. A team that leaves and rejoins while a submission is being charged gets a
new row the UPDATE does not see.

### Event lifecycle

`EventLifecycle` holds one event, its participants' accounts, the cron jobs and the
organizers' requests. A tick has five steps: two SELECTs of recipients, two UPDATEs
(which lock the row when their WHERE holds), creation of notifications *outside* of
the transaction (`h.Db`, not `tx`), and the commit that publishes and
addresses them. `FailTick` is any statement that fails; a recipient that was deleted
makes the tick fail for sure (`Deliverable`). An organizer's request keeps the status
its middleware read (`seen`); `DeleteEvent` is four separate transactions and may
die between any two of them. `moves` is a history variable: how often
the status was moved and by whom; `inbox` counts per cron job what it told whom.

### Teams

`Teams` has one read step and one write step per handler, since the handlers take no
lock before their first write. `route_team_delete` has three statements before its
commit, and each locks only the rows it finds, so members and requests may be added
meanwhile; the cascade then removes them. Unique and foreign keys are guards
of the write steps. `Abort` is any failure, the inserts of notifications included.
Users are identified with their names (the rename of a user is not
modelled here); `id` tells a team from a later one of the same name, because
`leaveTeam` deletes by id and updates by name. `TeamsProperties` adds two history variables:
`overlapped`, whether two requests were ever in flight together, and `crossed`, the teams of which
two requests took each other's ground away (`Cross`).

### Sessions and sockets

| Module | Role |
| --- | --- |
| `Sessions`, `SessionsProperties` | accounts, rows of sessions, the cookie, the page, the two requests of a browser |
| `Sockets` | a hub of web sockets, with its properties |
| `SignedIn` | both, as one specification |

The web server keeps nothing: a loader or an action reads the cookie its request came
with, asks the user service and answers with a whole new cookie. `Serve` is
the server's side of each route, `Receive` the browser's, which takes the cookie and
loads the page again. Between the two come other requests, the interval of
the dashboard layout (`SendRefresh`), the clock (`Tick`: a part of the life of
an access token) and other clients that rename or delete the account. `Rename` and `Rotate`
are two steps, as they are in `route_user_update`. Refresh tokens are
named by the number of their issue.

`Sockets` is written once for `app/chat`, `app/notification` and `app/event`, which
share everything but three things, and `service` says which is meant: whether the
goroutines of a connection start before or after it is registered
(`Upgrade`, `Second`); whether sending is protected by a lock and a flag (`SafeSend`,
`SafeClose`) or by recovering from the panic (`SendToClient`); and who sends besides the
hub (`Listener`, `ReaderSendsError`, `RefuseEvent`). Channels are counts of what they
hold, goroutines are counts of those at each place of the code. `Race` is the
concurrent map access of notification/main.go:135, which ends the process.
A connection is opened with the access token of the page and never looks at it again,
so the two halves of `SignedIn` share no variable; `watched` says which one a behaviour
is about.

### Pages

| Module | Page | Services |
| --- | --- | --- |
| `QueryPage` | requests, answers, errors, invalidation, focus, polling, clicks, dialogs | TanStack Query |
| `FriendsPages` | friends.tsx, users.tsx, users.$username.tsx | user: friend.ts |
| `TeamPages` | team.tsx, teams.tsx, teams.$id.tsx | user: team.ts |
| `EventPages` | events.tsx, events.$id.tsx, events.$id.leaderboard.tsx, EventForm | event: public, player and organizer handlers |
| `EventChallenges` | the dialog of an event's challenges | event: links of challenges |
| `ChallengePages` | challenges.tsx, AdminChallengeModal | challenge service |
| `PlayPage` | events.$id.play.tsx, ChallengeModal, FlagSubmitForm | event: submissions |
| `ProfilePage` | profile.tsx, AvatarUpload | user: profile.ts |
| `Site` | the choice of a section | |

A section gives `QueryPage` its queries (`Active`, `Shows`, `Left`), its mutations
(`Offered`: the button is there and enabled; `Arg`: what is sent; `Effects`: the handler;
`Invalidates`, `After`: `onSuccess`), the effects of new data on its forms (`Sync`)
and what other people do (`Others`). Two steps of a request are apart: the service
reads or changes `db`, then the page takes the answer. An answer of a query that was
read before a mutation of this page is not `own`, and a query whose data is older than
such a mutation is `owed` (except one that no page mounts and whose answer is on
its way: the library does not fetch it again). The handlers are those of the service
modules in one step; `FriendsPages` and `ProfilePage`, whose services have no module of
their own, keep their look and their write apart for the other user and the second
window (`look`).

## 4. The runs

| Run | Bounds | Question |
| --- | --- | --- |
| `scoring_season` | 2 teams, 1 challenge, 2 requests, 2 reward settings, 2 entries per team | Everything a season can do to one challenge: types, reward bounds, what a team that rejoined is charged, and that every step is a step of `Scoreboard` |
| `scoring_contest` | 3 teams, 2 challenges, 3 requests, a decay with a tie | A running contest at its most concurrent: no double solve, counters, first blood, reward chain, score ledger |
| `scoring_answers` | 4 teams and 2 places before the start; in the full event 2 teams, 2 challenges, 2 requests | Is every request answered, deadlocks included; how far can an event be overbooked |
| `late_solve` | 2 teams, 1 challenge | violation: a solve after the end |
| `event_cron` | 2 users, a clock of 1; 1 cron job and 1 failure or crash, or 2 cron jobs, 1 organizer's request and 1 edit | starts and ends come; the cron jobs never take an event backwards and start it once per publication; every notice has a move or a change by hand |
| `orphan_notification` | 1 cron job, 1 failure | violation: a failed tick leaves a notification |
| `told_twice` | 2 cron jobs, 1 user | violation: one start is told twice |
| `sessions` | 2 accounts, 2 names, 1 browser, 3 clicks, a life of 1 tick; 1 connection, buffers of 1, 2 senders | whole cookies that overtake each other; hubs under loss, slowness and repeated unregistration |
| `site` | 2 or 3 clicks, failures and steps of others per section | what pages show, offer and save; the leaderboard |
| `teams` | 2 names, 3 users, 2 requests, 2 creations, 1 deleted account | Foreign keys and counts under interleaving; the captain is a member unless requests crossed; agreement of count and homes as long as requests came one by one |
| `last_member` | 2 users, 2 requests | violation: a team with members is deleted |
| `dangling_team` | 2 users, 1 request, 1 deleted account | violation: a user names a team that is gone |

**Why the bounds are enough.** Two requests show every race of a pair; three, with two
challenges, are what a deadlock needs together with a bystander who waits for either.
Three teams give a first solver, one who is charged and one who charges;
a third solve reaches the floor of the decay in `Tie`. `Decaying` reaches it in
two. `Defaulted` has a minimum above the reward, which gorm's defaults produce
(reward 300, minimum 350), so that rewards rise. In `teams` requests overlap only
while one name is in use (`InUse` in `MCTeams`); one by one, both names are. A count is
followed to one below zero (`MaxLost`), which the last of the eight pairs of `Cross`
takes: without any one of the pairs the run finds a captain outside of the team. A behaviour of
`event_cron` is that of one cron job that fails while users come and go, or that of two and an
organizer around a published event (`MCEventLifecycle`); both kinds of step at once would be too
many for the temporal properties. (The theorems of section 6 have none of these restrictions.)
Named bounds: `MaxEntries`, `MaxEdits`, `MaxFailures`, `MaxTime`, `MaxCreated`,
`MaxDeletions`, `MaxLost` (how far below zero a count is followed). `MaxTeams` is not
a bound of the model but the column `ctfs.max_teams`.

`scoring_contest` and part of `scoring_answers` start in an event that is already
running with its teams registered. `scoring_season` reaches such states from the
empty database; the initial predicate saves the steps there.

A browser of `sessions` has two requests in flight because React Router has one navigation
and the layout one fetcher; three clicks are a sign-in, a rename and a second sign-in or a
sign-out, and the refreshes are not counted. One connection is enough for what
`Sockets` states: hub, lock and channels are shared, but every guard of one connection looks
at its own record and at the room in the channels to the hub, and with buffers of one
each of these is full as soon as it is used. Two senders are one that holds the read lock
and one that comes after the channel was closed. `NeverPanics` also holds with two connections
(`Connections = {c1, c2}` and `Sockets` alone: 3,959,471 states). In `site` three steps are a click,
another person's step and a failure or a second click; answers, timers and
gestures (opening a tab or a dialog) are not counted. The larger sections have two.

**Deadlock.** `CHECK_DEADLOCK FALSE` is set where the bounds, not the code, stop the
system: `EventCron`, `OrphanNotification` and `ToldTwice` (a deleted or ended event, all edits used),
`Teams`, `LastMember` and `DanglingTeam` (creations and deletions used, all users
named after a team that is gone), `Sessions` and `Site` (clicks
used, all answered). Elsewhere deadlock is checked.

**Symmetry** is used in runs without temporal properties of the liveness kind.
`scoring_season` checks the refinement, an initial predicate and an action
property, under symmetry: `Scoreboard` treats teams and challenges alike, so the
set of its steps is symmetric too.

Every property has a mutant in the module it is about: an operator ending
in a description of the mistake (`LinkFree_Unlocked`, `Charged_AlsoSolver`,
`UpdateActive_EndTime`, `acceptJoinRequest_Twice`, ...) placed before the
definition it replaces. With the mutant, the property fails in its run.

## 5. Fairness

*Scoring*. A goroutine that can run runs: weak fairness of the steps that wait
for no lock (`Compute`). PostgreSQL queues the transactions that wait for a row, so one
of them is not overtaken for ever: strong fairness of the steps that may wait
(`LockRows`). The deadlock detector runs after `deadlock_timeout`: weak fairness of
`DeadlockAbort`. Callers, organizers and crashes have no fairness.

*Event lifecycle*. `NewCron` runs `SyncCtfStatus` every three seconds, one tick after
another: weak fairness of the tick's steps, and of the failure of a tick that cannot
succeed because a recipient is gone (the constraint decides this, not chance). The two
UPDATEs wait for the row: strong fairness. The clock need not move,
and `MaxFailures` bounds the other failures: a database that fails for ever starts
no event, in the model as in reality.

*Sessions*. Requests are answered (weak fairness of `Serve`), the interval of the layout
runs (`SendRefresh`), and time goes by between requests (strong fairness of `Tick`).
Nobody has to click. The properties have the form "again and again": a cookie may be
brought back by a late answer, but not for good.

*Sockets*. A goroutine that can go on does. The select of the hub chooses among its ready
channels at random, and a goroutine blocked on a full channel is served in
order: strong fairness of `Leaves` and `Tunnels`. A write to a peer that is
gone may succeed a few times and then fails (TCP): that is in `Tunnels` too. Nobody has to
open, close or send anything, and a live peer need not read. `LostLeaves` assumes that
events keep coming, because it takes a failed broadcast to find a connection whose
unregistration was handled before its registration; without events such a connection
stays listed for ever.

*Site*. On the pages of an event the services answer and the timer of the leaderboard fires
while the page is open (weak fairness); changes are bounded, so they stop.

## 6. The proofs

Every safety invariant and action property the passing runs check is a theorem too, for
every value of the constants. `PROJECT.json` lists the theorems; this section has the
arguments.

The assumptions are the named ones of the modules that declare the constants, and TLC
evaluates them in every run:
`ScoreboardAssumption`, `ScoringAssumption`, `LifecycleAssumption`, `TeamsAssumption` and
`SessionsAssumption` (finite sets of teams, requests, cron jobs and users; bounds that are
natural numbers; tokens such as `Free` and `Nobody` that are none of the values they stand
apart from); `NoUserAssumption` (no user, and an answer without a cookie, are not users);
`ConnectionsAssumption` (a connection is none of the other things a hub is busy with). The
buffers and numbers of senders of `Sockets` and the bounds of `Site` need none: what is
proved of them holds for any.

**Scoring** (`ScoringProofs`, `ScoringRefinementProofs`, `ScoringLedgerProofs`). One lemma
about the rule, then four invariants, each on top of the previous one.

* `DecayTowardsMinimum`: for all settings and all numbers of solves, the next
  reward lies between the present one and the minimum. `NearestBetween` does the
  rounding: the nearest integer of a fraction of `n` lies between 0 and `n`.
* `IInv`: types and `LockInv`. A lock belongs to an open transaction,
  an open transaction holds the link of its challenge, hence (two requests cannot
  hold one row) at most one transaction is open per challenge. Gives `TypeOK`.
* `SInv`: per request (`TxInv`), the local copy of a link equals the row until it is
  written back, and a request in a transaction has not solved its challenge yet; per
  challenge (`BoardInv`), counters and first blood are those of `rows`, and `ChainOf`: the
  rewards read back from the rows follow the decay rule up to the present one, which is
  between the first and the minimum. None of the properties is inductive alone: a request
  may be one step away from its insert, and what makes that step safe is what it read *and*
  that nobody could write since. Gives `NoDoubleSolve`, `CopyIsCurrent`, `CountersAgree`,
  `FirstBloodIsFirstSolve`, `RewardWithinBounds` and `RewardChain`.
* `RInv`: the rows charged and still to charge are those of
  the registered earlier solvers, save teams that rejoined. With it every step of
  `Scoring` is a step of `Scoreboard` or leaves the tables alone, and
  `Refinement` is `Spec => Board!Spec`.
* `LedgersInv`: the score is the sum `ScoreLedger` says.
  A solve (`RecordLedger`) adds one element to the sum of its team and changes one element in
  the sum of each team it charged; that it charged all of them is `RInv`.
  The library states no theorem about `SumFunction`, so the module opens its fold
  once (`SumPick`) and proves what one more element (`SumMore`), one changed value (`SumChanged`)
  and equal values (`SumEqual`) do to a sum, by a smallest counterexample among the
  subsets of a finite set.
* `OwedsInv`: a registered team has at least what its solves account for when the challenges it
  had solved before it joined count only by what they have lost since (`Owed`). A solve charges it the
  same loss, or spares it. Gives `NeverOvercharged`, proved of `RejoinSpec`, which is `Spec` with the
  history variable `base` and restricts nothing.

`Overbooking`: `Cardinality(registered \cup joining teams)` is counted by the places
(`PlacesInv`): every request past the check adds at most one.

**Event lifecycle** (`EventLifecycleProofs`). `LInv`: types, `MatchedRowIsLocked`, and the
order of a tick's steps (`TicksInOrder`). `CreatedAreUnpublished`: a tick may publish only
what it created. `MovesAreBacked` strengthens `MovesFollowEdits` by the present status: a
published event has one more publication than openings. `OnlyForward` follows from the
locked row: what the WHERE found is still true at the commit. `NoticesFollow` holds for any
number of cron jobs and organizers. `NoticesInv` says of every user a tick is about to tell that
the WHERE of its UPDATE still holds, or has matched, or that the job has told this user less often
than the event moved or was changed (`StartsTold`, `EndsTold`); whoever takes the ground
away under a tick moves the event or changes it by hand, which makes up for it (`PaidFor`).

**Teams** (`TeamsProofs`). `TInv`: types, foreign keys, and `TxFilled` (a request between its
steps names a user). `CountNeverAbove` is inductive with it: an increment inserts a row that
was not there, a decrement removes at most one, a cascade removes all, and only an
account that is deleted takes a row without a decrement. The serial properties are proved of
`SerialSpec`, which is `Spec` with the history variable `overlapped` and restricts
nothing: `SerialInv` says that, unless requests have overlapped or an account was
deleted, at most one request is in flight (`Alone`), the three records of a membership agree
(`Agree`), and what the request in flight read is still so (`StillTrue`). `CaptainBelongs` has no such
condition: `CrossInv` says of every team of which no two requests crossed that its captain is a
member and that what a request has found out about the captain still holds (`Ground`): who is
being made captain is a member or has no account any more, who is being kicked is not the captain,
a captain who is leaving is the only one counted. Every write of another request keeps that, or is
one of the pairs of `Cross`.

**Sessions and sockets** (`SignedInProofs`). `SessionInv`: `TypeOK`, and the tokens of one
account in every cookie, page and request, sent or answered; the request carries its kind's form
and, between the two calls of a sign-in, the tokens of the first (`FormOK`). `SocketsInv`: for every
connection, why its channel is open (`Because`): it is on its way into the hub, listed,
being registered, or somebody in the chat is past the lock. No step of a hub closes or sends
otherwise, so `panicked` stays false, for all three services.

**Pages** (`QueryPageProofs`, `SiteProofs`). What a step of `QueryPage` can do to `db`, `ui`,
`data`, `fetch` and `pending` is proved once, for any page (`DbStep`, `UiStep`, `PendingStep`,
`AnswerStep`, `ShapedStep`: each says which parameter of the page made the change), and every
section instantiates these lemmas. A section adds its invariant (`FriendsInv` ... `ProfileInv`):
types of tables, answers under way, forms and requests, and how the form follows the
data (`TeamFollows`, `EventFollows`, `DraftsFollow`, `FormFollows`, `ProfileFollows`: a field of the
form differs from what it was filled with only if it was edited), which is what makes
`SaveKeepsTheRest` inductive (the draft of a team without a description counts as filled with the
empty one). `FilesAreKept` does the same for `AvatarIsThere`: the
file an upload under way has written is there, and is neither the one the row names nor
the one that upload will remove.
`OffersAreAccepted` follows from the types and from `Current`, button by button.

`OwnChangesShown` says what a quiet page shows, which no step keeps by itself. Its
invariant says of every query that owes a change what will bring it (`Coming`): a request
for it, an answer read after the change, or a mutation that was accepted and has still to
invalidate it; or else its last request failed or the page does not display it. For any page, a
step keeps an owed query coming unless the service just accepted a change that the query
shows and its mutation does not invalidate (`Missed`, `ComingStep`), and a quiet page on
which what is owed is coming satisfies `NothingOwed` (`RestingDue`). So each section has
to show which of its mutations miss what (`FriendsDue` ... `ProfileDue`). On the pages of
friends, links, catalogue and contest no displayed query is missed, on the profile only by the
deletion of the avatar, after which the page shows none. The pages of an event and a team are
left or entered by their mutations, which fetch what they missed: `EventDue` and `TeamDue` say
which query may be behind while a deletion, a departure or a creation is under way, that an
event does not come back once it is gone, and that a captain is a member and a member asks
for no team (`TeamRoles`), so that a deletion changes no request this browser shows.

The provers found one thing wrong with the model: a `CASE` of `PlayPage`, `EventPages` and
`TeamPages` had arms that overlap, and TLA+ does not say which of them counts, though
TLC takes the first. The arms are disjoint now, and the state counts are the same.

**Only model-checked**: liveness (`RequestsEnd`, `StartsOnTime`, `EndsOnTime`,
`PageTokenRenewed`, `DeadSessionEnds`, `TokenNameCatchesUp`, `LostLeaves`, `HubReturns`,
`LeaderboardCatchesUp`), which is out of the prover's reach.

## 7. What the checks showed

Five statements of the repository do not hold of its code; each has a run that finds a
counterexample.

* `late_solve`: app/event/README.md:10 says of an ended event "no more Submits
  allowed". The status is read by the middleware only. A submission that waits for the
  row lock of its challenge commits after the event has ended.
* `orphan_notification`: README.md:210 says that a failure "rolls back the entire
  operation". The notification is created outside of the transaction and stays.
* `told_twice`: README.md:211 and 213 say that participants are told exactly once and that
  overlapping jobs are safe. Two jobs that read their recipients before either moves the event
  both tell them. What does hold is `NoticesBounded`.
* `last_member`: leaveTeam's comment says "last member of the team". A member who is
  removed by two requests at once is counted down twice, and the next departure
  deletes a team that still has members.
* `dangling_team`: team.ts:866 calls it a broken invariant that a user names a team
  which does not exist. Deleting the account of a captain does that to every
  other member.

What the properties of the pages except is what the pages do: each `OffersAreAccepted` names
the buttons a page offers although the handler refuses (`NotGuarded`: a registration for
a full event, a deletion of a running one, a dialog that outlives what it is
about, a friend request of somebody who is a friend by now), and a page on which the avatar
was deleted may show it again, since the deletion invalidates a key no query has.
What `OwnChangesShown` excepts needs more clicks than the bounds of `site` allow. It was found
with one section alone and more steps, and by the attempt to prove the property; with these
exceptions it is proved for any number of steps. A query that no component displays while its old
answer is on the way is not fetched again by an invalidation. The deletion of an event sends one
to the list of events (events.$id.tsx:283) and then leads to that list, which shows the event that is gone
(`Late` in `QueryPage`: such a query owes nothing). Three things the pages of a team do
not invalidate (`unsaid` in `TeamPages`): who hands the captaincy on keeps the requests
to join that he may no longer read (team.tsx:515); and a save or a deletion that ends after its page
was left, because the team was deleted or left meanwhile, does not bring the list of teams up
to date, which may then show whether a team was locked before the save, or a team that is
gone (team.tsx:352, team.tsx:605).

Three more exceptions are in the properties of the pages. The draft of the team form is `description ?? ''`
and is compared with the NULL of a team that has none (team.tsx:652, 373): saving it sends an
empty description nobody typed, which may overwrite another window's (`unset` in `TeamPages`,
excepted in `SaveKeepsTheRest`). The form of an event has its times in whole minutes and sends them
so (EventForm.tsx:228): times with seconds are excepted there too. And the page of the leaderboard
shows "Event not found" once a request for the event has failed, until the window gets the focus
(events.$id.leaderboard.tsx:182): `LeaderboardCatchesUp` speaks of pages of which it has not.
In `ChallengePages` the buttons are offered whatever the handlers check, so the catalogue states
nothing about its offers.

The model also has, without a run of their own, two requests that each put one user in
another team, a captain made of a user who leaves or is kicked at the same time (and the other
pairs of `Cross`), a team that registers between
the SELECT of the recipients and the commit and is not told, an organizer's stop between
SELECT and UPDATE after which a start is announced that does not take place, and a
delete request that removes an event the cron job has just started. (The lines: team.ts:30,
team.ts:293, cron.go:28, cron.go:74, controllers_organizer.go:148.)

## 8. What is not modelled

* **Notification inbox.** Unread notifications are found by `read_at`, which no handler writes
  (read.go:11), marking all as read inserts rows for the notifications of other users, and
  the panel appends what the socket brings to a list in another order than
  the one it was filled in (NotificationContext.tsx). Nothing says what it should do, and
  the properties one would state do not hold.
* **Rows of the chat**: who may edit or delete a message and for how long, and the history. An
  edit does not look at `deleted_at` (chat/src/events.go:170). Order of messages and of
  scoreboards: each is sent by a goroutine of its own, and no order is promised.
* **Attachments** of challenges: AdminChallengeModal sends their requests without a token, and the
  service refuses them.
* **Sandbox**: images and containers are kept by podman. A stream of build logs has one
  reader by design; two builds of one image replace each other's streams in an unlocked
  map (app.go:67).
* **Gateway**: forwarding, and token buckets that depend on time only. The cleanup can drop a
  limiter that was just looked up; the next request then gets a full bucket.
* **Web application**: rendering, the statistics, the chat panel, instances, toasts, the sidebar,
  passwords and the two-factor form. A form of an event sends its times to the minute
  (EventForm.tsx), which `EventPages` has as `whole`. Two uploads of an avatar in one
  millisecond would share a file name, and so would uploads of two users, since all avatars are in
  one directory (profile.ts:182). `updateProfile` writes whatever
  columns its request names; `ProfilePage` has those the form sends.
* In `Sockets`: what an event contains; rooms, events and users (a connection belongs to one, and
  an event is for all of one); what is announced while the listener of notifications is
  disconnected (main.go:64); rate limits of the reader.
* Handlers that only read (lists, details, statistics).
* Pure wiring: configuration, metrics, validation schemas, the proxy, podman calls.
* In `Scoring`: the deletion of a team or of a challenge, which cascades into the tables of a
  running event: participations and solves of the team go, links and solves of the challenge go,
  and `first_blood_id` of every link the team was first in becomes NULL while `first_blood_at`, the
  counters and the charges stay (migration, lines 197 to 245). The counters and `FirstBloodIsFirstSolve`
  are therefore claimed of events whose teams and challenges are not deleted.
  Wall-clock columns, the text of flags, the websocket update after a solve
  (`Sockets` has it as `HandleEvent`).
  In the event service nothing but the cron job and organizers changes a status.
* In `EventLifecycle`: more than one event (a tick with two events locks both rows,
  and holds each to the same rule); the notifications of manual starts and stops, which
  are never sent because `Notify` (helpers.go:159-166) joins `team_members` on columns the
  schema does not have; the deletion of an organizer's account.
* In `Teams`: the rename of a user, retries by the caller, and the read phase of a
  handler as more than one statement (its reads take no lock and its writes
  re-check only what constraints check).

## 9. How to run it

    tlasany Scoring.tla
    tlc -workers 2 -config ScoringContest.cfg MCScoring
    tlapm ScoringProofs.tla
