----------------------------- MODULE ScoreTables -----------------------------
(***************************************************************************)
(* The tables of one event that a flag submission reads and writes, as     *)
(* they are committed in the database: participations, ctfs_challenges,    *)
(* solves and profiles, restricted to the event.  Shared by the atomic     *)
(* specification (Scoreboard) and the detailed one (Scoring).              *)
(***************************************************************************)
EXTENDS Rewards, Sequences, FiniteSets

CONSTANTS
  Teams,       \* the teams (teams.id)
  Challenges,  \* the published challenges an organizer may link
  Configs,     \* the reward settings organizers use
  Presets,     \* the counters a linking or editing request may contain
  Players,     \* the profiles of the members (profiles.username)
  NoPlayer,    \* the username of a token that names no profile
  NoTeam,      \* a null first_blood_id
  NoLink       \* the challenge has no row in ctfs_challenges

LinkRow == [reward : Int, rewardMin : Nat, rewardFirstBlood : Nat,
            rewardDecrements : BOOLEAN, decay : Nat \ {0},
            attempts : Nat, solves : Nat, firstBlood : Teams \cup {NoTeam},
            initial : Int]
Counters == [attempts : Nat, solves : Nat, firstBlood : Teams \cup {NoTeam}]
SolveRow == [team : Teams, score : Int]
Profile == [points : Int, solved : Nat]

ASSUME ScoreboardAssumption ==
  /\ Configs \subseteq RewardConfig
  /\ Presets \subseteq Counters
  /\ NoTeam \notin Teams
  /\ NoPlayer \notin Players
  /\ NoLink \notin LinkRow

VARIABLES
  link,        \* link[c]: the row of c in ctfs_challenges, or NoLink
  rows,        \* rows[c]: the rows of solves for c, in the order of their id
  registered,  \* the teams that have a row in participations
  score,       \* score[t]: participations.score
  solved,      \* solved[t]: participations.solves
  entries,     \* entries[t]: the committed JoinEvents of t: its team chat
               \* rooms, and what they added to profiles.eventsparticipated
  profile      \* profile[p]: profiles.totalpoints and .challengessolved

boardVars == <<link, rows, registered, score, solved, entries, profile>>

(* The counters of a request that leaves them out. *)
NoCounters == [attempts |-> 0, solves |-> 0, firstBlood |-> NoTeam]

(* A freshly created row: the request is decoded into the whole row, its    *)
(* counters included.  initial remembers the reward it was created with.    *)
NewLink(cfg, k) ==
  [reward           |-> cfg.reward,
   rewardMin        |-> cfg.rewardMin,
   rewardFirstBlood |-> cfg.rewardFirstBlood,
   rewardDecrements |-> cfg.rewardDecrements,
   decay            |-> cfg.decay,
   attempts         |-> k.attempts,
   solves           |-> k.solves,
   firstBlood       |-> k.firstBlood,
   initial          |-> cfg.reward]

CountersOf(l) ==
  [attempts |-> l.attempts, solves |-> l.solves, firstBlood |-> l.firstBlood]

(* The row with the columns an organizer chooses overwritten. *)
WithSettings(l, cfg, k) ==
  [reward           |-> cfg.reward,
   rewardMin        |-> cfg.rewardMin,
   rewardFirstBlood |-> cfg.rewardFirstBlood,
   rewardDecrements |-> cfg.rewardDecrements,
   decay            |-> cfg.decay,
   attempts         |-> k.attempts,
   solves           |-> k.solves,
   firstBlood       |-> k.firstBlood,
   initial          |-> l.initial]

Linked == {c \in Challenges : link[c] # NoLink}

(* The teams of a sequence of solve rows. *)
Solvers(s) == {s[i].team : i \in DOMAIN s}

(* Mutant: every solver is paid the bonus. *)
PointsToAward_AlwaysBonus(l) == l.reward + l.rewardFirstBlood

(* What the next solver of a challenge is awarded, first blood included. *)
PointsToAward(l) ==
  l.reward + (IF l.firstBlood = NoTeam THEN l.rewardFirstBlood ELSE 0)

(* The row after one more solve, by team t, that moves the reward to r. *)
SolvedOnceMore(l, t, r) ==
  [l EXCEPT !.attempts = @ + 1, !.solves = @ + 1, !.reward = r,
            !.firstBlood = IF @ = NoTeam THEN t ELSE @]

(* The score of v when t earns points and every payer loses loss. *)
ScoreAfter(v, t, points, payers, loss) ==
  score[v] + (IF v = t /\ t \in registered THEN points ELSE 0)
           - (IF v \in payers THEN loss ELSE 0)

(* The profiles when points are added WHERE username = p: a token may name  *)
(* no profile any more, and then no row is updated and no error raised.     *)
Credited(p, points) ==
  [u \in Players |->
     IF u = p THEN [points |-> profile[u].points + points, solved |-> profile[u].solved + 1]
              ELSE profile[u]]

InitBoard ==
  /\ link = [c \in Challenges |-> NoLink]
  /\ rows = [c \in Challenges |-> <<>>]
  /\ registered = {}
  /\ score = [t \in Teams |-> 0]
  /\ solved = [t \in Teams |-> 0]
  /\ entries = [t \in Teams |-> 0]
  /\ profile = [p \in Players |-> [points |-> 0, solved |-> 0]]
=============================================================================
