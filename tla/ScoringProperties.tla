-------------------------- MODULE ScoringProperties --------------------------
(***************************************************************************)
(* What must hold of flag submission.                                      *)
(***************************************************************************)
EXTENDS Scoring

TypeOK ==
  /\ link \in [Challenges -> LinkRow \cup {NoLink}]
  /\ rows \in [Challenges -> Seq(SolveRow)]
  /\ registered \in SUBSET Teams
  /\ score \in [Teams -> Int]
  /\ solved \in [Teams -> Nat]
  /\ entries \in [Teams -> Nat]
  /\ profile \in [Players -> Profile]
  /\ status \in {"published", "active", "ended"}
  /\ touched \in SUBSET Challenges
  /\ linkLock \in [Challenges -> Requests \cup {Free}]
  /\ partLock \in [Teams -> Requests \cup {Free}]
  /\ pc \in [Requests -> PC]
  /\ ctx \in [Requests -> Context]
  /\ tx \in [Requests -> Local]

(* The challenges whose settings are those they were linked with. *)
Untouched == Linked \ touched

(***************************************************************************)
(* No team has two rows in solves for one challenge: the unique constraint *)
(* is never what stops a second solve, because the lookup happens under    *)
(* the lock of the link.                                                   *)
(***************************************************************************)
NoDoubleSolve ==
  \A c \in Challenges : \A i, j \in DOMAIN rows[c] :
    rows[c][i].team = rows[c][j].team => i = j

(***************************************************************************)
(* The counters kept in ctfs_challenges are those of the solves table.     *)
(***************************************************************************)
CountersAgree ==
  \A c \in Untouched :
    /\ link[c].solves = Len(rows[c])
    /\ link[c].attempts = Len(rows[c])

(***************************************************************************)
(* First blood belongs to the oldest solve and to no other.                *)
(***************************************************************************)
FirstBloodIsFirstSolve ==
  \A c \in Untouched :
    IF rows[c] = <<>> THEN link[c].firstBlood = NoTeam
                      ELSE link[c].firstBlood = rows[c][1].team

(* The reward when the i-th solver arrived, read back from its solve row. *)
RewardBefore(c, i) ==
  IF i > Len(rows[c]) THEN link[c].reward
  ELSE rows[c][i].score - (IF i = 1 THEN link[c].rewardFirstBlood ELSE 0)

(***************************************************************************)
(* The rewards the solvers were paid follow the decay rule one by one from *)
(* the first: no solve was paid from a reward another solve had already    *)
(* used, and the bonus was paid once.                                      *)
(***************************************************************************)
RewardChain ==
  \A c \in Untouched :
    /\ RewardBefore(c, 1) = link[c].initial
    /\ \A i \in DOMAIN rows[c] :
         RewardBefore(c, i + 1) \in
           DecayedReward(RewardBefore(c, i), link[c].rewardMin, link[c].decay, i - 1)

(***************************************************************************)
(* The reward stays between the one the challenge was linked with and its  *)
(* minimum.                                                                *)
(***************************************************************************)
RewardWithinBounds ==
  \A c \in Untouched :
    \/ link[c].rewardMin =< link[c].reward /\ link[c].reward =< link[c].initial
    \/ link[c].initial =< link[c].reward /\ link[c].reward =< link[c].rewardMin

(***************************************************************************)
(* max_teams is exceeded by at most the joins that read the count before   *)
(* the others inserted.                                                    *)
(***************************************************************************)
OverbookingBounded ==
  Cardinality(registered) =< MaxTeams + Cardinality(Requests) - 1

(***************************************************************************)
(* A link row locked by a submission does not change under it: the copy    *)
(* the handler computes with is current until it is written back.          *)
(***************************************************************************)
CopyIsCurrent ==
  \A q \in Requests : pc[q] \in {"locked", "attempted"} =>
    tx[q].link = [link[ctx[q].chall] EXCEPT !.attempts = @ + 1]

(***************************************************************************)
(* Every request is answered: deadlocks between submissions of different   *)
(* challenges are broken, and no row lock is left behind.                  *)
(***************************************************************************)
RequestsEnd == \A q \in Requests : pc[q] # "idle" ~> pc[q] = "idle"

(***************************************************************************)
(* Each committed operation is one step of the atomic specification.  The   *)
(* refinement mapping takes the committed tables as they are and forgets    *)
(* the requests: their steps, their copies and their locks.                 *)
(***************************************************************************)
Board == INSTANCE Scoreboard
           WITH link <- link, rows <- rows, registered <- registered, score <- score,
                solved <- solved, entries <- entries, profile <- profile
ImplementsScoreboard == Board!Spec

(***************************************************************************)
(* app/event/README.md:10 says of an ended event: "no more Submits         *)
(* allowed".  The status is read by the middleware and not again.          *)
(***************************************************************************)
NoSolveAfterEnd == [][\A c \in Challenges : rows'[c] # rows[c] => status = "active"]_vars
=============================================================================
