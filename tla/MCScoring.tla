------------------------------ MODULE MCScoring ------------------------------
(* Small instances of Scoring for TLC. *)
EXTENDS ScoringLedger, TLC

(* Two solves bring the reward from 5 to its minimum. *)
Decaying == [reward |-> 5, rewardMin |-> 1, rewardFirstBlood |-> 2,
             rewardDecrements |-> TRUE, decay |-> 2]
(* Six, then five or four (a tie), and the minimum at the third solve. *)
Tie == [reward |-> 6, rewardMin |-> 1, rewardFirstBlood |-> 1,
        rewardDecrements |-> TRUE, decay |-> 3]
(* Every column takes its default: the minimum, 350, is above the reward. *)
Defaulted == [reward |-> 300, rewardMin |-> 0, rewardFirstBlood |-> 0,
              rewardDecrements |-> FALSE, decay |-> 0]

OneConfig == {Decaying}
TieConfig == {Tie}
TwoConfigs == {Decaying, Defaulted}

NoPresets == {NoCounters}
(* A request that sets the counters itself. *)
SomePresets == {NoCounters, [NoCounters EXCEPT !.attempts = 1, !.solves = 1]}

Symmetry == Permutations(Teams) \cup Permutations(Challenges) \cup Permutations(Requests)

(***************************************************************************)
(* A running contest: the teams have joined, the challenges are linked,    *)
(* the organizers only start and stop it.                                  *)
(***************************************************************************)
ContestInit ==
  /\ \E cfg \in Configs :
       link = [c \in Challenges |-> NewLink(WithColumnDefaults(cfg), NoCounters)]
  /\ rows = [c \in Challenges |-> <<>>]
  /\ registered = Teams
  /\ score = [t \in Teams |-> 0]
  /\ solved = [t \in Teams |-> 0]
  /\ entries = [t \in Teams |-> 1]
  /\ profile = [p \in Players |-> [points |-> 0, solved |-> 0]]
  /\ status = "active"
  /\ touched = {}
  /\ linkLock = [c \in Challenges |-> Free]
  /\ partLock = [t \in Teams |-> Free]
  /\ pc = [q \in Requests |-> "idle"]
  /\ ctx = [q \in Requests |-> NoContext]
  /\ tx = [q \in Requests |-> NoLocal]

ContestNext ==
  \/ \E q \in Requests, t \in Teams : PlayerAuth(q, t) \/ ChargeSolver(q, t)
  \/ \E q \in Requests, c \in Challenges, correct \in BOOLEAN :
        EnsureEventAccess(q, c, correct)
  \/ \E q \in Requests :
        \/ LockLink(q) \/ TouchParticipation(q)
        \/ RejectFlag(q) \/ ScoreSolve(q) \/ RecordSolve(q)
        \/ DeadlockAbort(q)
  \/ StartEvent \/ StopEvent \/ Restart

ContestSpec == ContestInit /\ [][ContestNext]_vars

(***************************************************************************)
(* The same, fair, for the teams that are in a full event; or, before it   *)
(* starts, the registration: every team may join and leave.                *)
(***************************************************************************)
FullHouse == CHOOSE S \in SUBSET Teams : Cardinality(S) = MaxTeams

AnswersInit ==
  \/ Init
  \/ /\ registered = FullHouse
     /\ \E cfg \in Configs :
          link = [c \in Challenges |-> NewLink(WithColumnDefaults(cfg), NoCounters)]
     /\ rows = [c \in Challenges |-> <<>>]
     /\ score = [t \in Teams |-> 0]
     /\ solved = [t \in Teams |-> 0]
     /\ entries = [t \in Teams |-> IF t \in registered THEN 1 ELSE 0]
     /\ profile = [p \in Players |-> [points |-> 0, solved |-> 0]]
     /\ status = "active"
     /\ touched = {}
     /\ linkLock = [c \in Challenges |-> Free]
     /\ partLock = [t \in Teams |-> Free]
     /\ pc = [q \in Requests |-> "idle"]
     /\ ctx = [q \in Requests |-> NoContext]
     /\ tx = [q \in Requests |-> NoLocal]

AnswersNext ==
  \/ Linked # {} /\ ContestNext /\ \A q \in Requests : ctx'[q].team \in FullHouse \cup {NoTeam}
  \/ /\ Linked = {}
     /\ \/ \E q \in Requests, t \in Teams : PlayerAuth(q, t)
        \/ \E q \in Requests : Compute(q) \/ Restart

AnswersSpec == AnswersInit /\ [][AnswersNext]_vars /\ Fairness
=============================================================================
