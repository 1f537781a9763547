---------------------------- MODULE ScoringLedger ----------------------------
(***************************************************************************)
(* Balances: the totals the service keeps by increments, compared with the *)
(* same totals computed from the rows of solves.                           *)
(***************************************************************************)
EXTENDS ScoringProperties, Functions

(* Where t stands in the solves of c. *)
SolveIndex(t, c) == CHOOSE i \in DOMAIN rows[c] : rows[c][i].team = t
SolvedBy(t) == {c \in Challenges : t \in Solvers(rows[c])}

(* What t was paid for c when it solved it. *)
Paid(t, c) == rows[c][SolveIndex(t, c)].score

(***************************************************************************)
(* What c is worth to t: what it was paid, minus all that the reward has   *)
(* lost since its own solve.                                               *)
(***************************************************************************)
Worth(t, c) == Paid(t, c) - (RewardBefore(c, SolveIndex(t, c) + 1) - link[c].reward)

(* The links of the challenges t solved are as they were made, and no      *)
(* reward among them rises.                                                *)
Steady(t) ==
  /\ SolvedBy(t) \subseteq Untouched
  /\ \A c \in SolvedBy(t) : link[c].rewardMin =< link[c].initial

(* A team that joined once and solved only such challenges. *)
Settled(t) == entries[t] = 1 /\ Steady(t)

(***************************************************************************)
(* The score and the number of solves of a registered team that never left *)
(* are those its solves account for, as long as no organizer changed the   *)
(* challenges and rewards do not rise.                                     *)
(***************************************************************************)
ScoreLedger ==
  \A t \in registered :
    Settled(t) =>
      /\ score[t] = SumFunction([c \in SolvedBy(t) |-> Worth(t, c)])
      /\ solved[t] = Cardinality(SolvedBy(t))
=============================================================================
