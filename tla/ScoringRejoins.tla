--------------------------- MODULE ScoringRejoins ---------------------------
(***************************************************************************)
(* Teams that leave an event and join it again.  Their rows in solves stay *)
(* while their participation starts from nothing, and later solvers of the *)
(* same challenges still charge them.  Module Scoring with one history     *)
(* variable, which no guard reads: what the solved challenges were worth   *)
(* when the team joined.                                                   *)
(***************************************************************************)
EXTENDS ScoringLedger

VARIABLE base  \* history: base[t][c]: the reward of c, solved before t joined

rejoinVars == <<vars, base>>

RejoinInit == Init /\ base = [t \in Teams |-> <<>>]

(* Only challenges nobody has edited are remembered: of the others nothing *)
(* is claimed.                                                             *)
RejoinNext ==
  /\ Next
  /\ base' = [t \in Teams |->
       IF t \in registered' \ registered
       THEN [c \in SolvedBy(t) \cap Untouched |-> link[c].reward]
       ELSE IF t \in registered' THEN base[t] ELSE <<>>]

RejoinSpec == RejoinInit /\ [][RejoinNext]_rejoinVars

(* What c adds to the score of t since t joined: a challenge solved before *)
(* only the loss of its reward since, another all it is worth.             *)
Owed(t, c) ==
  IF c \in DOMAIN base[t] THEN link[c].reward - base[t][c] ELSE Worth(t, c)

(***************************************************************************)
(* A team that joined again counts the solves it made since, and its score *)
(* is not below what they are worth minus what the challenges it had       *)
(* solved before have lost since: it pays for no decay of the time it was  *)
(* away or had another participation, and for none twice.  It may be       *)
(* spared: an UPDATE that began before it joined misses the new row.       *)
(***************************************************************************)
NeverOvercharged ==
  \A t \in registered :
    Steady(t) =>
      /\ score[t] >= SumFunction([c \in SolvedBy(t) |-> Owed(t, c)])
      /\ solved[t] = Cardinality(SolvedBy(t) \ DOMAIN base[t])
=============================================================================
