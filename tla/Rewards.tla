------------------------------- MODULE Rewards -------------------------------
(***************************************************************************)
(* The dynamic reward of a challenge linked to an event: one row of        *)
(* ctfs_challenges and what one more solve does to it.                     *)
(*                                                                         *)
(* CalculateNewReward works in float64.  Its result is the integer nearest *)
(* to an exact rational number; when two integers are equally near, the    *)
(* rounding error made on the way decides between them, so the operator    *)
(* returns the set of the nearest integers (one element, or two on a tie). *)
(***************************************************************************)
EXTENDS Integers

(***************************************************************************)
(* The columns an organizer chooses.  Rewards are not negative, as in the  *)
(* CHECK on challenges; a zero decay is what a request that does not name  *)
(* the column carries.                                                     *)
(***************************************************************************)
RewardConfig == [reward : Nat, rewardMin : Nat, rewardFirstBlood : Nat,
                 rewardDecrements : BOOLEAN, decay : Nat]

(* Mutant: a zero decay is stored as it is. *)
WithColumnDefaults_KeepsZeroDecay(cfg) ==
  [cfg EXCEPT !.reward = IF @ = 0 THEN 500 ELSE @, !.rewardDecrements = TRUE]

(***************************************************************************)
(* gorm replaces the zero value of a column with a default tag on Create:  *)
(* an organizer cannot link a challenge with reward 0, minimum 0 or a      *)
(* fixed reward, whatever the request says.                                *)
(***************************************************************************)
WithColumnDefaults(cfg) ==
  [reward           |-> IF cfg.reward = 0 THEN 500 ELSE cfg.reward,
   rewardMin        |-> IF cfg.rewardMin = 0 THEN 350 ELSE cfg.rewardMin,
   rewardFirstBlood |-> cfg.rewardFirstBlood,
   rewardDecrements |-> TRUE,
   decay            |-> IF cfg.decay = 0 THEN 30 ELSE cfg.decay]

(* The integers nearest to n / d, for d > 0. *)
Nearest(n, d) ==
  {k \in {n \div d, (n \div d) + 1} :
      /\ -d =< 2 * (n - k * d)
      /\ 2 * (n - k * d) =< d}

(* Mutant: the quotient of the two progresses is inverted. *)
DecayedReward_Inverted(reward, min, decay, s) ==
  IF s + 1 >= decay
  THEN {min}
  ELSE {min + k : k \in Nearest((reward - min) * (decay - s), decay - s - 1)}

(***************************************************************************)
(* The reward after the next solve of a challenge already solved s times.  *)
(***************************************************************************)
DecayedReward(reward, min, decay, s) ==
  IF s >= decay
  THEN {min}
  ELSE {min + k : k \in Nearest((reward - min) * (decay - s - 1), decay - s)}

CalculateNewReward(link) ==
  IF link.rewardDecrements
  THEN DecayedReward(link.reward, link.rewardMin, link.decay, link.solves)
  ELSE {link.reward}
=============================================================================
