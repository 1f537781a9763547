------------------------------ MODULE Scoreboard ------------------------------
(***************************************************************************)
(* What the event service promises about the scores of one event, with     *)
(* every operation a single step on the committed tables.                  *)
(*                                                                         *)
(* This is the abstract specification: it knows no request, no row lock    *)
(* and no transaction.  Module Scoring, where a flag submission is a       *)
(* sequence of SQL statements interleaved with those of other requests,    *)
(* implements it.                                                          *)
(***************************************************************************)
EXTENDS ScoreTables
-----------------------------------------------------------------------------
Init == InitBoard

(***************************************************************************)
(* A correct flag: one row in solves, the reward moves, every registered   *)
(* team that solved the challenge before pays the difference, the team is  *)
(* credited, and so is the profile the token of the request names, if any. *)
(* A prior solver that left and joined again while the flag was processed  *)
(* may be spared.                                                          *)
(***************************************************************************)
Solve(t, c) ==
  /\ c \in Linked
  /\ t \notin Solvers(rows[c])
  /\ \E r \in CalculateNewReward(link[c]),
        spared \in SUBSET {v \in registered : entries[v] > 1},
        p \in Players \cup {NoPlayer} :
       LET points == PointsToAward(link[c])
           loss   == link[c].reward - r
           payers == IF loss > 0
                     THEN (registered \cap Solvers(rows[c])) \ spared
                     ELSE {}
       IN  /\ link' = [link EXCEPT ![c] = SolvedOnceMore(@, t, r)]
           /\ rows' = [rows EXCEPT ![c] = Append(@, [team |-> t, score |-> points])]
           /\ score' = [v \in Teams |-> ScoreAfter(v, t, points, payers, loss)]
           /\ solved' = [solved EXCEPT ![t] = IF t \in registered THEN @ + 1 ELSE @]
           /\ profile' = Credited(p, points)
  /\ UNCHANGED <<registered, entries>>

Join(t) ==
  /\ t \notin registered
  /\ registered' = registered \cup {t}
  /\ score' = [score EXCEPT ![t] = 0]
  /\ solved' = [solved EXCEPT ![t] = 0]
  /\ entries' = [entries EXCEPT ![t] = @ + 1]
  /\ UNCHANGED <<link, rows, profile>>

Leave(t) ==
  /\ t \in registered
  /\ registered' = registered \ {t}
  /\ UNCHANGED <<link, rows, score, solved, entries, profile>>

Link(c, cfg, k) ==
  /\ c \notin Linked
  /\ link' = [link EXCEPT ![c] = NewLink(WithColumnDefaults(cfg), k)]
  /\ UNCHANGED <<rows, registered, score, solved, entries, profile>>

Edit(c, cfg) ==
  /\ c \in Linked
  /\ cfg.decay > 0
  /\ \E k \in Presets \cup {CountersOf(link[c])} :
       link' = [link EXCEPT ![c] = WithSettings(@, cfg, k)]
  /\ UNCHANGED <<rows, registered, score, solved, entries, profile>>

Unlink(c) ==
  /\ c \in Linked
  /\ link' = [link EXCEPT ![c] = NoLink]
  /\ UNCHANGED <<rows, registered, score, solved, entries, profile>>

Next ==
  \/ \E t \in Teams : Join(t) \/ Leave(t)
  \/ \E t \in Teams, c \in Challenges : Solve(t, c)
  \/ \E c \in Challenges, cfg \in Configs :
        Edit(c, cfg) \/ \E k \in Presets : Link(c, cfg, k)
  \/ \E c \in Challenges : Unlink(c)

Spec == Init /\ [][Next]_boardVars
=============================================================================
