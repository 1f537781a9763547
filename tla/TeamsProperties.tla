---------------------------- MODULE TeamsProperties ----------------------------
(***************************************************************************)
(* What the tables of teams promise: see Teams.                            *)
(***************************************************************************)
EXTENDS Teams

VARIABLES
  overlapped,  \* history: two handlers were in flight together
  crossed      \* history: the teams in which two handlers that cross were

(* Two requests of t in flight that take each other's ground away: a user  *)
(* becomes captain, by hand-over or with a new team of the name, and       *)
(* leaves or is kicked; a hand-over meets a new team of the name; the      *)
(* captain leaves as the only member and the team counts another one, or   *)
(* one less.                                                               *)
Cross(t, g, h) ==
  /\ g # h /\ tx[g].team = t /\ tx[h].team = t
  /\ \/ /\ pc[g] \in {"handOver", "create"} /\ pc[h] \in {"leave", "kick"}
        /\ tx[g].user = tx[h].user
     \/ pc[g] = "handOver" /\ pc[h] = "create"
     \/ /\ pc[g] = "leave" /\ captain[t] = tx[g].user
        /\ pc[h] \in {"accept", "leave", "kick"}

Crossing(t) == \E g, h \in Requests : Cross(t, g, h)

SerialInit == Init /\ overlapped = FALSE /\ crossed = {}

SerialNext ==
  /\ Next
  /\ overlapped' = (\/ overlapped
                    \/ \E g, h \in Requests : g # h /\ "idle" \notin {pc'[g], pc'[h]})
  /\ crossed' = crossed \cup {t \in Teams : Crossing(t)'}

SerialSpec == SerialInit /\ [][SerialNext]_<<vars, overlapped, crossed>>
-----------------------------------------------------------------------------
(* Every variable has its type, and the foreign keys hold: what refers to  *)
(* a team or a user refers to one that exists.                             *)
TypeOK ==
  /\ captain \in [Teams -> accounts \cup {Nobody}]
  /\ count \in [Teams -> Int] /\ locked \in [Teams -> BOOLEAN] /\ id \in [Teams -> Nat]
  /\ members \in [Teams -> SUBSET accounts] /\ applied \in [Teams -> SUBSET accounts]
  /\ \A t \in Teams : ~ Exists(t) => members[t] = {} /\ applied[t] = {}
  /\ home \in [Users -> Teams \cup {NoTeam}] /\ accounts \subseteq Users
  /\ {created, deleted} \subseteq Nat
  /\ pc \in [Requests -> Writes \cup {"idle"}] /\ tx \in [Requests -> Local]

(* However requests interleave, members_count is never above the number of *)
(* members, but for the accounts that were deleted: no increment goes      *)
(* without its row, though a decrement may (team.ts).                      *)
CountNeverAbove ==
  \A t \in Teams : Exists(t) => count[t] <= Cardinality(members[t]) + deleted

(* The captain is a member of the team, however requests interleave and    *)
(* accounts are deleted, unless two requests of the team crossed: no check *)
(* of team.ts is made again when its transaction writes, and those pairs   *)
(* are all that can break it.                                              *)
CaptainIsMember ==
  \A t \in Teams \ crossed : Exists(t) => captain[t] \in members[t]

(***************************************************************************)
(* One request at a time, and no account deleted: the records of a         *)
(* membership agree after every request.                                   *)
(***************************************************************************)
Undisturbed == ~ overlapped /\ deleted = 0

(* teams.members_count is the number of rows of team_members.              *)
CountIsMembers ==
  Undisturbed => \A t \in Teams : Exists(t) => count[t] = Cardinality(members[t])

(* users.team_name names the team the user is a member of.                 *)
HomeAgrees ==
  Undisturbed => \A u \in accounts, t \in Teams : home[u] = t <=> u \in members[t]
-----------------------------------------------------------------------------
(* Violated.  The team that users.team_name names exists (team.ts:866      *)
(* calls it an invariant).                                                 *)
HomeExists ==
  \A u \in accounts : home[u] # NoTeam => Exists(home[u])

(* Violated.  leaveTeam deletes a team only with its last member.          *)
OnlyTheLastDeletes ==
  [][\A h \in Requests, t \in Teams :
       leaveTeam(h) /\ tx[h].team = t /\ captain'[t] = Nobody
         => members[t] \subseteq {tx[h].user}]_vars
=============================================================================
