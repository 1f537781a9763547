--------------------------------- MODULE Teams ---------------------------------
(***************************************************************************)
(* Teams in the user service: create, join, leave, kick, hand over, delete.*)
(*                                                                         *)
(* Every handler is one transaction at READ COMMITTED that takes no lock   *)
(* before it writes: it reads, checks what it read, and writes later.  A   *)
(* request is a read step and a write step.  The rows a transaction writes *)
(* stay locked until it commits, so its writes are one step, except those  *)
(* of route_team_delete: it selects requests, members and users in three   *)
(* statements, and other transactions commit in between.                   *)
(*                                                                         *)
(* Not part of the state: descriptions, notifications (but their inserts   *)
(* can fail and roll a transaction back: Abort) and copies of a request    *)
(* that was sent twice.                                                    *)
(***************************************************************************)
EXTENDS Integers, FiniteSets

CONSTANTS
  Teams,         \* team names
  Users,         \* users, identified with their usernames
  Requests,      \* the handlers that may be in flight together
  MaxCreated,    \* bound: teams that are created
  MaxDeletions,  \* bound: accounts that are deleted
  MaxLost,       \* bound: how far below zero members_count is followed
  Nobody,        \* the captain of a name no team has
  NoTeam         \* users.team_name is null

ASSUME TeamsAssumption ==
  /\ IsFiniteSet(Users)
  /\ {MaxCreated, MaxDeletions, MaxLost} \subseteq Nat
  /\ Nobody \notin Users /\ NoTeam \notin Teams

VARIABLES
  captain,    \* captain[t]: teams.captain_name, Nobody when there is no such team
  count,      \* count[t]: teams.members_count
  locked,     \* locked[t]: teams.is_locked
  id,         \* id[t]: teams.id, the teams created before it
  members,    \* members[t]: the rows of team_members
  applied,    \* applied[t]: the rows of team_join_requests
  home,       \* home[u]: users.team_name
  accounts,   \* the users that exist
  created, deleted,  \* counters of the bounds
  pc, tx      \* per handler: what it does next, and with what

teamVars == <<captain, count, locked, id, created>>
rowVars  == <<members, applied>>
userVars == <<home, accounts, deleted>>
dbVars   == <<teamVars, rowVars, userVars>>
vars     == <<dbVars, pc, tx>>

Writes == {"create", "leave", "kick", "handOver", "apply", "accept", "decline", "update",
           "delete", "deleteMembers", "clearUsers", "deleteTeam"}

(* u: the user the writes concern; rows, cleared: what a delete has locked. *)
Local == [team : Teams \cup {NoTeam}, user : Users \cup {Nobody}, id : Nat,
          rows : SUBSET Users, cleared : SUBSET Users]
NoTx  == [team |-> NoTeam, user |-> Nobody, id |-> 0, rows |-> {}, cleared |-> {}]

Exists(t) == captain[t] # Nobody

Init ==
  /\ captain = [t \in Teams |-> Nobody]
  /\ count = [t \in Teams |-> 0]
  /\ locked = [t \in Teams |-> FALSE]
  /\ id = [t \in Teams |-> 0]
  /\ members = [t \in Teams |-> {}]
  /\ applied = [t \in Teams |-> {}]
  /\ home = [u \in Users |-> NoTeam]
  /\ accounts = Users
  /\ created = 0 /\ deleted = 0
  /\ pc = [h \in Requests |-> "idle"]
  /\ tx = [h \in Requests |-> NoTx]
-----------------------------------------------------------------------------
(* The reads of a transaction have passed its checks. *)
Read(h, write, t, u) ==
  /\ pc[h] = "idle"
  /\ pc' = [pc EXCEPT ![h] = write]
  /\ tx' = [tx EXCEPT ![h] = [NoTx EXCEPT !.team = t, !.user = u, !.id = id[t]]]
  /\ UNCHANGED dbVars

EndRequest(h) ==
  /\ pc' = [pc EXCEPT ![h] = "idle"]
  /\ tx' = [tx EXCEPT ![h] = NoTx]

(* A constraint, a failed insert or a deadlock rolls the transaction back. *)
Abort(h) ==
  /\ pc[h] # "idle"
  /\ EndRequest(h)
  /\ UNCHANGED dbVars

(* No open delete of another handler has locked the rows of u. *)
RowsFree(h, t, u) ==
  \A d \in Requests \ {h} :
    u \notin tx[d].cleared /\ (tx[d].team = t => u \notin tx[d].rows)

(* The write step of h, with the rows of its user free. *)
Write(h, write) ==
  /\ pc[h] = write
  /\ RowsFree(h, tx[h].team, tx[h].user)
  /\ EndRequest(h)

(* One member less; the count goes wrong when a member is counted twice.   *)
CountDown(t) ==
  /\ Exists(t) => count[t] > -MaxLost
  /\ count' = [count EXCEPT ![t] = IF Exists(t) THEN @ - 1 ELSE @]

(* users.team_name of u, if the account still exists. *)
SetHome(u, t) == home' = [home EXCEPT ![u] = IF u \in accounts THEN t ELSE @]

(* Mutant: memberships and requests do not refer to the team. *)
DropTeams_NoCascade(S) ==
  /\ captain' = [t \in Teams |-> IF t \in S THEN Nobody ELSE captain[t]]
  /\ UNCHANGED rowVars

(* The row of the team goes, and by the foreign keys what refers to it. *)
DropTeams(S) ==
  /\ captain' = [t \in Teams |-> IF t \in S THEN Nobody ELSE captain[t]]
  /\ members' = [t \in Teams |-> IF t \in S THEN {} ELSE members[t]]
  /\ applied' = [t \in Teams |-> IF t \in S THEN {} ELSE applied[t]]
-----------------------------------------------------------------------------
createTeam_Read(h, u, t) ==
  /\ u \in accounts /\ home[u] = NoTeam
  /\ ~ Exists(t)
  /\ Read(h, "create", t, u)

createTeam(h) ==
  LET t == tx[h].team  u == tx[h].user IN
  /\ Write(h, "create")
  /\ ~ Exists(t) /\ u \in accounts
  /\ created < MaxCreated
  /\ created' = created + 1
  /\ captain' = [captain EXCEPT ![t] = u]
  /\ count' = [count EXCEPT ![t] = 1]
  /\ locked' = [locked EXCEPT ![t] = FALSE]
  /\ id' = [id EXCEPT ![t] = created + 1]
  /\ members' = [members EXCEPT ![t] = {u}]
  /\ SetHome(u, t)
  /\ UNCHANGED <<applied, accounts, deleted>>

(* A captain may leave only a team that counts one member. *)
leaveTeam_Read(h, u, t) ==
  /\ Exists(t) /\ u \in members[t]
  /\ captain[t] = u => count[t] = 1
  /\ Read(h, "leave", t, u)

(* The name is counted down whether or not the membership was still there; *)
(* at 0 the team that was read, if it is still this one, is deleted.       *)
leaveTeam(h) ==
  LET t == tx[h].team  u == tx[h].user IN
  /\ Write(h, "leave")
  /\ Exists(t)
  /\ CountDown(t)
  /\ SetHome(u, NoTeam)
  /\ IF count[t] = 1 /\ id[t] = tx[h].id
     THEN DropTeams({t})
     ELSE /\ members' = [members EXCEPT ![t] = @ \ {u}]
          /\ applied' = [applied EXCEPT ![t] = IF count[t] = 1 THEN {} ELSE @]
          /\ UNCHANGED captain
  /\ UNCHANGED <<locked, id, created, accounts, deleted>>

deleteMember_Read(h, c, t, u) ==
  /\ captain[t] = c /\ u \in members[t] /\ u # c
  /\ Read(h, "kick", t, u)

(* Mutant: the count is not updated. *)
deleteMember_NotCounted(h) ==
  LET t == tx[h].team  u == tx[h].user IN
  /\ Write(h, "kick")
  /\ members' = [members EXCEPT ![t] = @ \ {u}]
  /\ SetHome(u, NoTeam)
  /\ UNCHANGED <<teamVars, applied, accounts, deleted>>

deleteMember(h) ==
  LET t == tx[h].team  u == tx[h].user IN
  /\ Write(h, "kick")
  /\ members' = [members EXCEPT ![t] = @ \ {u}]
  /\ CountDown(t)
  /\ SetHome(u, NoTeam)
  /\ UNCHANGED <<captain, locked, id, created, applied, accounts, deleted>>

(* Mutant: anybody can be made captain. *)
handOverLeadership_ToAnyone(h, c, t, u) ==
  /\ captain[t] = c /\ u \in accounts
  /\ Read(h, "handOver", t, u)

handOverLeadership_Read(h, c, t, u) ==
  /\ captain[t] = c /\ u \in members[t]
  /\ Read(h, "handOver", t, u)

handOverLeadership(h) ==
  LET t == tx[h].team  u == tx[h].user IN
  /\ Write(h, "handOver")
  /\ u \in accounts
  /\ captain' = [captain EXCEPT ![t] = IF Exists(t) THEN u ELSE @]
  /\ UNCHANGED <<count, locked, id, created, rowVars, userVars>>

sendJoinRequest_Read(h, u, t) ==
  /\ u \in accounts /\ home[u] = NoTeam
  /\ Exists(t) /\ ~ locked[t] /\ u \notin applied[t]
  /\ Read(h, "apply", t, u)

sendJoinRequest(h) ==
  LET t == tx[h].team  u == tx[h].user IN
  /\ Write(h, "apply")
  /\ Exists(t) /\ u \in accounts
  /\ applied' = [applied EXCEPT ![t] = @ \cup {u}]
  /\ UNCHANGED <<teamVars, members, userVars>>

cancelJoinRequest(u, t) ==
  /\ u \in applied[t]
  /\ \A d \in Requests : tx[d].team = t => u \notin tx[d].rows
  /\ applied' = [applied EXCEPT ![t] = @ \ {u}]
  /\ UNCHANGED <<teamVars, members, userVars, pc, tx>>

acceptJoinRequest_Read(h, c, t, u) ==
  /\ u \in accounts /\ home[u] = NoTeam
  /\ captain[t] = c /\ ~ locked[t] /\ u \in applied[t]
  /\ Read(h, "accept", t, u)

(* Mutant: the row of users is forgotten. *)
acceptJoinRequest_NoHome(h) ==
  LET t == tx[h].team  u == tx[h].user IN
  /\ Write(h, "accept")
  /\ Exists(t) /\ u \in accounts /\ u \notin members[t]
  /\ applied' = [s \in Teams |-> applied[s] \ {u}]
  /\ members' = [members EXCEPT ![t] = @ \cup {u}]
  /\ count' = [count EXCEPT ![t] = @ + 1]
  /\ UNCHANGED <<captain, locked, id, created, userVars>>

(* Mutant: ON CONFLICT DO NOTHING, and the member counts twice. *)
acceptJoinRequest_Twice(h) ==
  LET t == tx[h].team  u == tx[h].user IN
  /\ Write(h, "accept")
  /\ Exists(t) /\ u \in accounts
  /\ applied' = [s \in Teams |-> applied[s] \ {u}]
  /\ members' = [members EXCEPT ![t] = @ \cup {u}]
  /\ count' = [count EXCEPT ![t] = @ + 1]
  /\ SetHome(u, t)
  /\ UNCHANGED <<captain, locked, id, created, accounts, deleted>>

(* The primary key of team_members refuses a second row. *)
acceptJoinRequest(h) ==
  LET t == tx[h].team  u == tx[h].user IN
  /\ Write(h, "accept")
  /\ Exists(t) /\ u \in accounts /\ u \notin members[t]
  /\ applied' = [s \in Teams |-> applied[s] \ {u}]
  /\ members' = [members EXCEPT ![t] = @ \cup {u}]
  /\ count' = [count EXCEPT ![t] = @ + 1]
  /\ SetHome(u, t)
  /\ UNCHANGED <<captain, locked, id, created, accounts, deleted>>

declineJoinRequest_Read(h, c, t, u) ==
  /\ captain[t] = c
  /\ Read(h, "decline", t, u)

declineJoinRequest(h) ==
  /\ Write(h, "decline")
  /\ applied' = [applied EXCEPT ![tx[h].team] = @ \ {tx[h].user}]
  /\ UNCHANGED <<teamVars, members, userVars>>

updateTeam_Read(h, c, t) ==
  /\ captain[t] = c
  /\ Read(h, "update", t, Nobody)

updateTeam(h, lock) ==
  LET t == tx[h].team IN
  /\ Write(h, "update")
  /\ locked' = [locked EXCEPT ![t] = IF Exists(t) THEN lock ELSE @]
  /\ UNCHANGED <<captain, count, id, created, rowVars, userVars>>
-----------------------------------------------------------------------------
(* A team nobody is a member of cannot be deleted: the list of users to    *)
(* notify is empty, which the insert rejects.                              *)
route_team_delete_Read(h, c, t) ==
  /\ captain[t] = c
  /\ members[t] # {}
  /\ Read(h, "delete", t, Nobody)

(* One DELETE or UPDATE of the transaction: it locks the rows it selects.  *)
LockRows(h, write, next, rows, cleared) ==
  LET t == tx[h].team IN
  /\ pc[h] = write
  /\ \A u \in rows \cup cleared : RowsFree(h, t, u)
  /\ pc' = [pc EXCEPT ![h] = next]
  /\ tx' = [tx EXCEPT ![h].rows = @ \cup rows, ![h].cleared = @ \cup cleared]
  /\ UNCHANGED dbVars

DeleteTeamRequests(h) ==
  LockRows(h, "delete", "deleteMembers", applied[tx[h].team], {})
DeleteTeamMembers(h) ==
  LockRows(h, "deleteMembers", "clearUsers", members[tx[h].team], {})
ClearTeamUsers(h) ==
  LockRows(h, "clearUsers", "deleteTeam", {}, {u \in accounts : home[u] = tx[h].team})

(* The team of that name goes, with the rows added to it since; COMMIT.    *)
route_team_delete(h) ==
  /\ pc[h] = "deleteTeam"
  /\ EndRequest(h)
  /\ DropTeams({tx[h].team})
  /\ home' = [u \in Users |-> IF u \in tx[h].cleared THEN NoTeam ELSE home[u]]
  /\ UNCHANGED <<count, locked, id, created, accounts, deleted>>

(* The foreign keys delete memberships, requests and teams with their      *)
(* captain; nobody counts a team down or clears users.team_name.           *)
route_user_delete(u) ==
  /\ u \in accounts
  /\ deleted < MaxDeletions
  /\ \A d \in Requests : u \notin tx[d].cleared \cup tx[d].rows
  /\ accounts' = accounts \ {u}
  /\ deleted' = deleted + 1
  /\ captain' = [t \in Teams |-> IF captain[t] = u THEN Nobody ELSE captain[t]]
  /\ members' = [t \in Teams |-> IF captain[t] = u THEN {} ELSE members[t] \ {u}]
  /\ applied' = [t \in Teams |-> IF captain[t] = u THEN {} ELSE applied[t] \ {u}]
  /\ home' = [home EXCEPT ![u] = NoTeam]
  /\ UNCHANGED <<count, locked, id, created, pc, tx>>
-----------------------------------------------------------------------------
MemberStep(h) ==
  \/ \E u \in Users, t \in Teams :
       \/ createTeam_Read(h, u, t) \/ leaveTeam_Read(h, u, t) \/ sendJoinRequest_Read(h, u, t)
  \/ createTeam(h) \/ leaveTeam(h) \/ sendJoinRequest(h)

CaptainStep(h) ==
  \/ \E c, u \in Users, t \in Teams :
       \/ deleteMember_Read(h, c, t, u) \/ handOverLeadership_Read(h, c, t, u)
       \/ acceptJoinRequest_Read(h, c, t, u) \/ declineJoinRequest_Read(h, c, t, u)
  \/ \E c \in Users, t \in Teams : updateTeam_Read(h, c, t) \/ route_team_delete_Read(h, c, t)
  \/ deleteMember(h) \/ handOverLeadership(h)
  \/ acceptJoinRequest(h) \/ declineJoinRequest(h)
  \/ \E lock \in BOOLEAN : updateTeam(h, lock)
  \/ DeleteTeamRequests(h) \/ DeleteTeamMembers(h)
  \/ ClearTeamUsers(h) \/ route_team_delete(h)

Next ==
  \/ \E h \in Requests : MemberStep(h) \/ CaptainStep(h) \/ Abort(h)
  \/ \E u \in Users, t \in Teams : cancelJoinRequest(u, t)
  \/ \E u \in Users : route_user_delete(u)

Spec == Init /\ [][Next]_vars
=============================================================================
