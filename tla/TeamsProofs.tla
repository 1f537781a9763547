------------------------------ MODULE TeamsProofs ------------------------------
(***************************************************************************)
(* For any number of teams, users and requests: types, foreign keys and    *)
(* the bound on members_count; the tables that agree while requests come   *)
(* one by one; the captain who is a member while no requests cross.        *)
(***************************************************************************)
EXTENDS TeamsProperties, FiniteSetTheorems, TLAPS

(* A request that is to write has read a team, and a user if it needs one. *)
UserWrites == {"create", "leave", "kick", "handOver", "apply", "accept", "decline"}

TxFilled ==
  \A h \in Requests :
    /\ pc[h] # "idle" => tx[h].team \in Teams
    /\ pc[h] \in UserWrites => tx[h].user \in Users

TInv == TypeOK /\ TxFilled
IInv == TInv /\ CountNeverAbove

LEMMA NoTxIsLocal == NoTx \in Local
BY DEF NoTx, Local

LEMMA InitHolds == Init => IInv
<1> SUFFICES ASSUME Init PROVE IInv
  OBVIOUS
<1>1. tx \in [Requests -> Local] /\ pc \in [Requests -> Writes \cup {"idle"}]
  BY NoTxIsLocal DEF Init
<1>2. TypeOK
  BY <1>1 DEF Init, TypeOK, Exists
<1>3. TxFilled
  BY DEF Init, TxFilled, UserWrites
<1>4. CountNeverAbove
  BY DEF Init, CountNeverAbove, Exists
<1> QED
  BY <1>2, <1>3, <1>4 DEF IInv, TInv

(* The control state after a read step and after the end of a request. *)
LEMMA ReadKeeps ==
  ASSUME IInv, NEW h \in Requests, NEW w \in Writes, NEW t \in Teams, NEW u \in Users \cup {Nobody},
         w \in UserWrites => u \in Users,
         Read(h, w, t, u)
  PROVE  IInv'
<1>0. /\ TypeOK /\ TxFilled /\ CountNeverAbove /\ id[t] \in Nat
      /\ pc \in [Requests -> Writes \cup {"idle"}] /\ tx \in [Requests -> Local]
  BY DEF IInv, TInv, TypeOK
<1> DEFINE x == [NoTx EXCEPT !.team = t, !.user = u, !.id = id[t]]
<1>1. x \in Local /\ x.team = t /\ x.user = u
  BY <1>0 DEF NoTx, Local
<1>2. pc' = [pc EXCEPT ![h] = w] /\ tx' = [tx EXCEPT ![h] = x] /\ UNCHANGED dbVars
  BY DEF Read
<1>3. TypeOK'
  BY <1>0, <1>1, <1>2 DEF TypeOK, Exists, dbVars, teamVars, rowVars, userVars
<1>4. TxFilled'
  BY <1>0, <1>1, <1>2 DEF TxFilled
<1>5. CountNeverAbove'
  BY <1>0, <1>2 DEF CountNeverAbove, Exists, dbVars, teamVars, rowVars, userVars
<1> QED
  BY <1>3, <1>4, <1>5 DEF IInv, TInv

LEMMA EndKeeps ==
  ASSUME TypeOK, TxFilled, NEW h \in Requests, EndRequest(h)
  PROVE  /\ pc' \in [Requests -> Writes \cup {"idle"}] /\ tx' \in [Requests -> Local]
         /\ TxFilled'
<1>1. pc \in [Requests -> Writes \cup {"idle"}] /\ tx \in [Requests -> Local]
  BY DEF TypeOK
<1> QED
  BY <1>1, NoTxIsLocal DEF EndRequest, TxFilled, UserWrites

(* Cardinalities: a team's members are a finite set; removing a member     *)
(* takes at most one away, adding a new one adds one.                      *)
LEMMA MembersFinite ==
  ASSUME TypeOK, NEW t \in Teams
  PROVE  IsFiniteSet(members[t]) /\ Cardinality(members[t]) \in Nat
<1>1. members[t] \subseteq Users
  BY DEF TypeOK
<1> QED
  BY <1>1, TeamsAssumption, FS_Subset, FS_CardinalityType

LEMMA RemoveOne ==
  ASSUME NEW S, IsFiniteSet(S), NEW u
  PROVE  /\ Cardinality(S \ {u}) \in Nat /\ IsFiniteSet(S \ {u})
         /\ Cardinality(S \ {u}) >= Cardinality(S) - 1
<1>1. Cardinality(S) \in Nat
  BY FS_CardinalityType
<1>2. IsFiniteSet(S \ {u}) /\ Cardinality(S \ {u}) = IF u \in S THEN Cardinality(S) - 1 ELSE Cardinality(S)
  BY FS_RemoveElement
<1>3. Cardinality(S \ {u}) \in Nat
  BY <1>2, FS_CardinalityType
<1> QED
  BY <1>1, <1>2, <1>3

(* The end of a request and a change of the tables that keeps them well    *)
(* typed and no team over-counted.                                         *)
LEMMA CommitKeeps ==
  ASSUME IInv, NEW h \in Requests, EndRequest(h),
         NEW f \in [Teams -> accounts' \cup {Nobody}], captain' = f,
         count' \in [Teams -> Int], locked' \in [Teams -> BOOLEAN], id' \in [Teams -> Nat],
         members' \in [Teams -> SUBSET accounts'], applied' \in [Teams -> SUBSET accounts'],
         \A t \in Teams : f[t] = Nobody => members'[t] = {} /\ applied'[t] = {},
         home' \in [Users -> Teams \cup {NoTeam}], accounts' \subseteq Users,
         created' \in Nat, deleted' \in Nat,
         \A t \in Teams : f[t] # Nobody => count'[t] <= Cardinality(members'[t]) + deleted'
  PROVE  IInv'
<1>1. TypeOK /\ TxFilled
  BY DEF IInv, TInv
<1>2. /\ pc' \in [Requests -> Writes \cup {"idle"}] /\ tx' \in [Requests -> Local]
      /\ TxFilled'
  BY <1>1, EndKeeps
<1>3. TypeOK'
  BY <1>2 DEF TypeOK, Exists
<1>4. CountNeverAbove'
  BY DEF CountNeverAbove, Exists
<1> QED
  BY <1>2, <1>3, <1>4 DEF IInv, TInv

(* What the write steps below start from. *)
LEMMA WriteHas ==
  ASSUME IInv, NEW h \in Requests, NEW w \in Writes, Write(h, w)
  PROVE  /\ EndRequest(h) /\ pc[h] = w /\ tx[h].team \in Teams
         /\ w \in UserWrites => tx[h].user \in Users
BY DEF IInv, TInv, TxFilled, Write, Writes
-----------------------------------------------------------------------------
(* One lemma per write step. *)
LEMMA CreateKeeps ==
  ASSUME IInv, NEW h \in Requests, createTeam(h)
  PROVE  IInv'
<1> DEFINE t == tx[h].team
           u == tx[h].user
<1>1. EndRequest(h) /\ t \in Teams /\ u \in Users
  BY WriteHas DEF createTeam, Writes, UserWrites
<1>2. TypeOK /\ CountNeverAbove /\ u \in accounts
  BY DEF IInv, TInv, createTeam
<1>3. Cardinality({u}) = 1
  BY FS_Singleton
<1>4. /\ captain' = [captain EXCEPT ![t] = u] /\ members' = [members EXCEPT ![t] = {u}]
      /\ count' = [count EXCEPT ![t] = 1] /\ UNCHANGED <<applied, accounts, deleted>>
  BY DEF createTeam
<1>5. /\ captain' \in [Teams -> accounts' \cup {Nobody}] /\ count' \in [Teams -> Int]
      /\ members' \in [Teams -> SUBSET accounts'] /\ applied' \in [Teams -> SUBSET accounts']
      /\ accounts' \subseteq Users
  BY <1>1, <1>2, <1>4 DEF TypeOK
<1>6. /\ locked' \in [Teams -> BOOLEAN] /\ id' \in [Teams -> Nat]
      /\ created' \in Nat /\ deleted' \in Nat
  BY <1>1, <1>2 DEF TypeOK, createTeam
<1>7. home' \in [Users -> Teams \cup {NoTeam}]
  BY <1>1, <1>2 DEF TypeOK, createTeam, SetHome
<1>8. \A s \in Teams : captain'[s] = Nobody => members'[s] = {} /\ applied'[s] = {}
  BY <1>1, <1>2, <1>4, TeamsAssumption DEF TypeOK, Exists
<1>9. \A s \in Teams : captain'[s] # Nobody => count'[s] <= Cardinality(members'[s]) + deleted'
  <2> SUFFICES ASSUME NEW s \in Teams, captain'[s] # Nobody
               PROVE  count'[s] <= Cardinality(members'[s]) + deleted'
    OBVIOUS
  <2>1. CASE s = t
    <3>1. count'[s] = 1 /\ deleted' \in Nat
      BY <1>1, <1>2, <1>4, <1>6, <2>1 DEF TypeOK
    <3>2. members'[s] = {u}
      BY <1>1, <1>2, <1>4, <2>1 DEF TypeOK
    <3>3. Cardinality(members'[s]) = Cardinality({u})
      BY <3>2, Zenon
    <3>4. Cardinality(members'[s]) = 1
      BY <1>3, <3>3, Zenon
    <3>5. \A k, d \in Nat : k = 1 => 1 <= k + d
      OBVIOUS
    <3>6. 1 <= Cardinality(members'[s]) + deleted'
      BY <3>1, <3>4, <3>5
    <3> QED
      BY <3>1, <3>6
  <2>2. CASE s # t
    BY <1>1, <1>2, <1>4, <2>2 DEF TypeOK, CountNeverAbove, Exists
  <2> QED
    BY <2>1, <2>2
<1> QED
  BY <1>1, <1>5, <1>6, <1>7, <1>8, <1>9, CommitKeeps

(* Removing one user from one team and counting it down if it is there. *)
LEMMA CountDownKeeps ==
  ASSUME TypeOK, CountNeverAbove, NEW t \in Teams, NEW u \in Users, CountDown(t),
         members' = [members EXCEPT ![t] = @ \ {u}], UNCHANGED deleted
  PROVE  /\ count' \in [Teams -> Int]
         /\ \A s \in Teams : Exists(s) => count'[s] <= Cardinality(members'[s]) + deleted'
<1>1. count' = [count EXCEPT ![t] = IF Exists(t) THEN @ - 1 ELSE @] /\ count' \in [Teams -> Int]
  BY DEF CountDown, TypeOK
<1> SUFFICES ASSUME NEW s \in Teams, Exists(s)
             PROVE  count'[s] <= Cardinality(members'[s]) + deleted'
  BY <1>1
<1>2. count[s] <= Cardinality(members[s]) + deleted /\ count[s] \in Int /\ deleted \in Nat
  BY DEF CountNeverAbove, TypeOK
<1>3. CASE s = t
  <2>1. count'[s] = count[s] - 1 /\ members'[s] = members[s] \ {u}
    BY <1>1, <1>3 DEF TypeOK
  <2>2. IsFiniteSet(members[s]) /\ Cardinality(members[s]) \in Nat
    BY MembersFinite
  <2>3. Cardinality(members[s] \ {u}) \in Nat /\ Cardinality(members[s] \ {u}) >= Cardinality(members[s]) - 1
    BY <2>2, RemoveOne
  <2>4. Cardinality(members'[s]) = Cardinality(members[s] \ {u})
    BY <2>1, Zenon
  <2> QED
    BY <1>2, <1>3, <2>1, <2>2, <2>3, <2>4
<1>4. CASE s # t
  BY <1>1, <1>2, <1>4 DEF TypeOK
<1> QED
  BY <1>3, <1>4

LEMMA KickKeeps ==
  ASSUME IInv, NEW h \in Requests, deleteMember(h)
  PROVE  IInv'
<1> DEFINE t == tx[h].team
           u == tx[h].user
<1>1. EndRequest(h) /\ t \in Teams /\ u \in Users
  BY WriteHas DEF deleteMember, Writes, UserWrites
<1>2. TypeOK /\ CountNeverAbove
  BY DEF IInv, TInv
<1>3. /\ members' = [members EXCEPT ![t] = @ \ {u}] /\ CountDown(t) /\ SetHome(u, NoTeam)
      /\ UNCHANGED <<captain, locked, id, created, applied, accounts, deleted>>
  BY DEF deleteMember
<1>4. /\ count' \in [Teams -> Int]
      /\ \A s \in Teams : Exists(s) => count'[s] <= Cardinality(members'[s]) + deleted'
  BY <1>1, <1>2, <1>3, CountDownKeeps
<1>5. home' \in [Users -> Teams \cup {NoTeam}]
  BY <1>1, <1>2, <1>3 DEF TypeOK, SetHome
<1>6. /\ captain' \in [Teams -> accounts' \cup {Nobody}]
      /\ members' \in [Teams -> SUBSET accounts'] /\ applied' \in [Teams -> SUBSET accounts']
      /\ accounts' \subseteq Users /\ created' \in Nat /\ deleted' \in Nat
      /\ locked' \in [Teams -> BOOLEAN] /\ id' \in [Teams -> Nat]
  BY <1>1, <1>2, <1>3 DEF TypeOK
<1>7. \A s \in Teams : captain'[s] = Nobody => members'[s] = {} /\ applied'[s] = {}
  BY <1>1, <1>2, <1>3 DEF TypeOK, Exists
<1> QED
  BY <1>1, <1>3, <1>4, <1>5, <1>6, <1>7, CommitKeeps DEF Exists

(* A team that goes takes its memberships and requests with it. *)
LEMMA DropKeeps ==
  ASSUME TypeOK, NEW S \in SUBSET Teams, DropTeams(S), UNCHANGED accounts
  PROVE  /\ captain' \in [Teams -> accounts' \cup {Nobody}]
         /\ members' \in [Teams -> SUBSET accounts'] /\ applied' \in [Teams -> SUBSET accounts']
         /\ \A s \in Teams : captain'[s] = Nobody => members'[s] = {} /\ applied'[s] = {}
         /\ \A s \in Teams : captain'[s] # Nobody => s \notin S /\ Exists(s) /\ members'[s] = members[s]
BY DEF TypeOK, DropTeams, Exists

LEMMA LeaveKeeps ==
  ASSUME IInv, NEW h \in Requests, leaveTeam(h)
  PROVE  IInv'
<1> DEFINE t == tx[h].team
           u == tx[h].user
<1>1. EndRequest(h) /\ t \in Teams /\ u \in Users
  BY WriteHas DEF leaveTeam, Writes, UserWrites
<1>2. TypeOK /\ CountNeverAbove /\ Exists(t)
  BY DEF IInv, TInv, leaveTeam
<1>3. /\ CountDown(t) /\ SetHome(u, NoTeam)
      /\ UNCHANGED <<locked, id, created, accounts, deleted>>
  BY DEF leaveTeam
<1>4. home' \in [Users -> Teams \cup {NoTeam}]
  BY <1>1, <1>2, <1>3 DEF TypeOK, SetHome
<1>5. /\ locked' \in [Teams -> BOOLEAN] /\ id' \in [Teams -> Nat]
      /\ accounts' \subseteq Users /\ created' \in Nat /\ deleted' \in Nat
  BY <1>2, <1>3 DEF TypeOK
<1>6. CASE count[t] = 1 /\ id[t] = tx[h].id
  <2>1. DropTeams({t})
    BY <1>6 DEF leaveTeam
  <2>2. /\ captain' \in [Teams -> accounts' \cup {Nobody}]
        /\ members' \in [Teams -> SUBSET accounts'] /\ applied' \in [Teams -> SUBSET accounts']
        /\ \A s \in Teams : captain'[s] = Nobody => members'[s] = {} /\ applied'[s] = {}
        /\ \A s \in Teams : captain'[s] # Nobody => s \notin {t} /\ Exists(s) /\ members'[s] = members[s]
    BY <1>1, <1>2, <1>3, <2>1, DropKeeps
  <2>3. count' = [count EXCEPT ![t] = @ - 1] /\ count' \in [Teams -> Int]
    BY <1>1, <1>2, <1>3 DEF CountDown, TypeOK
  <2>4. \A s \in Teams : captain'[s] # Nobody => count'[s] <= Cardinality(members'[s]) + deleted'
    BY <1>2, <1>3, <2>2, <2>3 DEF CountNeverAbove, TypeOK
  <2> QED
    BY <1>1, <1>4, <1>5, <2>2, <2>3, <2>4, CommitKeeps
<1>7. CASE ~ (count[t] = 1 /\ id[t] = tx[h].id)
  <2>1. /\ members' = [members EXCEPT ![t] = @ \ {u}]
        /\ applied' = [applied EXCEPT ![t] = IF count[t] = 1 THEN {} ELSE @]
        /\ UNCHANGED captain
    BY <1>7 DEF leaveTeam
  <2>2. /\ count' \in [Teams -> Int]
        /\ \A s \in Teams : Exists(s) => count'[s] <= Cardinality(members'[s]) + deleted'
    BY <1>1, <1>2, <1>3, <2>1, CountDownKeeps
  <2>3. /\ captain' \in [Teams -> accounts' \cup {Nobody}]
        /\ members' \in [Teams -> SUBSET accounts'] /\ applied' \in [Teams -> SUBSET accounts']
    BY <1>1, <1>2, <1>3, <2>1 DEF TypeOK
  <2>4. \A s \in Teams : captain'[s] = Nobody => members'[s] = {} /\ applied'[s] = {}
    BY <1>1, <1>2, <2>1 DEF TypeOK, Exists
  <2> QED
    BY <1>1, <1>4, <1>5, <2>1, <2>2, <2>3, <2>4, CommitKeeps DEF Exists
<1> QED
  BY <1>6, <1>7

LEMMA HandOverKeeps ==
  ASSUME IInv, NEW h \in Requests, handOverLeadership(h)
  PROVE  IInv'
<1> DEFINE t == tx[h].team
           u == tx[h].user
<1>1. EndRequest(h) /\ t \in Teams
  BY WriteHas DEF handOverLeadership, Writes, UserWrites
<1>2. TypeOK /\ CountNeverAbove
  BY DEF IInv, TInv
<1>3. /\ u \in accounts /\ captain' = [captain EXCEPT ![t] = IF Exists(t) THEN u ELSE @]
      /\ UNCHANGED <<count, locked, id, created, members, applied, home, accounts, deleted>>
  BY DEF handOverLeadership, rowVars, userVars
<1>4. captain' \in [Teams -> accounts' \cup {Nobody}]
  BY <1>1, <1>2, <1>3 DEF TypeOK
<1>5. \A s \in Teams : captain'[s] # Nobody <=> Exists(s)
  BY <1>1, <1>2, <1>3, TeamsAssumption DEF TypeOK, Exists
<1> QED
  BY <1>1, <1>2, <1>3, <1>4, <1>5, CommitKeeps DEF TypeOK, CountNeverAbove, Exists

(* A step that changes no team's captain, count or members.                *)
LEMMA RequestRowsKeep ==
  ASSUME IInv, NEW h \in Requests, EndRequest(h),
         UNCHANGED <<captain, count, id, created, members, userVars>>,
         locked' \in [Teams -> BOOLEAN], applied' \in [Teams -> SUBSET accounts],
         \A t \in Teams : ~ Exists(t) => applied'[t] = {}
  PROVE  IInv'
<1>1. TypeOK /\ CountNeverAbove
  BY DEF IInv, TInv
<1> QED
  BY <1>1, CommitKeeps DEF TypeOK, CountNeverAbove, Exists, userVars

LEMMA ApplyKeeps ==
  ASSUME IInv, NEW h \in Requests, sendJoinRequest(h)
  PROVE  IInv'
<1>1. EndRequest(h) /\ tx[h].team \in Teams
  BY WriteHas DEF sendJoinRequest, Writes, UserWrites
<1>2. TypeOK
  BY DEF IInv, TInv
<1>3. /\ applied' \in [Teams -> SUBSET accounts] /\ locked' \in [Teams -> BOOLEAN]
      /\ \A t \in Teams : ~ Exists(t) => applied'[t] = {}
  BY <1>1, <1>2 DEF sendJoinRequest, TypeOK, teamVars
<1> QED
  BY <1>1, <1>3, RequestRowsKeep DEF sendJoinRequest, teamVars

LEMMA DeclineKeeps ==
  ASSUME IInv, NEW h \in Requests, declineJoinRequest(h)
  PROVE  IInv'
<1>1. EndRequest(h) /\ tx[h].team \in Teams
  BY WriteHas DEF declineJoinRequest, Writes, UserWrites
<1>2. TypeOK
  BY DEF IInv, TInv
<1>3. /\ applied' \in [Teams -> SUBSET accounts] /\ locked' \in [Teams -> BOOLEAN]
      /\ \A t \in Teams : ~ Exists(t) => applied'[t] = {}
  BY <1>1, <1>2 DEF declineJoinRequest, TypeOK, teamVars
<1> QED
  BY <1>1, <1>3, RequestRowsKeep DEF declineJoinRequest, teamVars

LEMMA UpdateKeeps ==
  ASSUME IInv, NEW h \in Requests, NEW lock \in BOOLEAN, updateTeam(h, lock)
  PROVE  IInv'
<1>1. EndRequest(h) /\ tx[h].team \in Teams
  BY WriteHas DEF updateTeam, Writes, UserWrites
<1>2. TypeOK
  BY DEF IInv, TInv
<1>3. /\ applied' \in [Teams -> SUBSET accounts] /\ locked' \in [Teams -> BOOLEAN]
      /\ \A t \in Teams : ~ Exists(t) => applied'[t] = {}
  BY <1>1, <1>2 DEF updateTeam, TypeOK, rowVars
<1> QED
  BY <1>1, <1>3, RequestRowsKeep DEF updateTeam, rowVars

LEMMA AbortKeeps ==
  ASSUME IInv, NEW h \in Requests, Abort(h)
  PROVE  IInv'
<1>1. TypeOK /\ CountNeverAbove /\ EndRequest(h) /\ UNCHANGED dbVars
  BY DEF IInv, TInv, Abort
<1> QED
  BY <1>1, RequestRowsKeep DEF TypeOK, dbVars, teamVars, rowVars

LEMMA AcceptKeeps ==
  ASSUME IInv, NEW h \in Requests, acceptJoinRequest(h)
  PROVE  IInv'
<1> DEFINE t == tx[h].team
           u == tx[h].user
<1>1. EndRequest(h) /\ t \in Teams /\ u \in Users
  BY WriteHas DEF acceptJoinRequest, Writes, UserWrites
<1>2. TypeOK /\ CountNeverAbove
  BY DEF IInv, TInv
<1>3. /\ Exists(t) /\ u \in accounts /\ u \notin members[t]
      /\ applied' = [s \in Teams |-> applied[s] \ {u}]
      /\ members' = [members EXCEPT ![t] = @ \cup {u}]
      /\ count' = [count EXCEPT ![t] = @ + 1]
      /\ SetHome(u, t)
      /\ UNCHANGED <<captain, locked, id, created, accounts, deleted>>
  BY DEF acceptJoinRequest
<1>4. home' \in [Users -> Teams \cup {NoTeam}]
  BY <1>1, <1>2, <1>3 DEF TypeOK, SetHome
<1>5. /\ captain' \in [Teams -> accounts' \cup {Nobody}] /\ count' \in [Teams -> Int]
      /\ members' \in [Teams -> SUBSET accounts'] /\ applied' \in [Teams -> SUBSET accounts']
      /\ accounts' \subseteq Users /\ created' \in Nat /\ deleted' \in Nat
      /\ locked' \in [Teams -> BOOLEAN] /\ id' \in [Teams -> Nat]
  BY <1>1, <1>2, <1>3 DEF TypeOK
<1>6. \A s \in Teams : captain'[s] = Nobody => members'[s] = {} /\ applied'[s] = {}
  BY <1>1, <1>2, <1>3 DEF TypeOK, Exists
<1>7. \A s \in Teams : captain'[s] # Nobody => count'[s] <= Cardinality(members'[s]) + deleted'
  <2> SUFFICES ASSUME NEW s \in Teams, Exists(s)
               PROVE  count'[s] <= Cardinality(members'[s]) + deleted'
    BY <1>3 DEF Exists
  <2>1. count[s] <= Cardinality(members[s]) + deleted /\ count[s] \in Int /\ deleted \in Nat
    BY <1>2 DEF CountNeverAbove, TypeOK
  <2>2. CASE s = t
    <3>1. count'[s] = count[s] + 1 /\ members'[s] = members[s] \cup {u}
      BY <1>1, <1>2, <1>3, <2>2 DEF TypeOK
    <3>2. IsFiniteSet(members[s]) /\ Cardinality(members[s]) \in Nat
      BY <1>2, MembersFinite
    <3>3. Cardinality(members[s] \cup {u}) = Cardinality(members[s]) + 1
      BY <1>3, <2>2, <3>2, FS_AddElement
    <3>4. Cardinality(members'[s]) = Cardinality(members[s] \cup {u})
      BY <3>1, Zenon
    <3> QED
      BY <1>3, <2>1, <3>1, <3>2, <3>3, <3>4
  <2>3. CASE s # t
    BY <1>2, <1>3, <2>1, <2>3 DEF TypeOK
  <2> QED
    BY <2>2, <2>3
<1> QED
  BY <1>1, <1>4, <1>5, <1>6, <1>7, CommitKeeps

LEMMA TeamDeleteKeeps ==
  ASSUME IInv, NEW h \in Requests, route_team_delete(h)
  PROVE  IInv'
<1> DEFINE t == tx[h].team
<1>1. EndRequest(h) /\ t \in Teams /\ TypeOK /\ CountNeverAbove
  BY DEF route_team_delete, IInv, TInv, TxFilled
<1>2. /\ DropTeams({t}) /\ UNCHANGED <<count, locked, id, created, accounts, deleted>>
      /\ home' = [u \in Users |-> IF u \in tx[h].cleared THEN NoTeam ELSE home[u]]
  BY DEF route_team_delete
<1>3. /\ captain' \in [Teams -> accounts' \cup {Nobody}]
      /\ members' \in [Teams -> SUBSET accounts'] /\ applied' \in [Teams -> SUBSET accounts']
      /\ \A s \in Teams : captain'[s] = Nobody => members'[s] = {} /\ applied'[s] = {}
      /\ \A s \in Teams : captain'[s] # Nobody => Exists(s) /\ members'[s] = members[s]
  BY <1>1, <1>2, DropKeeps
<1>4. home' \in [Users -> Teams \cup {NoTeam}]
  BY <1>1, <1>2 DEF TypeOK
<1>5. /\ accounts' \subseteq Users /\ created' \in Nat /\ deleted' \in Nat
      /\ count' \in [Teams -> Int] /\ locked' \in [Teams -> BOOLEAN] /\ id' \in [Teams -> Nat]
  BY <1>1, <1>2 DEF TypeOK
<1>6. \A s \in Teams : captain'[s] # Nobody => count'[s] <= Cardinality(members'[s]) + deleted'
  BY <1>1, <1>2, <1>3 DEF CountNeverAbove
<1> QED
  BY <1>1, <1>3, <1>4, <1>5, <1>6, CommitKeeps
-----------------------------------------------------------------------------
(* Steps that end no request. *)
LEMMA LockKeeps ==
  ASSUME IInv, NEW h \in Requests, NEW w \in Writes \ UserWrites, NEW x \in Writes \ UserWrites,
         NEW rows \in SUBSET Users, NEW cleared \in SUBSET Users,
         LockRows(h, w, x, rows, cleared)
  PROVE  IInv'
<1>1. /\ TypeOK /\ TxFilled /\ CountNeverAbove /\ UNCHANGED dbVars /\ pc[h] = w /\ w # "idle"
      /\ pc' = [pc EXCEPT ![h] = x]
      /\ tx' = [tx EXCEPT ![h].rows = @ \cup rows, ![h].cleared = @ \cup cleared]
  BY DEF IInv, TInv, LockRows, Writes
<1>2. pc \in [Requests -> Writes \cup {"idle"}] /\ tx \in [Requests -> Local]
  BY <1>1 DEF TypeOK
<1>3. tx[h].team \in Teams
  BY <1>1 DEF TxFilled
<1>4. pc' \in [Requests -> Writes \cup {"idle"}] /\ tx' \in [Requests -> Local]
  BY ZenonT(40), <1>1, <1>2 DEF Local
<1>5. TxFilled'
  BY <1>1, <1>2, <1>3 DEF TxFilled, Local
<1>6. TypeOK'
  BY <1>1, <1>4 DEF TypeOK, Exists, dbVars, teamVars, rowVars, userVars
<1>7. CountNeverAbove'
  BY <1>1 DEF CountNeverAbove, Exists, dbVars, teamVars, rowVars, userVars
<1> QED
  BY <1>5, <1>6, <1>7 DEF IInv, TInv

LEMMA CancelKeeps ==
  ASSUME IInv, NEW u \in Users, NEW t \in Teams, cancelJoinRequest(u, t)
  PROVE  IInv'
<1>1. /\ TypeOK /\ TxFilled /\ CountNeverAbove /\ applied' = [applied EXCEPT ![t] = @ \ {u}]
      /\ UNCHANGED <<captain, count, locked, id, created, members, home, accounts, deleted, pc, tx>>
  BY DEF IInv, TInv, cancelJoinRequest, teamVars, userVars
<1>2. TypeOK'
  BY <1>1 DEF TypeOK, Exists
<1> QED
  BY <1>1, <1>2 DEF IInv, TInv, TxFilled, CountNeverAbove, Exists

(* An account that goes may be a member nobody counts down: one more       *)
(* deletion pays for one member less.                                      *)
LEMMA AccountKeeps ==
  ASSUME IInv, NEW u \in Users, route_user_delete(u)
  PROVE  IInv'
<1>1. /\ TypeOK /\ TxFilled /\ CountNeverAbove
      /\ accounts' = accounts \ {u} /\ deleted' = deleted + 1
      /\ captain' = [t \in Teams |-> IF captain[t] = u THEN Nobody ELSE captain[t]]
      /\ members' = [t \in Teams |-> IF captain[t] = u THEN {} ELSE members[t] \ {u}]
      /\ applied' = [t \in Teams |-> IF captain[t] = u THEN {} ELSE applied[t] \ {u}]
      /\ home' = [home EXCEPT ![u] = NoTeam]
      /\ UNCHANGED <<count, locked, id, created, pc, tx>>
  BY DEF IInv, TInv, route_user_delete
<1>2. TypeOK'
  BY <1>1 DEF TypeOK, Exists
<1>3. CountNeverAbove'
  <2> SUFFICES ASSUME NEW t \in Teams, captain'[t] # Nobody
               PROVE  count'[t] <= Cardinality(members'[t]) + deleted'
    BY DEF CountNeverAbove, Exists
  <2>1. Exists(t) /\ members'[t] = members[t] \ {u}
    BY <1>1 DEF Exists
  <2>2. /\ count[t] <= Cardinality(members[t]) + deleted
        /\ count'[t] = count[t] /\ count[t] \in Int /\ deleted \in Nat
    BY <1>1, <2>1 DEF CountNeverAbove, TypeOK
  <2>3. IsFiniteSet(members[t]) /\ Cardinality(members[t]) \in Nat
    BY <1>1, MembersFinite
  <2>4. Cardinality(members[t] \ {u}) \in Nat /\ Cardinality(members[t] \ {u}) >= Cardinality(members[t]) - 1
    BY <2>3, RemoveOne
  <2>5. Cardinality(members'[t]) = Cardinality(members[t] \ {u})
    BY <2>1, Zenon
  <2> QED
    BY <1>1, <2>2, <2>3, <2>4, <2>5
<1> QED
  BY <1>1, <1>2, <1>3 DEF IInv, TInv, TxFilled

LEMMA ReadsKeep ==
  ASSUME IInv, NEW h \in Requests, NEW c \in Users, NEW u \in Users, NEW t \in Teams,
         \/ createTeam_Read(h, u, t) \/ leaveTeam_Read(h, u, t) \/ sendJoinRequest_Read(h, u, t)
         \/ deleteMember_Read(h, c, t, u) \/ handOverLeadership_Read(h, c, t, u)
         \/ acceptJoinRequest_Read(h, c, t, u) \/ declineJoinRequest_Read(h, c, t, u)
         \/ updateTeam_Read(h, c, t) \/ route_team_delete_Read(h, c, t)
  PROVE  IInv'
<1>1. ASSUME NEW w \in UserWrites, Read(h, w, t, u) PROVE IInv'
  BY <1>1, ReadKeeps DEF UserWrites, Writes
<1>2. ASSUME NEW w \in {"update", "delete"}, Read(h, w, t, Nobody) PROVE IInv'
  BY <1>2, ReadKeeps DEF UserWrites, Writes
<1> QED
  BY <1>1, <1>2 DEF createTeam_Read, leaveTeam_Read, sendJoinRequest_Read, deleteMember_Read,
     handOverLeadership_Read, acceptJoinRequest_Read, declineJoinRequest_Read, updateTeam_Read,
     route_team_delete_Read, UserWrites

LEMMA LocksKeep ==
  ASSUME IInv, NEW h \in Requests, DeleteTeamRequests(h) \/ DeleteTeamMembers(h) \/ ClearTeamUsers(h)
  PROVE  IInv'
<1>1. \A t \in Teams : members[t] \subseteq Users /\ applied[t] \subseteq Users
  BY DEF IInv, TInv, TypeOK
<1>2. /\ accounts \subseteq Users
      /\ pc[h] # "idle" => tx[h].team \in Teams
  BY DEF IInv, TInv, TypeOK, TxFilled
<1>3. {"delete", "deleteMembers", "clearUsers", "deleteTeam"} \subseteq Writes \ UserWrites
  BY DEF Writes, UserWrites
<1>4. CASE DeleteTeamRequests(h)
  <2>1. tx[h].team \in Teams
    BY <1>2, <1>4 DEF DeleteTeamRequests, LockRows
  <2>2. applied[tx[h].team] \in SUBSET Users /\ {} \in SUBSET Users
    BY <1>1, <2>1
  <2> QED
    BY <1>3, <1>4, <2>2, LockKeeps DEF DeleteTeamRequests
<1>5. CASE DeleteTeamMembers(h)
  <2>1. tx[h].team \in Teams
    BY <1>2, <1>5 DEF DeleteTeamMembers, LockRows
  <2>2. members[tx[h].team] \in SUBSET Users /\ {} \in SUBSET Users
    BY <1>1, <2>1
  <2> QED
    BY <1>3, <1>5, <2>2, LockKeeps DEF DeleteTeamMembers
<1>6. CASE ClearTeamUsers(h)
  BY <1>1, <1>2, <1>3, <1>6, LockKeeps DEF ClearTeamUsers
<1> QED
  BY <1>4, <1>5, <1>6

LEMMA StepKeeps == IInv /\ [Next]_vars => IInv'
<1> SUFFICES ASSUME IInv, [Next]_vars PROVE IInv'
  OBVIOUS
<1>1. ASSUME NEW h \in Requests, MemberStep(h) PROVE IInv'
  BY <1>1, ReadsKeep, CreateKeeps, LeaveKeeps, ApplyKeeps DEF MemberStep
<1>2. ASSUME NEW h \in Requests, CaptainStep(h) PROVE IInv'
  <2>1. ASSUME NEW c \in Users, NEW u \in Users, NEW t \in Teams,
               \/ deleteMember_Read(h, c, t, u) \/ handOverLeadership_Read(h, c, t, u)
               \/ acceptJoinRequest_Read(h, c, t, u) \/ declineJoinRequest_Read(h, c, t, u)
        PROVE  IInv'
    BY <2>1, ReadsKeep
  <2>2. ASSUME NEW c \in Users, NEW t \in Teams,
               updateTeam_Read(h, c, t) \/ route_team_delete_Read(h, c, t)
        PROVE  IInv'
    BY <2>2, ReadsKeep
  <2>3. ASSUME NEW lock \in BOOLEAN, updateTeam(h, lock) PROVE IInv'
    BY <2>3, UpdateKeeps
  <2>4. CASE \/ deleteMember(h) \/ handOverLeadership(h) \/ acceptJoinRequest(h)
             \/ declineJoinRequest(h) \/ route_team_delete(h)
    BY <2>4, KickKeeps, HandOverKeeps, AcceptKeeps, DeclineKeeps, TeamDeleteKeeps
  <2>5. CASE DeleteTeamRequests(h) \/ DeleteTeamMembers(h) \/ ClearTeamUsers(h)
    BY <2>5, LocksKeep
  <2> QED
    BY <1>2, <2>1, <2>2, <2>3, <2>4, <2>5 DEF CaptainStep
<1>3. ASSUME NEW h \in Requests, Abort(h) PROVE IInv'
  BY <1>3, AbortKeeps
<1>4. ASSUME NEW u \in Users, NEW t \in Teams, cancelJoinRequest(u, t) PROVE IInv'
  BY <1>4, CancelKeeps
<1>5. ASSUME NEW u \in Users, route_user_delete(u) PROVE IInv'
  BY <1>5, AccountKeeps
<1>6. CASE UNCHANGED vars
  BY <1>6 DEF IInv, TInv, TypeOK, TxFilled, CountNeverAbove, Exists, vars, dbVars, teamVars,
     rowVars, userVars
<1> QED
  BY <1>1, <1>2, <1>3, <1>4, <1>5, <1>6 DEF Next

LEMMA Invariance == Spec => []IInv
BY InitHolds, StepKeeps, PTL DEF Spec

(* Every reachable state of the tables of teams is well typed, and no row  *)
(* of team_members, team_join_requests or teams refers to something that   *)
(* is gone (the foreign keys of 000_INITIAL.sql), for any number of teams, *)
(* users and requests in flight.                                           *)
THEOREM TypeCorrect == Spec => []TypeOK
<1>1. IInv => TypeOK
  BY DEF IInv, TInv
<1> QED
  BY <1>1, Invariance, PTL

(* However many requests of team.ts interleave, members_count is at most   *)
(* the number of members and of deleted accounts.                          *)
THEOREM CountIsBounded == Spec => []CountNeverAbove
<1>1. IInv => CountNeverAbove
  BY DEF IInv
<1> QED
  BY <1>1, Invariance, PTL
-----------------------------------------------------------------------------
(* One request at a time: what a request has read still holds when it      *)
(* writes, so that a membership is one thing in the three tables.          *)

Alone == \A g, h \in Requests : g # h => pc[g] = "idle" \/ pc[h] = "idle"

Agree ==
  /\ \A t \in Teams : Exists(t) => count[t] = Cardinality(members[t]) /\ captain[t] \in members[t]
  /\ \A u \in accounts, t \in Teams : home[u] = t <=> u \in members[t]

StillTrue(h) ==
  LET t == tx[h].team  u == tx[h].user IN
  /\ pc[h] = "create" => u \in accounts /\ home[u] = NoTeam
  /\ pc[h] = "leave" => /\ Exists(t) /\ u \in members[t] /\ id[t] = tx[h].id
                        /\ captain[t] = u => count[t] = 1
  /\ pc[h] = "kick" => Exists(t) /\ u \in members[t] /\ captain[t] # u
  /\ pc[h] = "handOver" => u \in members[t]
  /\ pc[h] = "accept" => home[u] = NoTeam
  /\ pc[h] \in {"delete", "deleteMembers", "clearUsers"} => tx[h].cleared = {}
  /\ pc[h] = "deleteTeam" => tx[h].cleared = {v \in accounts : home[v] = t}

Serial == Alone /\ Agree /\ \A h \in Requests : StillTrue(h)

SerialInv == /\ IInv
             /\ overlapped \in BOOLEAN
             /\ Undisturbed => Serial

LEMMA SerialInitHolds == SerialInit => SerialInv
<1> SUFFICES ASSUME SerialInit PROVE SerialInv
  OBVIOUS
<1>1. IInv
  BY InitHolds DEF SerialInit
<1>2. Alone
  BY DEF SerialInit, Init, Alone
<1>3. Agree
  BY TeamsAssumption DEF SerialInit, Init, Agree, Exists
<1>4. \A h \in Requests : StillTrue(h)
  BY DEF SerialInit, Init, StillTrue
<1> QED
  BY <1>1, <1>2, <1>3, <1>4 DEF SerialInv, Serial, SerialInit

(* A handler that reads while no other is in flight knows what it read.    *)
LEMMA ReadsSerial ==
  ASSUME IInv, Serial, Alone', NEW h \in Requests, NEW c \in Users, NEW u \in Users, NEW t \in Teams,
         \/ createTeam_Read(h, u, t) \/ leaveTeam_Read(h, u, t) \/ sendJoinRequest_Read(h, u, t)
         \/ deleteMember_Read(h, c, t, u) \/ handOverLeadership_Read(h, c, t, u)
         \/ acceptJoinRequest_Read(h, c, t, u) \/ declineJoinRequest_Read(h, c, t, u)
         \/ updateTeam_Read(h, c, t) \/ route_team_delete_Read(h, c, t)
  PROVE  Serial'
<1>1. PICK w \in Writes, v \in Users \cup {Nobody} :
        /\ Read(h, w, t, v)
        /\ w \notin {"deleteMembers", "clearUsers", "deleteTeam"}
        /\ w \in UserWrites => v = u
        /\ w = "create" => u \in accounts /\ home[u] = NoTeam
        /\ w = "leave" => Exists(t) /\ u \in members[t] /\ (captain[t] = u => count[t] = 1)
        /\ w = "kick" => captain[t] = c /\ u \in members[t] /\ u # c
        /\ w = "handOver" => u \in members[t]
        /\ w = "accept" => home[u] = NoTeam
  BY DEF createTeam_Read, leaveTeam_Read, sendJoinRequest_Read, deleteMember_Read,
     handOverLeadership_Read, acceptJoinRequest_Read, declineJoinRequest_Read, updateTeam_Read,
     route_team_delete_Read, UserWrites, Writes
<1>2. /\ pc \in [Requests -> Writes \cup {"idle"}] /\ tx \in [Requests -> Local]
      /\ members \in [Teams -> SUBSET accounts] /\ id[t] \in Nat
      /\ \A s \in Teams : ~ Exists(s) => members[s] = {}
  BY DEF IInv, TInv, TypeOK
<1> DEFINE x == [NoTx EXCEPT !.team = t, !.user = v, !.id = id[t]]
<1>3. x.team = t /\ x.user = v /\ x.id = id[t] /\ x.cleared = {}
  BY DEF NoTx
<1>4. pc'[h] = w /\ tx'[h] = x /\ UNCHANGED dbVars
  BY <1>1, <1>2 DEF Read
<1> HIDE DEF x
<1>5. Agree'
  BY <1>4 DEF Serial, Agree, Exists, dbVars, teamVars, rowVars, userVars
<1>6. StillTrue(h)'
  <2>1. /\ tx'[h].team = t /\ tx'[h].user = v /\ tx'[h].id = id[t] /\ tx'[h].cleared = {}
    BY <1>3, <1>4
  <2>2. w = "kick" => Exists(t) /\ captain[t] # u
    BY <1>1, <1>2
  <2> QED
    BY <1>1, <1>4, <2>1, <2>2 DEF StillTrue, UserWrites, Exists, dbVars, teamVars, rowVars, userVars
<1>7. ASSUME NEW g \in Requests, g # h PROVE StillTrue(g)'
  <2>1. pc'[g] = "idle"
    BY <1>1, <1>4, <1>7 DEF Alone, Writes
  <2> QED
    BY <2>1 DEF StillTrue
<1> QED
  BY <1>5, <1>6, <1>7 DEF Serial

(* After a request that was alone nobody has anything to remember.         *)
LEMMA EndSerial ==
  ASSUME IInv, Serial, NEW h \in Requests, EndRequest(h), pc[h] # "idle", Agree'
  PROVE  Serial'
<1>1. pc \in [Requests -> Writes \cup {"idle"}]
  BY DEF IInv, TInv, TypeOK
<1>2. \A g \in Requests : pc'[g] = "idle"
  BY <1>1 DEF EndRequest, Serial, Alone
<1> QED
  BY <1>2 DEF Serial, Alone, StillTrue

(* What a write step of one handler finds. *)
LEMMA SerialHas ==
  ASSUME IInv, Serial, NEW h \in Requests, NEW w \in UserWrites, Write(h, w)
  PROVE  /\ EndRequest(h) /\ pc[h] = w /\ pc[h] # "idle"
         /\ tx[h].team \in Teams /\ tx[h].user \in Users
         /\ StillTrue(h) /\ Agree /\ TypeOK
<1>1. w \in Writes /\ w # "idle"
  BY DEF UserWrites, Writes
<1> QED
  BY <1>1, WriteHas DEF Serial, IInv, TInv

(* A team that loses a member of its own, who is not its captain, and      *)
(* counts it.                                                              *)
LEMMA OneLess ==
  ASSUME TypeOK, Agree, NEW t \in Teams, NEW u \in members[t], Exists(t), captain[t] # u,
         CountDown(t), SetHome(u, NoTeam), members' = [members EXCEPT ![t] = @ \ {u}],
         UNCHANGED <<captain, accounts>>
  PROVE  Agree'
<1>1. /\ u \in accounts /\ accounts \subseteq Users /\ u \in Users
      /\ members \in [Teams -> SUBSET accounts] /\ home \in [Users -> Teams \cup {NoTeam}]
      /\ count \in [Teams -> Int]
  BY DEF TypeOK
<1>2. /\ count' = [count EXCEPT ![t] = count[t] - 1]
      /\ home' = [home EXCEPT ![u] = NoTeam]
  BY <1>1 DEF CountDown, SetHome
<1>3. ASSUME NEW s \in Teams, Exists(s)
      PROVE  count'[s] = Cardinality(members'[s]) /\ captain[s] \in members'[s]
  <2>1. CASE s = t
    <3>1. members'[s] = members[t] \ {u} /\ count'[s] = count[t] - 1
      BY <1>1, <1>2, <2>1
    <3>2. IsFiniteSet(members[t])
      BY MembersFinite
    <3>3. Cardinality(members[t] \ {u}) = Cardinality(members[t]) - 1
      BY <3>2, FS_RemoveElement
    <3>4. Cardinality(members'[s]) = Cardinality(members[t] \ {u})
      BY <3>1, Zenon
    <3> QED
      BY <2>1, <3>1, <3>3, <3>4 DEF Agree
  <2>2. CASE s # t
    BY <1>1, <1>2, <1>3, <2>2 DEF Agree
  <2> QED
    BY <2>1, <2>2
<1>4. ASSUME NEW v \in accounts, NEW s \in Teams
      PROVE  home'[v] = s <=> v \in members'[s]
  <2>1. home[v] = s <=> v \in members[s]
    BY DEF Agree
  <2>2. home[u] = t
    BY <1>1 DEF Agree
  <2>3. home'[v] = IF v = u THEN NoTeam ELSE home[v]
    BY <1>1, <1>2
  <2>4. members'[s] = IF s = t THEN members[t] \ {u} ELSE members[s]
    BY <1>1
  <2> QED
    BY <2>1, <2>2, <2>3, <2>4, TeamsAssumption
<1> QED
  BY <1>3, <1>4 DEF Agree, Exists

LEMMA CreateSerial ==
  ASSUME IInv, Serial, NEW h \in Requests, createTeam(h)
  PROVE  Serial'
<1> DEFINE t == tx[h].team
           u == tx[h].user
<1>1. /\ EndRequest(h) /\ pc[h] = "create" /\ pc[h] # "idle" /\ t \in Teams /\ u \in Users
      /\ StillTrue(h) /\ Agree /\ TypeOK
  BY SerialHas DEF createTeam, UserWrites
<1>2. /\ u \in accounts /\ home[u] = NoTeam /\ ~ Exists(t) /\ members[t] = {}
      /\ accounts \subseteq Users
      /\ members \in [Teams -> SUBSET accounts] /\ home \in [Users -> Teams \cup {NoTeam}]
      /\ count \in [Teams -> Int] /\ captain \in [Teams -> accounts \cup {Nobody}]
  BY <1>1 DEF StillTrue, createTeam, TypeOK
<1>3. /\ captain' = [captain EXCEPT ![t] = u] /\ count' = [count EXCEPT ![t] = 1]
      /\ members' = [members EXCEPT ![t] = {u}] /\ home' = [home EXCEPT ![u] = t]
      /\ UNCHANGED accounts
  BY <1>2 DEF createTeam, SetHome
<1> HIDE DEF t, u
<1>4. ASSUME NEW s \in Teams, captain'[s] # Nobody
      PROVE  count'[s] = Cardinality(members'[s]) /\ captain'[s] \in members'[s]
  <2>1. CASE s = t
    <3>1. members'[s] = {u} /\ count'[s] = 1 /\ captain'[s] = u
      BY <1>1, <1>2, <1>3, <2>1
    <3>2. Cardinality(members'[s]) = Cardinality({u})
      BY <3>1, Zenon
    <3> QED
      BY <3>1, <3>2, FS_Singleton
  <2>2. CASE s # t
    BY <1>1, <1>2, <1>3, <1>4, <2>2 DEF Agree, Exists
  <2> QED
    BY <2>1, <2>2
<1>5. ASSUME NEW v \in accounts, NEW s \in Teams
      PROVE  home'[v] = s <=> v \in members'[s]
  <2>1. (home[v] = s <=> v \in members[s]) /\ (home[v] = t <=> v \in members[t])
        /\ u \notin members[s]
    BY <1>1, <1>2, TeamsAssumption DEF Agree
  <2>2. home'[v] = IF v = u THEN t ELSE home[v]
    BY <1>2, <1>3
  <2>3. members'[s] = IF s = t THEN {u} ELSE members[s]
    BY <1>2, <1>3
  <2> QED
    BY <1>2, <2>1, <2>2, <2>3
<1>6. Agree'
  BY <1>3, <1>4, <1>5 DEF Agree, Exists
<1> QED
  BY <1>1, <1>6, EndSerial

LEMMA KickSerial ==
  ASSUME IInv, Serial, NEW h \in Requests, deleteMember(h)
  PROVE  Serial'
<1> DEFINE t == tx[h].team
           u == tx[h].user
<1>1. /\ EndRequest(h) /\ pc[h] = "kick" /\ pc[h] # "idle" /\ t \in Teams
      /\ StillTrue(h) /\ Agree /\ TypeOK
  BY SerialHas DEF deleteMember, UserWrites
<1>2. Exists(t) /\ u \in members[t] /\ captain[t] # u
  BY <1>1 DEF StillTrue
<1>3. Agree'
  BY <1>1, <1>2, OneLess DEF deleteMember
<1> QED
  BY <1>1, <1>3, EndSerial

(* A team that goes takes the homes of its members with it.                *)
LEMMA TeamGone ==
  ASSUME TypeOK, Agree, NEW t \in Teams, DropTeams({t}), UNCHANGED accounts,
         \A s \in Teams \ {t} : count'[s] = count[s],
         home' = [u \in Users |-> IF u \in members[t] THEN NoTeam ELSE home[u]]
  PROVE  Agree'
<1>1. accounts \subseteq Users /\ home \in [Users -> Teams \cup {NoTeam}]
  BY DEF TypeOK
<1>2. /\ captain' = [s \in Teams |-> IF s = t THEN Nobody ELSE captain[s]]
      /\ members' = [s \in Teams |-> IF s = t THEN {} ELSE members[s]]
  BY DEF DropTeams
<1>3. ASSUME NEW s \in Teams, captain'[s] # Nobody
      PROVE  count'[s] = Cardinality(members'[s]) /\ captain'[s] \in members'[s]
  BY <1>2, <1>3 DEF Agree, Exists
<1>4. ASSUME NEW v \in accounts, NEW s \in Teams
      PROVE  home'[v] = s <=> v \in members'[s]
  BY <1>1, <1>2, TeamsAssumption DEF Agree
<1> QED
  BY <1>3, <1>4 DEF Agree, Exists

LEMMA LeaveSerial ==
  ASSUME IInv, Serial, NEW h \in Requests, leaveTeam(h)
  PROVE  Serial'
<1> DEFINE t == tx[h].team
           u == tx[h].user
<1>1. /\ EndRequest(h) /\ pc[h] = "leave" /\ pc[h] # "idle" /\ t \in Teams
      /\ StillTrue(h) /\ Agree /\ TypeOK
  BY SerialHas DEF leaveTeam, UserWrites
<1>2. /\ Exists(t) /\ u \in members[t] /\ id[t] = tx[h].id /\ (captain[t] = u => count[t] = 1)
      /\ count \in [Teams -> Int] /\ home \in [Users -> Teams \cup {NoTeam}]
      /\ u \in accounts /\ u \in Users
  BY <1>1 DEF StillTrue, TypeOK
<1>3. CountDown(t) /\ SetHome(u, NoTeam) /\ UNCHANGED accounts
  BY DEF leaveTeam
<1>4. CASE count[t] = 1
  <2>1. DropTeams({t})
    BY <1>2, <1>4 DEF leaveTeam
  <2>2. members[t] = {u}
    <3>1. IsFiniteSet(members[t]) /\ Cardinality(members[t]) = 1
      BY <1>1, <1>2, <1>4, MembersFinite DEF Agree
    <3>2. PICK v : members[t] = {v}
      BY <3>1, FS_Singleton
    <3> QED
      BY <1>2, <3>2
  <2>3. home' = [v \in Users |-> IF v \in members[t] THEN NoTeam ELSE home[v]]
    BY <1>2, <1>3, <2>2 DEF SetHome
  <2>4. \A s \in Teams \ {t} : count'[s] = count[s]
    BY <1>1, <1>2, <1>3 DEF CountDown
  <2>5. Agree'
    BY <1>1, <1>3, <2>1, <2>3, <2>4, TeamGone
  <2> QED
    BY <1>1, <2>5, EndSerial
<1>5. CASE count[t] # 1
  <2>1. members' = [members EXCEPT ![t] = @ \ {u}] /\ UNCHANGED captain
    BY <1>5 DEF leaveTeam
  <2>2. Agree'
    BY <1>1, <1>2, <1>3, <1>5, <2>1, OneLess
  <2> QED
    BY <1>1, <2>2, EndSerial
<1> QED
  BY <1>4, <1>5

LEMMA TeamDeleteSerial ==
  ASSUME IInv, Serial, NEW h \in Requests, route_team_delete(h)
  PROVE  Serial'
<1> DEFINE t == tx[h].team
<1>1. /\ EndRequest(h) /\ pc[h] = "deleteTeam" /\ pc[h] # "idle" /\ t \in Teams
      /\ StillTrue(h) /\ Agree /\ TypeOK
  BY DEF route_team_delete, Serial, IInv, TInv, TxFilled
<1>2. tx[h].cleared = {v \in accounts : home[v] = t}
  BY <1>1 DEF StillTrue
<1>3. tx[h].cleared = members[t]
  BY <1>1, <1>2 DEF Agree, TypeOK
<1>4. Agree'
  BY <1>1, <1>3, TeamGone DEF route_team_delete
<1> QED
  BY <1>1, <1>4, EndSerial

LEMMA AcceptSerial ==
  ASSUME IInv, Serial, NEW h \in Requests, acceptJoinRequest(h)
  PROVE  Serial'
<1> DEFINE t == tx[h].team
           u == tx[h].user
<1>1. /\ EndRequest(h) /\ pc[h] = "accept" /\ pc[h] # "idle" /\ t \in Teams /\ u \in Users
      /\ StillTrue(h) /\ Agree /\ TypeOK
  BY SerialHas DEF acceptJoinRequest, UserWrites
<1>2. /\ u \in accounts /\ home[u] = NoTeam /\ Exists(t) /\ u \notin members[t]
      /\ accounts \subseteq Users
      /\ members \in [Teams -> SUBSET accounts] /\ home \in [Users -> Teams \cup {NoTeam}]
      /\ count \in [Teams -> Int]
  BY <1>1 DEF StillTrue, acceptJoinRequest, TypeOK
<1>3. /\ count' = [count EXCEPT ![t] = @ + 1] /\ members' = [members EXCEPT ![t] = @ \cup {u}]
      /\ home' = [home EXCEPT ![u] = t] /\ UNCHANGED <<captain, accounts>>
  BY <1>2 DEF acceptJoinRequest, SetHome
<1> HIDE DEF t, u
<1>4. ASSUME NEW s \in Teams, Exists(s)
      PROVE  count'[s] = Cardinality(members'[s]) /\ captain[s] \in members'[s]
  <2>1. CASE s = t
    <3>1. members'[s] = members[t] \cup {u} /\ count'[s] = count[t] + 1
      BY <1>1, <1>2, <1>3, <2>1
    <3>2. IsFiniteSet(members[t])
      BY <1>1, MembersFinite
    <3>3. Cardinality(members[t] \cup {u}) = Cardinality(members[t]) + 1
      BY <1>2, <3>2, FS_AddElement
    <3>4. Cardinality(members'[s]) = Cardinality(members[t] \cup {u})
      BY <3>1, Zenon
    <3>5. count[t] = Cardinality(members[t]) /\ captain[t] \in members[t]
      BY <1>1, <1>2 DEF Agree
    <3> QED
      BY <2>1, <3>1, <3>3, <3>4, <3>5
  <2>2. CASE s # t
    BY <1>1, <1>2, <1>3, <1>4, <2>2 DEF Agree
  <2> QED
    BY <2>1, <2>2
<1>5. ASSUME NEW v \in accounts, NEW s \in Teams
      PROVE  home'[v] = s <=> v \in members'[s]
  <2>1. (home[v] = s <=> v \in members[s]) /\ (home[v] = t <=> v \in members[t])
        /\ u \notin members[s]
    BY <1>1, <1>2, TeamsAssumption DEF Agree
  <2>2. home'[v] = IF v = u THEN t ELSE home[v]
    BY <1>2, <1>3
  <2>3. members'[s] = IF s = t THEN members[t] \cup {u} ELSE members[s]
    BY <1>2, <1>3
  <2> QED
    BY <1>2, <2>1, <2>2, <2>3
<1>6. Agree'
  BY <1>3, <1>4, <1>5 DEF Agree, Exists
<1> QED
  BY <1>1, <1>6, EndSerial

(* The other writes leave count, members and homes alone; a new captain is *)
(* a member.                                                               *)
LEMMA OthersSerial ==
  ASSUME IInv, Serial, NEW h \in Requests,
         \/ handOverLeadership(h) \/ sendJoinRequest(h) \/ declineJoinRequest(h) \/ Abort(h)
         \/ \E lock \in BOOLEAN : updateTeam(h, lock)
  PROVE  Serial'
<1>1. EndRequest(h) /\ pc[h] # "idle" /\ Agree /\ TypeOK
  BY DEF Serial, IInv, TInv, handOverLeadership, sendJoinRequest, declineJoinRequest, Abort,
     updateTeam, Write
<1>2. CASE UNCHANGED <<captain, count, members, home, accounts>>
  <2>1. Agree'
    BY <1>1, <1>2 DEF Agree, Exists
  <2> QED
    BY <1>1, <2>1, EndSerial
<1>3. CASE handOverLeadership(h)
  <2>1. /\ tx[h].team \in Teams /\ tx[h].user \in members[tx[h].team]
    BY <1>3, SerialHas DEF handOverLeadership, UserWrites, StillTrue
  <2>2. /\ captain' = [captain EXCEPT ![tx[h].team] = IF Exists(tx[h].team) THEN tx[h].user ELSE @]
        /\ UNCHANGED <<count, members, home, accounts>>
    BY <1>3 DEF handOverLeadership, rowVars, userVars
  <2>3. Agree'
    BY <1>1, <2>1, <2>2 DEF Agree, Exists, TypeOK
  <2> QED
    BY <1>1, <2>3, EndSerial
<1>4. UNCHANGED <<captain, count, members, home, accounts>> \/ handOverLeadership(h)
  BY DEF sendJoinRequest, declineJoinRequest, Abort, updateTeam, dbVars, teamVars, rowVars, userVars
<1> QED
  BY <1>2, <1>3, <1>4

(* What a deletion has locked is what it will clear. *)
LEMMA LockSerial ==
  ASSUME IInv, Serial, Alone', NEW h \in Requests, NEW w, NEW rows, NEW cleared,
         NEW x \in {"deleteMembers", "clearUsers", "deleteTeam"},
         w \in {"delete", "deleteMembers", "clearUsers"},
         cleared = (IF x = "deleteTeam" THEN {u \in accounts : home[u] = tx[h].team} ELSE {}),
         LockRows(h, w, x, rows, cleared)
  PROVE  Serial'
<1>1. /\ pc \in [Requests -> Writes \cup {"idle"}] /\ tx \in [Requests -> Local]
      /\ Agree /\ StillTrue(h)
  BY DEF IInv, TInv, TypeOK, Serial
<1>2. /\ pc[h] = w /\ pc' = [pc EXCEPT ![h] = x]
      /\ tx' = [tx EXCEPT ![h].rows = @ \cup rows, ![h].cleared = @ \cup cleared]
      /\ UNCHANGED dbVars
  BY DEF LockRows
<1>3. tx'[h].team = tx[h].team /\ tx'[h].cleared = tx[h].cleared \cup cleared
  BY <1>1, <1>2 DEF Local
<1>4. tx[h].cleared = {}
  BY <1>1, <1>2 DEF StillTrue
<1>5. pc'[h] = x /\ UNCHANGED <<accounts, home>>
  BY <1>1, <1>2 DEF dbVars, userVars
<1>6. StillTrue(h)'
  BY <1>3, <1>4, <1>5 DEF StillTrue
<1>7. ASSUME NEW g \in Requests, g # h PROVE StillTrue(g)'
  <2>1. pc'[g] = "idle"
    BY <1>5, <1>7 DEF Alone
  <2> QED
    BY <2>1 DEF StillTrue
<1>8. Agree'
  BY <1>1, <1>2 DEF Agree, Exists, dbVars, teamVars, rowVars, userVars
<1> QED
  BY <1>6, <1>7, <1>8 DEF Serial

LEMMA LocksSerial ==
  ASSUME IInv, Serial, Alone', NEW h \in Requests,
         DeleteTeamRequests(h) \/ DeleteTeamMembers(h) \/ ClearTeamUsers(h)
  PROVE  Serial'
<1>1. CASE DeleteTeamRequests(h)
  BY <1>1, LockSerial DEF DeleteTeamRequests
<1>2. CASE DeleteTeamMembers(h)
  BY <1>2, LockSerial DEF DeleteTeamMembers
<1>3. CASE ClearTeamUsers(h)
  BY <1>3, LockSerial DEF ClearTeamUsers
<1> QED
  BY <1>1, <1>2, <1>3

(* Only the deletion of an account counts as one. *)
LEMMA DeletionsCounted ==
  ASSUME Next
  PROVE  deleted' = deleted \/ deleted' = deleted + 1
<1>1. ASSUME NEW h \in Requests, MemberStep(h)
      PROVE  deleted' = deleted
  BY <1>1 DEF MemberStep, createTeam_Read, leaveTeam_Read, sendJoinRequest_Read, Read, createTeam,
     leaveTeam, sendJoinRequest, dbVars, userVars
<1>2. ASSUME NEW h \in Requests, CaptainStep(h)
      PROVE  deleted' = deleted
  <2>1. CASE \E c, u \in Users, t \in Teams :
               \/ deleteMember_Read(h, c, t, u) \/ handOverLeadership_Read(h, c, t, u)
               \/ acceptJoinRequest_Read(h, c, t, u) \/ declineJoinRequest_Read(h, c, t, u)
               \/ updateTeam_Read(h, c, t) \/ route_team_delete_Read(h, c, t)
    BY <2>1 DEF deleteMember_Read, handOverLeadership_Read, acceptJoinRequest_Read,
       declineJoinRequest_Read, updateTeam_Read, route_team_delete_Read, Read, dbVars, userVars
  <2>2. CASE \/ deleteMember(h) \/ handOverLeadership(h) \/ acceptJoinRequest(h)
             \/ declineJoinRequest(h) \/ route_team_delete(h)
             \/ \E lock \in BOOLEAN : updateTeam(h, lock)
    BY <2>2 DEF deleteMember, handOverLeadership, acceptJoinRequest, declineJoinRequest,
       route_team_delete, updateTeam, userVars
  <2>3. CASE DeleteTeamRequests(h) \/ DeleteTeamMembers(h) \/ ClearTeamUsers(h)
    BY <2>3 DEF DeleteTeamRequests, DeleteTeamMembers, ClearTeamUsers, LockRows, dbVars, userVars
  <2> QED
    BY <1>2, <2>1, <2>2, <2>3 DEF CaptainStep
<1>3. ASSUME NEW h \in Requests, Abort(h)
      PROVE  deleted' = deleted
  BY <1>3 DEF Abort, dbVars, userVars
<1>4. ASSUME NEW u \in Users, NEW t \in Teams, cancelJoinRequest(u, t)
      PROVE  deleted' = deleted
  BY <1>4 DEF cancelJoinRequest, userVars
<1>5. ASSUME NEW u \in Users, route_user_delete(u)
      PROVE  deleted' = deleted + 1
  BY <1>5 DEF route_user_delete
<1> QED
  BY <1>1, <1>2, <1>3, <1>4, <1>5 DEF Next

(* History: what was alone was never together with another.                *)
LEMMA HistoryStep ==
  ASSUME SerialInv, [SerialNext]_<<vars, overlapped, crossed>>, Undisturbed'
  PROVE  Undisturbed /\ Serial /\ Alone'
<1>1. deleted \in Nat /\ overlapped \in BOOLEAN /\ ~ overlapped' /\ deleted' = 0
  BY DEF SerialInv, IInv, TInv, TypeOK, Undisturbed
<1>2. CASE UNCHANGED <<vars, overlapped, crossed>>
  BY <1>1, <1>2 DEF SerialInv, Undisturbed, Serial, Alone, vars, dbVars, userVars
<1>3. CASE SerialNext
  <2>1. ~ overlapped /\ Alone'
    BY <1>1, <1>3 DEF SerialNext, Alone
  <2>2. deleted' = deleted \/ deleted' = deleted + 1
    BY <1>3, DeletionsCounted DEF SerialNext
  <2>3. deleted = 0
    BY <1>1, <2>2
  <2> QED
    BY <1>1, <2>1, <2>3 DEF SerialInv, Undisturbed
<1> QED
  BY <1>2, <1>3

LEMMA SerialKeeps == SerialInv /\ [SerialNext]_<<vars, overlapped, crossed>> => SerialInv'
<1> SUFFICES ASSUME SerialInv, [SerialNext]_<<vars, overlapped, crossed>> PROVE SerialInv'
  OBVIOUS
<1>1. IInv /\ [Next]_vars
  BY DEF SerialInv, SerialNext
<1>2. IInv' /\ overlapped' \in BOOLEAN
  BY <1>1, StepKeeps DEF SerialInv, SerialNext
<1> SUFFICES ASSUME Undisturbed' PROVE Serial'
  BY <1>2 DEF SerialInv
<1>3. Serial /\ Alone' /\ deleted' = 0 /\ deleted \in Nat
  BY <1>1, HistoryStep DEF Undisturbed, IInv, TInv, TypeOK
<1>4. ASSUME NEW h \in Requests, MemberStep(h) \/ CaptainStep(h) \/ Abort(h) PROVE Serial'
  <2>1. ASSUME NEW u \in Users, NEW t \in Teams,
               createTeam_Read(h, u, t) \/ leaveTeam_Read(h, u, t) \/ sendJoinRequest_Read(h, u, t)
        PROVE  Serial'
    BY <1>1, <1>3, <2>1, ReadsSerial
  <2>2. ASSUME NEW c \in Users, NEW u \in Users, NEW t \in Teams,
               \/ deleteMember_Read(h, c, t, u) \/ handOverLeadership_Read(h, c, t, u)
               \/ acceptJoinRequest_Read(h, c, t, u) \/ declineJoinRequest_Read(h, c, t, u)
        PROVE  Serial'
    BY <1>1, <1>3, <2>2, ReadsSerial
  <2>3. ASSUME NEW c \in Users, NEW t \in Teams,
               updateTeam_Read(h, c, t) \/ route_team_delete_Read(h, c, t)
        PROVE  Serial'
    BY <1>1, <1>3, <2>3, ReadsSerial
  <2>4. CASE createTeam(h) \/ leaveTeam(h) \/ deleteMember(h) \/ acceptJoinRequest(h)
             \/ route_team_delete(h)
    BY <1>1, <1>3, <2>4, CreateSerial, LeaveSerial, KickSerial, AcceptSerial, TeamDeleteSerial
  <2>5. CASE \/ handOverLeadership(h) \/ sendJoinRequest(h) \/ declineJoinRequest(h) \/ Abort(h)
             \/ \E lock \in BOOLEAN : updateTeam(h, lock)
    BY <1>1, <1>3, <2>5, OthersSerial
  <2>6. CASE DeleteTeamRequests(h) \/ DeleteTeamMembers(h) \/ ClearTeamUsers(h)
    BY <1>1, <1>3, <2>6, LocksSerial
  <2> QED
    BY <1>4, <2>1, <2>2, <2>3, <2>4, <2>5, <2>6 DEF MemberStep, CaptainStep
<1>5. ASSUME NEW u \in Users, NEW t \in Teams, cancelJoinRequest(u, t) PROVE Serial'
  BY <1>3, <1>5 DEF cancelJoinRequest, Serial, Alone, Agree, StillTrue, Exists, teamVars, userVars
<1>6. ASSUME NEW u \in Users, route_user_delete(u) PROVE Serial'
  BY <1>3, <1>6 DEF route_user_delete
<1>7. CASE UNCHANGED <<vars, overlapped, crossed>>
  BY <1>3, <1>7 DEF Serial, Alone, Agree, StillTrue, Exists, vars, dbVars, teamVars, rowVars, userVars
<1> QED
  BY <1>4, <1>5, <1>6, <1>7 DEF SerialNext, Next

LEMMA SerialInvariance == SerialSpec => []SerialInv
BY SerialInitHolds, SerialKeeps, PTL DEF SerialSpec

(* For any number of teams and users: as long as the requests of team.ts   *)
(* came one by one and no account was deleted, members_count is the number *)
(* of rows of team_members.                                                *)
THEOREM CountIsExact == SerialSpec => []CountIsMembers
<1>1. SerialInv => CountIsMembers
  BY DEF SerialInv, Serial, Agree, CountIsMembers
<1> QED
  BY <1>1, SerialInvariance, PTL

(* Under the condition of CountIsExact users.team_name and team_members    *)
(* agree.                                                                  *)
THEOREM HomesAreMemberships == SerialSpec => []HomeAgrees
<1>1. SerialInv => HomeAgrees
  BY DEF SerialInv, Serial, Agree, HomeAgrees
<1> QED
  BY <1>1, SerialInvariance, PTL
-----------------------------------------------------------------------------
(* Any requests at once: what a request has found out about the captain    *)
(* still holds when it writes, in a team in which none crossed.            *)

Ground(t, h) ==
  Exists(t) /\ tx[h].team = t =>
    /\ pc[h] = "handOver" => tx[h].user \in members[t] \/ tx[h].user \notin accounts
    /\ pc[h] = "kick" => captain[t] # tx[h].user
    /\ pc[h] = "leave" /\ captain[t] = tx[h].user => count[t] = 1 /\ id[t] = tx[h].id

Captained(t) == Exists(t) => captain[t] \in members[t]

Fine(t) == Captained(t) /\ \A h \in Requests : Ground(t, h)

CrossInv == /\ IInv
            /\ \A t \in Teams \ crossed : ~ Crossing(t) /\ Fine(t)

(* A team that is not there owes nothing. *)
LEMMA FineGone == ASSUME NEW t, captain'[t] = Nobody PROVE Fine(t)'
BY DEF Fine, Captained, Ground, Exists

(* The end of a request, as the other requests see it. *)
LEMMA FineEnd ==
  ASSUME IInv, NEW t \in Teams, NEW h \in Requests, EndRequest(h),
         Captained(t)',
         \A g \in Requests \ {h} : pc[g] \in {"handOver", "kick", "leave"} => Ground(t, g)'
  PROVE  Fine(t)'
<1>1. pc \in [Requests -> Writes \cup {"idle"}]
  BY DEF IInv, TInv, TypeOK
<1>2. pc' = [pc EXCEPT ![h] = "idle"]
  BY DEF EndRequest
<1>3. ASSUME NEW g \in Requests, pc[g] \notin {"handOver", "kick", "leave"} \/ g = h
      PROVE  Ground(t, g)'
  <2>1. pc'[g] \notin {"handOver", "kick", "leave"}
    BY <1>1, <1>2, <1>3
  <2> QED
    BY <2>1 DEF Ground
<1> QED
  BY <1>3 DEF Fine

(* A request ends and the team keeps its row and its members. *)
LEMMA FineSame ==
  ASSUME IInv, NEW t \in Teams, Fine(t), NEW h \in Requests, EndRequest(h),
         captain'[t] = captain[t], count'[t] = count[t], id'[t] = id[t],
         members[t] \subseteq members'[t], accounts' \subseteq accounts
  PROVE  Fine(t)'
<1>1. pc \in [Requests -> Writes \cup {"idle"}] /\ tx \in [Requests -> Local]
  BY DEF IInv, TInv, TypeOK
<1>2. ASSUME NEW g \in Requests \ {h} PROVE pc'[g] = pc[g] /\ tx'[g] = tx[g]
  BY <1>1, <1>2 DEF EndRequest
<1>3. ASSUME NEW g \in Requests \ {h} PROVE Ground(t, g)'
  BY <1>2, <1>3 DEF Fine, Ground, Exists
<1>4. Captained(t)'
  BY DEF Fine, Captained, Exists
<1> QED
  BY <1>3, <1>4, FineEnd
-----------------------------------------------------------------------------
(* The writes that change the captain or the members. *)
LEMMA CreateFine ==
  ASSUME IInv, NEW t \in Teams, ~ Crossing(t), Fine(t), NEW h \in Requests, createTeam(h)
  PROVE  Fine(t)'
<1> DEFINE s == tx[h].team
           u == tx[h].user
<1>1. /\ EndRequest(h) /\ pc[h] = "create" /\ s \in Teams /\ u \in Users
  BY WriteHas DEF createTeam, Writes, UserWrites
<1>2. /\ captain' = [captain EXCEPT ![s] = u] /\ count' = [count EXCEPT ![s] = 1]
      /\ members' = [members EXCEPT ![s] = {u}] /\ id' = [id EXCEPT ![s] = created + 1]
      /\ UNCHANGED accounts
  BY DEF createTeam
<1>3. /\ captain \in [Teams -> accounts \cup {Nobody}] /\ count \in [Teams -> Int]
      /\ id \in [Teams -> Nat] /\ members \in [Teams -> SUBSET accounts]
      /\ pc \in [Requests -> Writes \cup {"idle"}] /\ tx \in [Requests -> Local]
  BY DEF IInv, TInv, TypeOK
<1>4. CASE s # t
  BY <1>1, <1>2, <1>3, <1>4, FineSame
<1>5. CASE s = t
  <2>1. captain'[t] = u /\ members'[t] = {u}
    BY <1>2, <1>3, <1>5
  <2>2. ASSUME NEW g \in Requests \ {h}, pc[g] \in {"handOver", "kick", "leave"}
        PROVE  Ground(t, g)'
    <3>1. pc'[g] = pc[g] /\ tx'[g] = tx[g]
      BY <1>1, <1>3, <2>2 DEF EndRequest
    <3>2. tx[g].team = t => pc[g] # "handOver" /\ tx[g].user # u
      BY <1>1, <1>5, <2>2 DEF Crossing, Cross
    <3> QED
      BY <2>1, <2>2, <3>1, <3>2 DEF Ground
  <2> QED
    BY <1>1, <2>1, <2>2, FineEnd DEF Captained
<1> QED
  BY <1>4, <1>5

LEMMA HandOverFine ==
  ASSUME IInv, NEW t \in Teams, ~ Crossing(t), Fine(t), NEW h \in Requests, handOverLeadership(h)
  PROVE  Fine(t)'
<1> DEFINE s == tx[h].team
           u == tx[h].user
<1>1. /\ EndRequest(h) /\ pc[h] = "handOver" /\ s \in Teams /\ u \in accounts
  BY WriteHas DEF handOverLeadership, Writes, UserWrites
<1>2. /\ captain' = [captain EXCEPT ![s] = IF Exists(s) THEN u ELSE @]
      /\ UNCHANGED <<count, id, members, accounts>>
  BY DEF handOverLeadership, rowVars, userVars
<1>3. /\ captain \in [Teams -> accounts \cup {Nobody}]
      /\ pc \in [Requests -> Writes \cup {"idle"}] /\ tx \in [Requests -> Local]
  BY DEF IInv, TInv, TypeOK
<1>4. CASE s # t \/ ~ Exists(t)
  BY <1>1, <1>2, <1>3, <1>4, FineSame
<1>5. CASE s = t /\ Exists(t)
  <2>1. captain'[t] = u /\ u \in members[t]
    BY <1>1, <1>2, <1>3, <1>5 DEF Fine, Ground
  <2>2. ASSUME NEW g \in Requests \ {h}, pc[g] \in {"handOver", "kick", "leave"}
        PROVE  Ground(t, g)'
    <3>1. pc'[g] = pc[g] /\ tx'[g] = tx[g]
      BY <1>1, <1>3, <2>2 DEF EndRequest
    <3>2. tx[g].team = t /\ pc[g] \in {"kick", "leave"} => tx[g].user # u
      BY <1>1, <1>5, <2>2 DEF Crossing, Cross
    <3>3. Ground(t, g)
      BY <2>2 DEF Fine
    <3> QED
      BY <1>2, <1>5, <2>1, <2>2, <3>1, <3>2, <3>3 DEF Ground
  <2> QED
    BY <1>1, <1>2, <2>1, <2>2, FineEnd DEF Captained
<1> QED
  BY <1>4, <1>5

LEMMA AcceptFine ==
  ASSUME IInv, NEW t \in Teams, ~ Crossing(t), Fine(t), NEW h \in Requests, acceptJoinRequest(h)
  PROVE  Fine(t)'
<1> DEFINE s == tx[h].team
           u == tx[h].user
<1>1. EndRequest(h) /\ pc[h] = "accept" /\ s \in Teams
  BY WriteHas DEF acceptJoinRequest, Writes, UserWrites
<1>2. /\ members' = [members EXCEPT ![s] = @ \cup {u}]
      /\ count' = [count EXCEPT ![s] = @ + 1] /\ UNCHANGED <<captain, id, accounts>>
  BY DEF acceptJoinRequest
<1>3. /\ count \in [Teams -> Int] /\ members \in [Teams -> SUBSET accounts]
      /\ pc \in [Requests -> Writes \cup {"idle"}] /\ tx \in [Requests -> Local]
  BY DEF IInv, TInv, TypeOK
<1>4. CASE s # t
  BY <1>1, <1>2, <1>3, <1>4, FineSame
<1>5. CASE s = t
  <2>1. members'[t] = members[t] \cup {u}
    BY <1>2, <1>3, <1>5
  <2>2. ASSUME NEW g \in Requests \ {h}, pc[g] \in {"handOver", "kick", "leave"}
        PROVE  Ground(t, g)'
    <3>1. pc'[g] = pc[g] /\ tx'[g] = tx[g]
      BY <1>1, <1>3, <2>2 DEF EndRequest
    <3>2. ~ (tx[g].team = t /\ pc[g] = "leave" /\ captain[t] = tx[g].user)
      BY <1>1, <1>5, <2>2 DEF Crossing, Cross
    <3>3. Ground(t, g)
      BY <2>2 DEF Fine
    <3> QED
      BY <1>2, <2>1, <3>1, <3>2, <3>3 DEF Ground, Exists
  <2> QED
    BY <1>1, <1>2, <2>1, <2>2, FineEnd DEF Captained, Fine, Exists
<1> QED
  BY <1>4, <1>5

(* A user other than the captain goes from the rows, and is counted down.  *)
LEMMA OneLessFine ==
  ASSUME IInv, NEW t \in Teams, ~ Crossing(t), Fine(t), NEW h \in Requests,
         EndRequest(h), pc[h] \in {"kick", "leave"}, tx[h].team \in Teams,
         CountDown(tx[h].team), UNCHANGED <<captain, id, accounts>>,
         members' = [members EXCEPT ![tx[h].team] = @ \ {tx[h].user}],
         Exists(tx[h].team) => captain[tx[h].team] # tx[h].user \/ tx[h].team # t
  PROVE  Fine(t)'
<1> DEFINE s == tx[h].team
           u == tx[h].user
<1>1. /\ count \in [Teams -> Int] /\ members \in [Teams -> SUBSET accounts]
      /\ pc \in [Requests -> Writes \cup {"idle"}] /\ tx \in [Requests -> Local]
  BY DEF IInv, TInv, TypeOK
<1>2. count' = [count EXCEPT ![s] = IF Exists(s) THEN @ - 1 ELSE @]
  BY DEF CountDown
<1>3. CASE s # t
  BY <1>1, <1>2, <1>3, FineSame
<1>4. CASE ~ Exists(t)
  BY <1>4, FineGone DEF Exists
<1>5. CASE s = t /\ Exists(t)
  <2>1. members'[t] = members[t] \ {u} /\ captain[t] # u
    BY <1>1, <1>5
  <2>2. ASSUME NEW g \in Requests \ {h}, pc[g] \in {"handOver", "kick", "leave"}
        PROVE  Ground(t, g)'
    <3>1. pc'[g] = pc[g] /\ tx'[g] = tx[g]
      BY <1>1, <2>2 DEF EndRequest
    <3>2. /\ ~ (tx[g].team = t /\ pc[g] = "leave" /\ captain[t] = tx[g].user)
          /\ ~ (tx[g].team = t /\ pc[g] = "handOver" /\ u = tx[g].user)
      BY <1>5, <2>2 DEF Crossing, Cross
    <3>3. Ground(t, g)
      BY <2>2 DEF Fine
    <3> QED
      BY <2>1, <3>1, <3>2, <3>3 DEF Ground, Exists
  <2> QED
    BY <2>1, <2>2, FineEnd DEF Captained, Fine, Exists
<1> QED
  BY <1>3, <1>4, <1>5

LEMMA KickFine ==
  ASSUME IInv, NEW t \in Teams, ~ Crossing(t), Fine(t), NEW h \in Requests, deleteMember(h)
  PROVE  Fine(t)'
<1>1. EndRequest(h) /\ pc[h] = "kick" /\ tx[h].team \in Teams
  BY WriteHas DEF deleteMember, Writes, UserWrites
<1>2. Exists(tx[h].team) => captain[tx[h].team] # tx[h].user \/ tx[h].team # t
  BY <1>1 DEF Fine, Ground
<1> QED
  BY <1>1, <1>2, OneLessFine DEF deleteMember

(* A captain who leaves is the only member: the team goes. *)
LEMMA LeaveFine ==
  ASSUME IInv, NEW t \in Teams, ~ Crossing(t), Fine(t), NEW h \in Requests, leaveTeam(h)
  PROVE  Fine(t)'
<1> DEFINE s == tx[h].team
           u == tx[h].user
<1>1. EndRequest(h) /\ pc[h] = "leave" /\ s \in Teams /\ Exists(s)
  BY WriteHas DEF leaveTeam, Writes, UserWrites
<1>2. CountDown(s) /\ UNCHANGED <<id, accounts>>
  BY DEF leaveTeam
<1>3. /\ count \in [Teams -> Int] /\ members \in [Teams -> SUBSET accounts]
  BY DEF IInv, TInv, TypeOK
<1>4. CASE count[s] = 1 /\ id[s] = tx[h].id
  <2>1. DropTeams({s})
    BY <1>4 DEF leaveTeam
  <2>2. CASE s = t
    <3>1. captain'[t] = Nobody
      BY <2>1, <2>2 DEF DropTeams
    <3> QED
      BY <3>1, FineGone
  <2>3. CASE s # t
    <3>1. captain'[t] = captain[t] /\ members'[t] = members[t]
      BY <2>1, <2>3 DEF DropTeams
    <3>2. count'[t] = count[t]
      BY <1>2, <1>3, <2>3 DEF CountDown
    <3> QED
      BY <1>1, <1>2, <3>1, <3>2, FineSame
  <2> QED
    BY <2>2, <2>3
<1>5. CASE ~ (count[s] = 1 /\ id[s] = tx[h].id)
  <2>1. members' = [members EXCEPT ![s] = @ \ {u}] /\ UNCHANGED captain
    BY <1>5 DEF leaveTeam
  <2>2. captain[s] # u \/ s # t
    BY <1>1, <1>5 DEF Fine, Ground
  <2> QED
    BY <1>1, <1>2, <2>1, <2>2, OneLessFine
<1> QED
  BY <1>4, <1>5

LEMMA TeamDeleteFine ==
  ASSUME IInv, NEW t \in Teams, Fine(t), NEW h \in Requests, route_team_delete(h)
  PROVE  Fine(t)'
<1>1. EndRequest(h) /\ DropTeams({tx[h].team}) /\ UNCHANGED <<count, id, accounts>>
  BY DEF route_team_delete
<1>2. CASE tx[h].team = t
  <2>1. captain'[t] = Nobody
    BY <1>1, <1>2 DEF DropTeams
  <2> QED
    BY <2>1, FineGone
<1>3. CASE tx[h].team # t
  <2>1. captain'[t] = captain[t] /\ members'[t] = members[t]
    BY <1>1, <1>3 DEF DropTeams
  <2> QED
    BY <1>1, <2>1, FineSame
<1> QED
  BY <1>2, <1>3

(* The other writes leave captain, count and members alone. *)
LEMMA OthersFine ==
  ASSUME IInv, NEW t \in Teams, Fine(t), NEW h \in Requests,
         \/ sendJoinRequest(h) \/ declineJoinRequest(h) \/ Abort(h)
         \/ \E lock \in BOOLEAN : updateTeam(h, lock)
  PROVE  Fine(t)'
<1>1. EndRequest(h) /\ UNCHANGED <<captain, count, id, members, accounts>>
  BY DEF sendJoinRequest, declineJoinRequest, Abort, updateTeam, Write, dbVars, teamVars, rowVars,
     userVars
<1> QED
  BY <1>1, FineSame
-----------------------------------------------------------------------------
(* A request that has read knows what it read. *)
LEMMA ReadsFine ==
  ASSUME IInv, NEW s \in Teams, Fine(s),
         NEW h \in Requests, NEW c \in Users, NEW u \in Users, NEW t \in Teams,
         \/ createTeam_Read(h, u, t) \/ leaveTeam_Read(h, u, t) \/ sendJoinRequest_Read(h, u, t)
         \/ deleteMember_Read(h, c, t, u) \/ handOverLeadership_Read(h, c, t, u)
         \/ acceptJoinRequest_Read(h, c, t, u) \/ declineJoinRequest_Read(h, c, t, u)
         \/ updateTeam_Read(h, c, t) \/ route_team_delete_Read(h, c, t)
  PROVE  Fine(s)'
<1>1. PICK w \in Writes, v \in Users \cup {Nobody} :
        /\ Read(h, w, t, v)
        /\ w \in UserWrites => v = u
        /\ w = "leave" => (captain[t] = u => count[t] = 1)
        /\ w = "kick" => captain[t] = c /\ u # c
        /\ w = "handOver" => u \in members[t]
  BY DEF createTeam_Read, leaveTeam_Read, sendJoinRequest_Read, deleteMember_Read,
     handOverLeadership_Read, acceptJoinRequest_Read, declineJoinRequest_Read, updateTeam_Read,
     route_team_delete_Read, UserWrites, Writes
<1>2. /\ pc \in [Requests -> Writes \cup {"idle"}] /\ tx \in [Requests -> Local]
  BY DEF IInv, TInv, TypeOK
<1> DEFINE x == [NoTx EXCEPT !.team = t, !.user = v, !.id = id[t]]
<1>3. x.team = t /\ x.user = v /\ x.id = id[t]
  BY DEF NoTx
<1>4. /\ pc'[h] = w /\ tx'[h] = x
      /\ \A g \in Requests \ {h} : pc'[g] = pc[g] /\ tx'[g] = tx[g]
      /\ UNCHANGED <<captain, count, id, members, accounts>>
  BY <1>1, <1>2 DEF Read, dbVars, teamVars, rowVars, userVars
<1> HIDE DEF x
<1>5. Captained(s)'
  BY <1>4 DEF Fine, Captained, Exists
<1>6. Ground(s, h)'
  BY <1>1, <1>3, <1>4 DEF Ground, UserWrites
<1>7. ASSUME NEW g \in Requests \ {h} PROVE Ground(s, g)'
  BY <1>4, <1>7 DEF Fine, Ground, Exists
<1> QED
  BY <1>5, <1>6, <1>7 DEF Fine

LEMMA LocksFine ==
  ASSUME IInv, NEW t \in Teams, Fine(t), NEW h \in Requests,
         DeleteTeamRequests(h) \/ DeleteTeamMembers(h) \/ ClearTeamUsers(h)
  PROVE  Fine(t)'
<1>1. PICK w, x, rows, cleared :
        LockRows(h, w, x, rows, cleared) /\ x \in {"deleteMembers", "clearUsers", "deleteTeam"}
  BY DEF DeleteTeamRequests, DeleteTeamMembers, ClearTeamUsers
<1>2. /\ pc \in [Requests -> Writes \cup {"idle"}] /\ tx \in [Requests -> Local]
  BY DEF IInv, TInv, TypeOK
<1>3. /\ pc'[h] = x /\ UNCHANGED <<captain, count, id, members, accounts>>
      /\ \A g \in Requests \ {h} : pc'[g] = pc[g] /\ tx'[g] = tx[g]
  BY <1>1, <1>2 DEF LockRows, dbVars, teamVars, rowVars, userVars
<1>4. Captained(t)'
  BY <1>3 DEF Fine, Captained, Exists
<1>5. Ground(t, h)'
  BY <1>1, <1>3 DEF Ground
<1>6. ASSUME NEW g \in Requests \ {h} PROVE Ground(t, g)'
  BY <1>3, <1>6 DEF Fine, Ground, Exists
<1> QED
  BY <1>4, <1>5, <1>6 DEF Fine

(* An account that goes takes the team it leads along; of another team a   *)
(* user who is being made captain is gone as a member and as a user.       *)
LEMMA AccountFine ==
  ASSUME IInv, NEW t \in Teams, Fine(t), NEW u \in Users, route_user_delete(u)
  PROVE  Fine(t)'
<1>1. /\ accounts' = accounts \ {u} /\ UNCHANGED <<count, id, pc, tx>>
      /\ captain'[t] = IF captain[t] = u THEN Nobody ELSE captain[t]
      /\ members'[t] = IF captain[t] = u THEN {} ELSE members[t] \ {u}
  BY DEF route_user_delete
<1>2. CASE captain[t] = u
  BY <1>1, <1>2, FineGone
<1>3. CASE captain[t] # u
  BY <1>1, <1>3 DEF Fine, Captained, Ground, Exists
<1> QED
  BY <1>2, <1>3

LEMMA NextFine ==
  ASSUME IInv, [Next]_vars, NEW s \in Teams, ~ Crossing(s), Fine(s)
  PROVE  Fine(s)'
<1>1. ASSUME NEW h \in Requests, MemberStep(h) \/ CaptainStep(h) \/ Abort(h) PROVE Fine(s)'
  <2>1. ASSUME NEW u \in Users, NEW t \in Teams,
               createTeam_Read(h, u, t) \/ leaveTeam_Read(h, u, t) \/ sendJoinRequest_Read(h, u, t)
        PROVE  Fine(s)'
    BY <2>1, ReadsFine
  <2>2. ASSUME NEW c \in Users, NEW u \in Users, NEW t \in Teams,
               \/ deleteMember_Read(h, c, t, u) \/ handOverLeadership_Read(h, c, t, u)
               \/ acceptJoinRequest_Read(h, c, t, u) \/ declineJoinRequest_Read(h, c, t, u)
        PROVE  Fine(s)'
    BY <2>2, ReadsFine
  <2>3. ASSUME NEW c \in Users, NEW t \in Teams,
               updateTeam_Read(h, c, t) \/ route_team_delete_Read(h, c, t)
        PROVE  Fine(s)'
    BY <2>3, ReadsFine
  <2>4. CASE \/ createTeam(h) \/ leaveTeam(h) \/ deleteMember(h) \/ handOverLeadership(h)
             \/ acceptJoinRequest(h) \/ route_team_delete(h)
    BY <2>4, CreateFine, LeaveFine, KickFine, HandOverFine, AcceptFine, TeamDeleteFine
  <2>5. CASE \/ sendJoinRequest(h) \/ declineJoinRequest(h) \/ Abort(h)
             \/ \E lock \in BOOLEAN : updateTeam(h, lock)
    BY <2>5, OthersFine
  <2>6. CASE DeleteTeamRequests(h) \/ DeleteTeamMembers(h) \/ ClearTeamUsers(h)
    BY <2>6, LocksFine
  <2> QED
    BY <1>1, <2>1, <2>2, <2>3, <2>4, <2>5, <2>6 DEF MemberStep, CaptainStep
<1>2. ASSUME NEW u \in Users, NEW t \in Teams, cancelJoinRequest(u, t) PROVE Fine(s)'
  BY <1>2 DEF cancelJoinRequest, Fine, Captained, Ground, Exists, teamVars, userVars
<1>3. ASSUME NEW u \in Users, route_user_delete(u) PROVE Fine(s)'
  BY <1>3, AccountFine
<1>4. CASE UNCHANGED vars
  BY <1>4 DEF Fine, Captained, Ground, Exists, vars, dbVars, teamVars, rowVars, userVars
<1> QED
  BY <1>1, <1>2, <1>3, <1>4 DEF Next

LEMMA CrossInitHolds == SerialInit => CrossInv
<1> SUFFICES ASSUME SerialInit PROVE CrossInv
  OBVIOUS
<1>1. IInv
  BY InitHolds DEF SerialInit
<1>2. ASSUME NEW t \in Teams PROVE ~ Crossing(t) /\ Fine(t)
  BY DEF SerialInit, Init, Crossing, Cross, Fine, Captained, Ground, Exists
<1> QED
  BY <1>1, <1>2 DEF CrossInv

LEMMA CrossKeeps == CrossInv /\ [SerialNext]_<<vars, overlapped, crossed>> => CrossInv'
<1> SUFFICES ASSUME CrossInv, [SerialNext]_<<vars, overlapped, crossed>> PROVE CrossInv'
  OBVIOUS
<1>1. IInv /\ [Next]_vars
  BY DEF CrossInv, SerialNext
<1>2. IInv'
  BY <1>1, StepKeeps
<1>3. ASSUME NEW t \in Teams \ crossed' PROVE ~ Crossing(t)' /\ Fine(t)'
  <2>1. t \in Teams \ crossed
    BY <1>3 DEF SerialNext
  <2>2. ~ Crossing(t) /\ Fine(t)
    BY <2>1 DEF CrossInv
  <2>3. ~ Crossing(t)'
    <3>1. CASE SerialNext
      BY <1>3, <3>1 DEF SerialNext
    <3>2. CASE UNCHANGED <<vars, overlapped, crossed>>
      BY <2>2, <3>2 DEF Crossing, Cross, vars, dbVars, teamVars
    <3> QED
      BY <3>1, <3>2
  <2> QED
    BY <1>1, <2>1, <2>2, <2>3, NextFine
<1> QED
  BY <1>2, <1>3 DEF CrossInv

LEMMA CrossInvariance == SerialSpec => []CrossInv
BY CrossInitHolds, CrossKeeps, PTL DEF SerialSpec

(* For any number of teams, users and requests at once, and with accounts  *)
(* deleted meanwhile: a team in which no two requests crossed has a        *)
(* captain who is a member.  leaveTeam, kick, accept and the hand-over of  *)
(* team.ts check before they write and do not check again; a check can go  *)
(* stale only by a request of one of the pairs of Cross.                   *)
THEOREM CaptainBelongs == SerialSpec => []CaptainIsMember
<1>1. CrossInv => CaptainIsMember
  BY DEF CrossInv, Fine, Captained, CaptainIsMember
<1> QED
  BY <1>1, CrossInvariance, PTL
=============================================================================
