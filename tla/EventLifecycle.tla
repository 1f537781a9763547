---------------------------- MODULE EventLifecycle ----------------------------
(***************************************************************************)
(* One event from its creation to its deletion: the organizers' handlers   *)
(* and the cron job that follows the clock, statement by statement.        *)
(*                                                                         *)
(* A tick of the cron job is one transaction at READ COMMITTED.  It reads  *)
(* whom to notify, moves the status with two UPDATEs that lock the row of  *)
(* the event when their WHERE holds, creates notifications OUTSIDE of the  *)
(* transaction, publishes and addresses them inside it, and commits.       *)
(* An organizer's request reads the event in a middleware and acts on that *)
(* copy later; deleting an event is four statements that commit one by one.*)
(*                                                                         *)
(* Not part of the state: names, descriptions and team limits of an event, *)
(* and the notifications of StartEvent and StopEvent, whose query names    *)
(* columns that team_members does not have and so always fails.            *)
(***************************************************************************)
EXTENDS Integers, FiniteSets

CONSTANTS
  Crons,        \* the cron jobs (one per running instance of the service)
  Organizers,   \* organizers' requests that may be in flight together
  Admins,       \* the requests among them that come from administrators
  Users,        \* user accounts
  MaxTime,      \* bound: the latest start_time or end_time
  MaxEdits,     \* bound: requests that change the event
  MaxFailures,  \* bound: transactions or processes that fail
  NoCron        \* a row nobody has locked

ASSUME LifecycleAssumption ==
  /\ Admins \subseteq Organizers
  /\ {MaxTime, MaxEdits, MaxFailures} \subseteq Nat
  /\ IsFiniteSet(Crons)
  /\ NoCron \notin Crons

VARIABLES
  status, startTime, endTime,  \* the row of the event in ctfs
  clock,                       \* the time of day
  owned,                       \* ctf_organizers has the organizer's row
  rooms,                       \* the number of its global chat rooms
  participants,                \* the members of the teams that participate
  accounts,                    \* the users that exist
  lock,                        \* the tick whose transaction locks the row
  inbox,                       \* inbox[c][u][k]: notices of kind k that c addressed to u
  unpublished,                 \* unpublished[k]: notifications not published
  pc, tick,                    \* per cron job: next statement, local variables
  req,                         \* per organizer's request: next step, the copy
  edits, failures,             \* counters of the bounds
  moves                        \* history: how often the status was moved

eventVars == <<status, startTime, endTime>>
ownVars   == <<owned, rooms>>
userVars  == <<participants, accounts>>
noteVars  == <<inbox, unpublished>>
cronVars  == <<lock, pc, tick>>
countVars == <<edits, failures>>
vars == <<eventVars, clock, ownVars, userVars, noteVars, cronVars, req, countVars, moves>>

Kinds    == {"start", "end"}
Statuses == {"draft", "published", "active", "ended"}
Times    == 0..MaxTime
CronPC   == {"idle", "starting", "ending", "opened", "closed"}
ReqPC    == {"idle", "authed", "noTeams", "noOwner", "noRooms"}

(* The local variables of a tick; open and close: what its UPDATEs did. *)
Tick   == [now : 0..(MaxTime + 1), to : [Kinds -> SUBSET Users],
           open : BOOLEAN, close : BOOLEAN, created : SUBSET Kinds]
NoTick == [now |-> 0, to |-> [k \in Kinds |-> {}],
           open |-> FALSE, close |-> FALSE, created |-> {}]
NoReq  == [pc |-> "idle", seen |-> "absent"]

(* Before CreateEvent: "absent"; a deleted row: "deleted". *)
Exists == status \in Statuses

Init ==
  /\ status = "absent" /\ startTime = 0 /\ endTime = 0 /\ clock = 0
  /\ owned = FALSE /\ rooms = 0
  /\ participants = {} /\ accounts = Users
  /\ lock = NoCron
  /\ inbox = [c \in Crons |-> [u \in Users |-> [k \in Kinds |-> 0]]]
  /\ unpublished = [k \in Kinds |-> 0]
  /\ pc = [c \in Crons |-> "idle"] /\ tick = [c \in Crons |-> NoTick]
  /\ req = [o \in Organizers |-> NoReq]
  /\ edits = 0 /\ failures = 0
  /\ moves = [published |-> 0, started |-> 0, opened |-> 0, closed |-> 0]
-----------------------------------------------------------------------------
(* Mutants: a WHERE that forgets the status, compares the wrong time or the *)
(* wrong status; no row lock is taken.                                      *)
MayOpen_AnyStatus(now) == Exists /\ startTime < now
MayOpen_EndTime(now) == status = "published" /\ endTime < now
MayClose_Published(now) == status = "published" /\ endTime < now
RowFree_Unlocked(c) == c \in Crons \cup {NoCron}

(* The WHERE clauses, against the row that is committed. *)
MayOpen(now)  == status = "published" /\ startTime < now
MayClose(now) == status = "active" /\ endTime < now

(* PostgreSQL lets one transaction at a time change the row. *)
RowFree(c) == lock \in {NoCron, c}

SelectStarting(c) ==
  /\ pc[c] = "idle"
  /\ Exists
  /\ tick' = [tick EXCEPT ![c].now = clock,
                          ![c].to["start"] = IF MayOpen(clock) THEN participants ELSE {}]
  /\ pc' = [pc EXCEPT ![c] = "starting"]
  /\ UNCHANGED <<eventVars, clock, ownVars, userVars, noteVars, lock, req, countVars, moves>>

SelectEnding(c) ==
  /\ pc[c] = "starting"
  /\ tick' = [tick EXCEPT ![c].to["end"] =
                IF MayClose(tick[c].now) THEN participants ELSE {}]
  /\ pc' = [pc EXCEPT ![c] = "ending"]
  /\ UNCHANGED <<eventVars, clock, ownVars, userVars, noteVars, lock, req, countVars, moves>>

(* Mutant: the UPDATE compares end_time, the SELECT start_time. *)
UpdateActive_EndTime(c) ==
  LET match == MayOpen(tick[c].now) /\ endTime < tick[c].now IN
  /\ pc[c] = "ending"
  /\ match => RowFree(c)
  /\ lock' = IF match THEN c ELSE lock
  /\ tick' = [tick EXCEPT ![c].open = match]
  /\ pc' = [pc EXCEPT ![c] = "opened"]
  /\ UNCHANGED <<eventVars, clock, ownVars, userVars, noteVars, req, countVars, moves>>

(* published -> active, in the transaction of the tick. *)
UpdateActive(c) ==
  LET match == MayOpen(tick[c].now) IN
  /\ pc[c] = "ending"
  /\ match => RowFree(c)
  /\ lock' = IF match THEN c ELSE lock
  /\ tick' = [tick EXCEPT ![c].open = match]
  /\ pc' = [pc EXCEPT ![c] = "opened"]
  /\ UNCHANGED <<eventVars, clock, ownVars, userVars, noteVars, req, countVars, moves>>

(* active -> ended; the transaction sees its own UPDATE, so one tick may do both. *)
UpdateEnded(c) ==
  LET match == MayClose(tick[c].now) \/ (tick[c].open /\ endTime < tick[c].now) IN
  /\ pc[c] = "opened"
  /\ match => RowFree(c)
  /\ lock' = IF match THEN c ELSE lock
  /\ tick' = [tick EXCEPT ![c].close = match]
  /\ pc' = [pc EXCEPT ![c] = "closed"]
  /\ UNCHANGED <<eventVars, clock, ownVars, userVars, noteVars, req, countVars, moves>>

(* The kinds of notice the tick has yet to create a notification for. *)
ToCreate(c) == {k \in Kinds : tick[c].to[k] # {}} \ tick[c].created

(* h.Db, not tx: the notification is committed at once. "start" comes first. *)
CreateNotification(c, k) ==
  /\ pc[c] = "closed"
  /\ k \in ToCreate(c)
  /\ k = "end" => "start" \notin ToCreate(c)
  /\ unpublished' = [unpublished EXCEPT ![k] = @ + 1]
  /\ tick' = [tick EXCEPT ![c].created = @ \cup {k}]
  /\ UNCHANGED <<eventVars, clock, ownVars, userVars, inbox, lock, pc, req, countVars, moves>>

EndTick(c) ==
  /\ pc' = [pc EXCEPT ![c] = "idle"]
  /\ tick' = [tick EXCEPT ![c] = NoTick]
  /\ lock' = IF lock = c THEN NoCron ELSE lock

(* The rows of notification_users refer to accounts that exist. *)
Deliverable(c) == UNION {tick[c].to[k] : k \in Kinds} \subseteq accounts

(* What the UPDATEs of the tick made of the status. *)
StatusAfter(c) ==
  IF tick[c].close THEN "ended" ELSE IF tick[c].open THEN "active" ELSE status

(* Publish the notifications, address them to the users read first, COMMIT. *)
CommitTick(c) ==
  LET t == tick[c] IN
  /\ pc[c] = "closed"
  /\ ToCreate(c) = {}
  /\ Deliverable(c)
  /\ status' = StatusAfter(c)
  /\ inbox' = [inbox EXCEPT ![c] = [u \in Users |-> [k \in Kinds |->
                 @[u][k] + IF u \in t.to[k] THEN 1 ELSE 0]]]
  /\ unpublished' = [k \in Kinds |-> unpublished[k] - IF k \in t.created THEN 1 ELSE 0]
  /\ moves' = [moves EXCEPT !.opened = @ + IF t.open THEN 1 ELSE 0,
                            !.closed = @ + IF t.close THEN 1 ELSE 0]
  /\ EndTick(c)
  /\ UNCHANGED <<startTime, endTime, clock, ownVars, userVars, req, countVars>>

(* An error rolls the transaction back: a user of its list is gone, or the *)
(* database fails.  A notification that was created is there to stay.      *)
FailTick(c) ==
  /\ pc[c] # "idle"
  /\ \/ ~ Deliverable(c) /\ UNCHANGED failures
     \/ failures < MaxFailures /\ failures' = failures + 1
  /\ EndTick(c)
  /\ UNCHANGED <<eventVars, clock, ownVars, userVars, noteVars, req, edits, moves>>
-----------------------------------------------------------------------------
(* CreateEvent: event, global chat room and organizer in one transaction. *)
CreateEvent(isOpen, start, end) ==
  /\ status = "absent"
  /\ status' = IF isOpen THEN "published" ELSE "draft"
  /\ startTime' = start /\ endTime' = end
  /\ rooms' = 1 /\ owned' = TRUE
  /\ moves' = [moves EXCEPT !.published = @ + IF isOpen THEN 1 ELSE 0]
  /\ UNCHANGED <<clock, userVars, noteVars, cronVars, req, countVars>>

(* EnsureEventOwnership: the copy of the event the handler will act on. *)
EnsureEventOwnership(o) ==
  /\ req[o].pc = "idle"
  /\ Exists
  /\ edits < MaxEdits
  /\ owned \/ o \in Admins
  /\ req' = [req EXCEPT ![o] = [pc |-> "authed", seen |-> status]]
  /\ UNCHANGED <<eventVars, clock, ownVars, userVars, noteVars, cronVars, countVars, moves>>

(* A request that changes the event ends with a response. *)
Answer(o) ==
  /\ req[o].pc = "authed"
  /\ edits < MaxEdits
  /\ edits' = edits + 1
  /\ req' = [req EXCEPT ![o] = NoReq]

(* A guard of the handler refuses, or the row is gone: nothing is written. *)
RefuseRequest(o) ==
  /\ req[o].pc = "authed"
  /\ req' = [req EXCEPT ![o] = NoReq]
  /\ UNCHANGED <<eventVars, clock, ownVars, userVars, noteVars, cronVars, countVars, moves>>

(* Every start creates a global chat room besides the one of CreateEvent. *)
StartEvent(o) ==
  /\ Answer(o)
  /\ req[o].seen # "active"
  /\ Exists /\ RowFree(NoCron)
  /\ status' = "active" /\ startTime' = clock
  /\ rooms' = rooms + 1
  /\ moves' = [moves EXCEPT !.started = @ + 1]
  /\ UNCHANGED <<endTime, clock, owned, userVars, noteVars, cronVars, failures>>

StopEvent(o) ==
  /\ Answer(o)
  /\ req[o].seen # "ended"
  /\ Exists /\ RowFree(NoCron)
  /\ status' = "ended" /\ endTime' = clock
  /\ UNCHANGED <<startTime, clock, ownVars, userVars, noteVars, cronVars, failures, moves>>

(* UpdateEvent writes the columns the request names, whatever they are. *)
UpdateEvent(o, s, start, end) ==
  /\ Answer(o)
  /\ Exists /\ RowFree(NoCron)
  /\ status' = s /\ startTime' = start /\ endTime' = end
  /\ moves' = [moves EXCEPT
                 !.published = @ + IF s = "published" /\ status # s THEN 1 ELSE 0,
                 !.started = @ + IF s = "active" /\ status # s THEN 1 ELSE 0]
  /\ UNCHANGED <<clock, ownVars, userVars, noteVars, cronVars, failures>>

(* DeleteEvent: h.Db, not tx, so each DELETE is a transaction of its own.  *)
DeleteParticipations(o) ==
  /\ req[o].pc = "authed"
  /\ req[o].seen # "active"
  /\ participants' = {}
  /\ req' = [req EXCEPT ![o].pc = "noTeams"]
  /\ UNCHANGED <<eventVars, clock, ownVars, accounts, noteVars, cronVars, countVars, moves>>

DeleteOrganizers(o) ==
  /\ req[o].pc = "noTeams"
  /\ owned' = FALSE
  /\ req' = [req EXCEPT ![o].pc = "noOwner"]
  /\ UNCHANGED <<eventVars, clock, rooms, userVars, noteVars, cronVars, countVars, moves>>

DeleteChatRooms(o) ==
  /\ req[o].pc = "noOwner"
  /\ rooms' = 0
  /\ req' = [req EXCEPT ![o].pc = "noRooms"]
  /\ UNCHANGED <<eventVars, clock, owned, userVars, noteVars, cronVars, countVars, moves>>

(* The foreign keys cascade to what has been added to the event since. *)
DeleteCtf(o) ==
  /\ req[o].pc = "noRooms"
  /\ RowFree(NoCron)
  /\ status' = "deleted"
  /\ participants' = {} /\ rooms' = 0
  /\ req' = [req EXCEPT ![o] = NoReq]
  /\ UNCHANGED <<startTime, endTime, clock, owned, accounts, noteVars, cronVars, countVars, moves>>
-----------------------------------------------------------------------------
(* A team joins or leaves the event, or a user a team that participates. *)
ChangeParticipants(u) ==
  /\ Exists
  /\ status # "draft" \/ participants # {}
  /\ participants' = IF u \in participants THEN participants \ {u}
                     ELSE participants \cup ({u} \cap accounts)
  /\ UNCHANGED <<eventVars, clock, ownVars, accounts, noteVars, cronVars, req, countVars, moves>>

(* Mutant: the memberships of a deleted account are not deleted with it. *)
DeleteUser_KeepsMemberships(u) ==
  /\ u \in accounts
  /\ accounts' = accounts \ {u}
  /\ UNCHANGED <<eventVars, clock, ownVars, participants, noteVars, cronVars, req, countVars, moves>>

(* The user service deletes an account and, by the foreign keys, its rows. *)
DeleteUser(u) ==
  /\ u \in accounts
  /\ accounts' = accounts \ {u}
  /\ participants' = participants \ {u}
  /\ inbox' = [c \in Crons |-> [inbox[c] EXCEPT ![u] = [k \in Kinds |-> 0]]]
  /\ UNCHANGED <<eventVars, clock, ownVars, unpublished, cronVars, req, countVars, moves>>

(* The service dies: open transactions are rolled back, requests are gone. *)
Crash ==
  /\ failures < MaxFailures
  /\ failures' = failures + 1
  /\ lock' = NoCron
  /\ pc' = [c \in Crons |-> "idle"] /\ tick' = [c \in Crons |-> NoTick]
  /\ req' = [o \in Organizers |-> NoReq]
  /\ UNCHANGED <<eventVars, clock, ownVars, userVars, noteVars, edits, moves>>

Pass ==
  /\ clock <= MaxTime
  /\ clock' = clock + 1
  /\ UNCHANGED <<eventVars, ownVars, userVars, noteVars, cronVars, req, countVars, moves>>

SyncCtfStatus(c) ==
  \/ SelectStarting(c) \/ SelectEnding(c)
  \/ UpdateActive(c) \/ UpdateEnded(c)
  \/ \E k \in Kinds : CreateNotification(c, k)
  \/ CommitTick(c)

Organize(o) ==
  \/ EnsureEventOwnership(o) \/ RefuseRequest(o)
  \/ StartEvent(o) \/ StopEvent(o)
  \/ \E s \in Statuses, start, end \in Times : UpdateEvent(o, s, start, end)
  \/ DeleteParticipations(o) \/ DeleteOrganizers(o)
  \/ DeleteChatRooms(o) \/ DeleteCtf(o)

Next ==
  \/ \E c \in Crons : SyncCtfStatus(c) \/ FailTick(c)
  \/ \E isOpen \in BOOLEAN, start, end \in Times : CreateEvent(isOpen, start, end)
  \/ \E o \in Organizers : Organize(o)
  \/ \E u \in Users : ChangeParticipants(u) \/ DeleteUser(u)
  \/ Crash
  \/ Pass

Spec == Init /\ [][Next]_vars

(***************************************************************************)
(* The cron job ticks every three seconds and a statement that can run is  *)
(* run; a transaction that waits for the row is queued, so it gets it.     *)
(***************************************************************************)
Fairness ==
  \A c \in Crons :
    /\ WF_vars(SyncCtfStatus(c) \/ (~ Deliverable(c) /\ FailTick(c)))
    /\ SF_vars(UpdateActive(c)) /\ SF_vars(UpdateEnded(c))

FairSpec == Spec /\ Fairness
=============================================================================
