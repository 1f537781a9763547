------------------------------- MODULE Scoring -------------------------------
(***************************************************************************)
(* Flag submission in the event service, statement by statement.           *)
(*                                                                         *)
(* A request is one handler goroutine: PlayerAuthMiddleware reads the      *)
(* event, EnsureEventAccess the participation, and SubmitFlag then runs    *)
(* ProcessSolve in one database transaction at READ COMMITTED.  The module *)
(* keeps the committed tables of Scoreboard, the row locks PostgreSQL      *)
(* holds for the open transactions and, per request, what its transaction  *)
(* has read and not yet made visible.  The effects of a transaction appear *)
(* when it commits; until then the rows it wrote are locked.               *)
(*                                                                         *)
(* Not part of the state: wall-clock columns (last_attempt_at, created_at),*)
(* the text of flags (a submission is right or wrong), the responses, and  *)
(* the row lock on profiles, which a transaction takes by its last         *)
(* statement and so never holds while it waits for another row.            *)
(***************************************************************************)
EXTENDS ScoreTables

CONSTANTS
  Requests,    \* the handler goroutines that may be in flight together
  MaxTeams,    \* ctfs.max_teams
  MaxEntries,  \* bound: how often a team joins the event
  Free         \* a row nobody has locked

ASSUME ScoringAssumption ==
  /\ MaxTeams \in Nat \ {0}
  /\ MaxEntries \in Nat \ {0}
  /\ IsFiniteSet(Requests)
  /\ Free \notin Requests

VARIABLES
  status,      \* ctfs.status
  touched,     \* history: the challenges an organizer edited, unlinked or
               \* linked with counters of its own
  linkLock,    \* linkLock[c]: the request whose transaction locks link[c]
  partLock,    \* partLock[t]: ... whose transaction locks the participation
  pc,          \* pc[q]: the next statement of q
  ctx,         \* ctx[q]: the request context the middlewares filled
  tx           \* tx[q]: the local variables of ProcessSolve

lockVars == <<linkLock, partLock>>
reqVars  == <<pc, ctx, tx>>
vars     == <<boardVars, status, touched, lockVars, reqVars>>

PC == {"idle", "authed", "joining", "admitted", "locked", "attempted", "scored"}

(* Between the FOR UPDATE and the end of the transaction. *)
InTransaction == {"locked", "attempted", "scored"}

Context == [team : Teams \cup {NoTeam}, chall : Challenges \cup {NoLink},
            correct : BOOLEAN, active : BOOLEAN]
Local   == [link : LinkRow \cup {NoLink}, points : Int, loss : Int,
            todo : SUBSET Teams]

NoContext == [team |-> NoTeam, chall |-> NoLink, correct |-> FALSE, active |-> FALSE]
NoLocal   == [link |-> NoLink, points |-> 0, loss |-> 0, todo |-> {}]

Init ==
  /\ InitBoard
  /\ status = "published"
  /\ touched = {}
  /\ linkLock = [c \in Challenges |-> Free]
  /\ partLock = [t \in Teams |-> Free]
  /\ pc = [q \in Requests |-> "idle"]
  /\ ctx = [q \in Requests |-> NoContext]
  /\ tx = [q \in Requests |-> NoLocal]
-----------------------------------------------------------------------------
(* Mutants: a SELECT without FOR UPDATE, an UPDATE that takes no lock. *)
LinkFree_Unlocked(c) == c \in Challenges
(* The row locks PostgreSQL grants: one transaction at a time per row. *)
LinkFree(c) == linkLock[c] = Free
ParticipationFree(t) == partLock[t] = Free

(* Mutant: the lookup in solves is dropped. *)
AlreadySolved_NotChecked(t, c) == FALSE

(* unique_team_solve, as ProcessSolve looks it up. *)
AlreadySolved(t, c) == t \in Solvers(rows[c])

(* Mutant: off by one. *)
EventFull_OffByOne == Cardinality(registered) > MaxTeams

EventFull == Cardinality(registered) >= MaxTeams

(* The end of a request: the response is sent, its context is gone.        *)
Respond(q) ==
  /\ pc' = [pc EXCEPT ![q] = "idle"]
  /\ ctx' = [ctx EXCEPT ![q] = NoContext]
  /\ tx' = [tx EXCEPT ![q] = NoLocal]

(* The end of its transaction releases every row lock it holds. *)
ReleaseLocks(q) ==
  /\ linkLock' = [c \in Challenges |-> IF linkLock[c] = q THEN Free ELSE linkLock[c]]
  /\ partLock' = [t \in Teams |-> IF partLock[t] = q THEN Free ELSE partLock[t]]

(* ROLLBACK: nothing the transaction wrote becomes visible. *)
Rollback(q) ==
  /\ ReleaseLocks(q)
  /\ Respond(q)
  /\ UNCHANGED <<boardVars, status, touched>>

(* A response without a transaction, or with one that wrote nothing. *)
Refuse(q) ==
  /\ Respond(q)
  /\ UNCHANGED <<boardVars, status, touched, lockVars>>
-----------------------------------------------------------------------------
(* A member of team t calls; the middleware remembers the status it read. *)
PlayerAuth(q, t) ==
  /\ pc[q] = "idle"
  /\ status \in {"published", "active"}
  /\ pc' = [pc EXCEPT ![q] = "authed"]
  /\ ctx' = [ctx EXCEPT ![q].team = t, ![q].active = (status = "active")]
  /\ UNCHANGED <<boardVars, status, touched, lockVars, tx>>

(* The handler rejects the call: not the captain, team size, bad input. *)
RefuseCall(q) ==
  /\ pc[q] = "authed"
  /\ Refuse(q)

(* The event was active when read, the team is registered now. *)
EnsureEventAccess(q, c, correct) ==
  /\ pc[q] = "authed"
  /\ IF ctx[q].active /\ ctx[q].team \in registered
     THEN /\ pc' = [pc EXCEPT ![q] = "admitted"]
          /\ ctx' = [ctx EXCEPT ![q].chall = c, ![q].correct = correct]
          /\ UNCHANGED <<boardVars, status, touched, lockVars, tx>>
     ELSE Refuse(q)

(* SELECT ... FOR UPDATE, the solves lookup and attempts + 1. *)
LockLink(q) ==
  LET c == ctx[q].chall IN
  /\ pc[q] = "admitted"
  /\ LinkFree(c)
  /\ IF c \in Linked /\ ~ AlreadySolved(ctx[q].team, c)
     THEN /\ linkLock' = [linkLock EXCEPT ![c] = q]
          /\ tx' = [tx EXCEPT ![q].link = [link[c] EXCEPT !.attempts = @ + 1]]
          /\ pc' = [pc EXCEPT ![q] = "locked"]
          /\ UNCHANGED <<boardVars, status, touched, partLock, ctx>>
     ELSE Refuse(q)

(* UPDATE participations SET last_attempt_at: locks the row, if any. *)
TouchParticipation(q) ==
  LET t == ctx[q].team IN
  /\ pc[q] = "locked"
  /\ t \in registered => ParticipationFree(t)
  /\ partLock' = [partLock EXCEPT ![t] = IF t \in registered THEN q ELSE @]
  /\ pc' = [pc EXCEPT ![q] = "attempted"]
  /\ UNCHANGED <<boardVars, status, touched, linkLock, ctx, tx>>

(* Mutant: the handler answers and leaves its transaction open. *)
RejectFlag_LeftOpen(q) ==
  /\ pc[q] = "attempted"
  /\ ~ ctx[q].correct
  /\ Refuse(q)

(* VerifyFlag failed: the error undoes attempts and last_attempt_at too. *)
RejectFlag(q) ==
  /\ pc[q] = "attempted"
  /\ ~ ctx[q].correct
  /\ Rollback(q)

(* Mutant: first blood is overwritten by every solve. *)
FirstBloodAfter_Latest(l, t) == t

(* first_blood_id is set while first_blood_at is null. *)
FirstBloodAfter(l, t) == IF l.firstBlood = NoTeam THEN t ELSE l.firstBlood

(* The new reward, first blood, and the teams the UPDATE finds to charge. *)
ScoreSolve(q) ==
  LET l == tx[q].link
      t == ctx[q].team
      c == ctx[q].chall
  IN
  /\ pc[q] = "attempted"
  /\ ctx[q].correct
  /\ \E r \in CalculateNewReward(l) :
       tx' = [tx EXCEPT ![q] =
                [link   |-> [l EXCEPT !.solves = @ + 1, !.reward = r,
                               !.firstBlood = FirstBloodAfter(l, t)],
                 points |-> PointsToAward(l),
                 loss   |-> l.reward - r,
                 todo   |-> IF l.reward > r
                            THEN registered \cap Solvers(rows[c])
                            ELSE {}]]
  /\ pc' = [pc EXCEPT ![q] = "scored"]
  /\ UNCHANGED <<boardVars, status, touched, lockVars, ctx>>

(* The UPDATE of the earlier solvers locks their rows one after another. *)
ChargeSolver(q, v) ==
  /\ pc[q] = "scored"
  /\ v \in tx[q].todo
  /\ ParticipationFree(v)
  /\ partLock' = [partLock EXCEPT ![v] = q]
  /\ tx' = [tx EXCEPT ![q].todo = @ \ {v}]
  /\ UNCHANGED <<boardVars, status, touched, linkLock, pc, ctx>>

(* Mutant: the solver pays for its own solve. *)
Charged_AlsoSolver(q) == {v \in Teams : partLock[v] = q}

(* The earlier solvers whose rows the transaction has decremented. *)
Charged(q) == {v \in Teams : partLock[v] = q /\ v # ctx[q].team}

(* INSERT INTO solves, the credit of the team, COMMIT.  The profile that    *)
(* is credited is the one the token names: the player's own, after a rename *)
(* nobody's or that of whoever took the name.                               *)
RecordSolve(q) ==
  LET t == ctx[q].team
      c == ctx[q].chall
      l == tx[q].link
  IN
  /\ pc[q] = "scored"
  /\ tx[q].todo = {}
  /\ t \in registered => ParticipationFree(t) \/ partLock[t] = q
  /\ link' = [link EXCEPT ![c].attempts = l.attempts, ![c].solves = l.solves,
                          ![c].reward = l.reward, ![c].firstBlood = l.firstBlood]
  /\ rows' = [rows EXCEPT ![c] = Append(@, [team |-> t, score |-> tx[q].points])]
  /\ score' = [v \in Teams |-> ScoreAfter(v, t, tx[q].points, Charged(q), tx[q].loss)]
  /\ solved' = [solved EXCEPT ![t] = IF t \in registered THEN @ + 1 ELSE @]
  /\ \E p \in Players \cup {NoPlayer} : profile' = Credited(p, tx[q].points)
  /\ ReleaseLocks(q)
  /\ Respond(q)
  /\ UNCHANGED <<registered, entries, status, touched>>
-----------------------------------------------------------------------------
(* JoinEvent up to its checks: not registered, and the event is not full.  *)
JoinCheck(q) ==
  LET t == ctx[q].team IN
  /\ pc[q] = "authed"
  /\ entries[t] < MaxEntries
  /\ IF t \notin registered /\ ~ EventFull
     THEN /\ pc' = [pc EXCEPT ![q] = "joining"]
          /\ UNCHANGED <<boardVars, status, touched, lockVars, ctx, tx>>
     ELSE Refuse(q)

(* Mutant: the row is revived with the solves of an earlier participation. *)
JoinInsert_KeepsSolves(q) ==
  LET t == ctx[q].team IN
  /\ pc[q] = "joining"
  /\ IF t \notin registered
     THEN /\ registered' = registered \cup {t}
          /\ score' = [score EXCEPT ![t] = 0]
          /\ entries' = [entries EXCEPT ![t] = @ + 1]
          /\ Respond(q)
          /\ UNCHANGED <<link, rows, solved, profile, status, touched, lockVars>>
     ELSE Refuse(q)

(* Its writes: a second insert of the same team breaks unique_participation. *)
JoinInsert(q) ==
  LET t == ctx[q].team IN
  /\ pc[q] = "joining"
  /\ IF t \notin registered
     THEN /\ registered' = registered \cup {t}
          /\ score' = [score EXCEPT ![t] = 0]
          /\ solved' = [solved EXCEPT ![t] = 0]
          /\ entries' = [entries EXCEPT ![t] = @ + 1]
          /\ Respond(q)
          /\ UNCHANGED <<link, rows, profile, status, touched, lockVars>>
     ELSE Refuse(q)

(* LeaveEvent deletes the participation only: solves and chat room remain. *)
(* An UPDATE that was to change the row skips it once it is gone.          *)
LeaveEvent(q) ==
  LET t == ctx[q].team IN
  /\ pc[q] = "authed"
  /\ t \in registered
  /\ ParticipationFree(t)
  /\ registered' = registered \ {t}
  /\ pc' = [pc EXCEPT ![q] = "idle"]
  /\ ctx' = [ctx EXCEPT ![q] = NoContext]
  /\ tx' = [p \in Requests |->
              IF p = q THEN NoLocal ELSE [tx[p] EXCEPT !.todo = @ \ {t}]]
  /\ UNCHANGED <<link, rows, score, solved, entries, profile, status, touched, lockVars>>
-----------------------------------------------------------------------------
LinkChallenge(c, cfg, k) ==
  /\ c \notin Linked
  /\ link' = [link EXCEPT ![c] = NewLink(WithColumnDefaults(cfg), k)]
  /\ touched' = IF k = NoCounters THEN touched ELSE touched \cup {c}
  /\ UNCHANGED <<rows, registered, score, solved, entries, profile,
                 status, lockVars, reqVars>>

(* A raw UPDATE of whatever columns the request names, counters included. *)
UpdateChallenge(c, cfg) ==
  /\ c \in Linked
  /\ LinkFree(c)
  /\ cfg.decay > 0
  /\ \E k \in Presets \cup {CountersOf(link[c])} :
       link' = [link EXCEPT ![c] = WithSettings(@, cfg, k)]
  /\ touched' = touched \cup {c}
  /\ UNCHANGED <<rows, registered, score, solved, entries, profile,
                 status, lockVars, reqVars>>

(* Deletes the link and its counters; the rows of solves remain. *)
UnlinkChallenge(c) ==
  /\ c \in Linked
  /\ LinkFree(c)
  /\ link' = [link EXCEPT ![c] = NoLink]
  /\ touched' = touched \cup {c}
  /\ UNCHANGED <<rows, registered, score, solved, entries, profile,
                 status, lockVars, reqVars>>

StartEvent ==
  /\ status # "active"
  /\ Linked # {}
  /\ status' = "active"
  /\ UNCHANGED <<boardVars, touched, lockVars, reqVars>>

StopEvent ==
  /\ status # "ended"
  /\ status' = "ended"
  /\ UNCHANGED <<boardVars, touched, lockVars, reqVars>>

(* The cron job: the clock passed start_time or end_time. *)
SyncCtfStatus ==
  /\ \/ status = "published" /\ status' = "active"
     \/ status = "active" /\ status' = "ended"
  /\ UNCHANGED <<boardVars, touched, lockVars, reqVars>>
-----------------------------------------------------------------------------
(* The requests whose row locks the current statement of q waits for. *)
Blockers(q) ==
  LET t == ctx[q].team IN
  CASE pc[q] = "admitted" -> {linkLock[ctx[q].chall]} \ {Free}
    [] pc[q] = "locked"   -> {partLock[v] : v \in {t} \cap registered} \ {Free}
    [] pc[q] = "scored" /\ tx[q].todo # {} ->
         IF \E v \in tx[q].todo : partLock[v] = Free
         THEN {} ELSE {partLock[v] : v \in tx[q].todo}
    [] pc[q] = "scored" /\ tx[q].todo = {} ->
         {partLock[v] : v \in {t} \cap registered} \ {Free, q}
    [] OTHER -> {}

(* q waits, through others, for itself. *)
Deadlocked(q) ==
  /\ Blockers(q) # {}
  /\ \A S \in SUBSET Requests :
       (Blockers(q) \subseteq S /\ \A p \in S : Blockers(p) \subseteq S) => q \in S

(* PostgreSQL breaks a deadlock: one of its transactions is rolled back. *)
DeadlockAbort(q) ==
  /\ Deadlocked(q)
  /\ Rollback(q)

(* The service dies: its connections close, PostgreSQL rolls back. *)
Restart ==
  /\ \E q \in Requests : pc[q] # "idle"
  /\ linkLock' = [c \in Challenges |-> Free]
  /\ partLock' = [t \in Teams |-> Free]
  /\ pc' = [q \in Requests |-> "idle"]
  /\ ctx' = [q \in Requests |-> NoContext]
  /\ tx' = [q \in Requests |-> NoLocal]
  /\ UNCHANGED <<boardVars, status, touched>>

(* The handler behind the middlewares of q executes its next statement. *)
Handle(q) ==
  \/ RefuseCall(q) \/ JoinCheck(q) \/ LeaveEvent(q)
  \/ \E c \in Challenges, correct \in BOOLEAN : EnsureEventAccess(q, c, correct)

Organize ==
  \/ \E c \in Challenges, cfg \in Configs :
        UpdateChallenge(c, cfg) \/ \E k \in Presets : LinkChallenge(c, cfg, k)
  \/ \E c \in Challenges : UnlinkChallenge(c)
  \/ StartEvent \/ StopEvent \/ SyncCtfStatus

Next ==
  \/ \E q \in Requests, t \in Teams : PlayerAuth(q, t) \/ ChargeSolver(q, t)
  \/ \E q \in Requests :
        \/ Handle(q) \/ JoinInsert(q)
        \/ LockLink(q) \/ TouchParticipation(q)
        \/ RejectFlag(q) \/ ScoreSolve(q) \/ RecordSolve(q)
        \/ DeadlockAbort(q)
  \/ Organize
  \/ Restart

Spec == Init /\ [][Next]_vars

(* The steps of q that wait for no row lock, and those that may. *)
Compute(q) == Handle(q) \/ JoinInsert(q) \/ RejectFlag(q) \/ ScoreSolve(q)
LockRows(q) ==
  \/ LockLink(q) \/ TouchParticipation(q) \/ RecordSolve(q)
  \/ \E v \in Teams : ChargeSolver(q, v)

(***************************************************************************)
(* A statement that can run is run.  PostgreSQL queues the transactions    *)
(* waiting for a row, so one of them is not passed over for ever: the      *)
(* steps that wait for a row lock are strongly fair.                       *)
(***************************************************************************)
Fairness ==
  /\ \A q \in Requests : WF_vars(Compute(q)) /\ SF_vars(LockRows(q))
  /\ WF_vars(\E q \in Requests : DeadlockAbort(q))

FairSpec == Spec /\ Fairness
=============================================================================
