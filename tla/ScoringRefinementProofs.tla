----------------------- MODULE ScoringRefinementProofs -----------------------
(***************************************************************************)
(* Flag submission, statement by statement, implements the atomic          *)
(* Scoreboard; and the bound on how far an event can be overbooked.        *)
(***************************************************************************)
EXTENDS ScoringProofs

(***************************************************************************)
(* While a submission is scored, the teams it charges are the earlier      *)
(* solvers, and whoever it missed has joined more than once.               *)
(***************************************************************************)
ChargeInv(q) ==
  LET c == ctx[q].chall
      t == ctx[q].team
  IN  pc[q] = "scored" =>
        /\ tx[q].todo # {} => tx[q].loss > 0
        /\ \A v \in tx[q].todo : v \in Solvers(rows[c])
        /\ \A v \in Teams : (partLock[v] = q /\ v # t) =>
             tx[q].loss > 0 /\ v \in Solvers(rows[c])
        /\ tx[q].loss > 0 =>
             \A v \in registered \cap Solvers(rows[c]) :
               v \in tx[q].todo \/ partLock[v] = q \/ entries[v] > 1

(* Whoever is registered, solves or has solved has joined before. *)
EntriesInv ==
  /\ \A v \in registered : entries[v] >= 1
  /\ \A c \in Challenges : \A v \in Solvers(rows[c]) : entries[v] >= 1
  /\ \A q \in Requests :
       pc[q] \in InTransaction \cup {"admitted"} => entries[ctx[q].team] >= 1

RInv == SInv /\ EntriesInv /\ \A q \in Requests : ChargeInv(q)
-----------------------------------------------------------------------------
(* The solvers of a challenge are teams. *)
LEMMA SolversAreTeams ==
  ASSUME NEW s \in Seq(SolveRow)
  PROVE  Solvers(s) \subseteq Teams
<1>1. \A i \in DOMAIN s : s[i] \in SolveRow
  BY LenProperties, ElementOfSeq
<1> QED
  BY <1>1 DEF Solvers, SolveRow

LEMMA InitRInv == Init => RInv
<1> SUFFICES ASSUME Init PROVE RInv
  OBVIOUS
<1>1. SInv
  BY InitSInv
<1>2. \A c \in Challenges : Solvers(rows[c]) = {}
  BY DEF Init, InitBoard, Solvers
<1>3. EntriesInv
  BY <1>2 DEF Init, InitBoard, EntriesInv, InTransaction
<1>4. \A q \in Requests : ChargeInv(q)
  BY DEF Init, ChargeInv
<1> QED
  BY <1>1, <1>3, <1>4 DEF RInv

(* A step that leaves the solves, the participations and their locks alone,*)
(* and the scored transactions what they are.                              *)
LEMMA StillStep ==
  ASSUME RInv, SInv', UNCHANGED <<rows, registered, entries>>,
         \A p \in Requests : pc'[p] \in InTransaction \cup {"admitted"} =>
           /\ ctx'[p].team = ctx[p].team
           /\ pc[p] \in InTransaction \cup {"admitted"} \/ ctx[p].team \in registered,
         \A p \in Requests : pc'[p] = "scored" =>
           /\ pc[p] = "scored" /\ tx'[p] = tx[p] /\ ctx'[p] = ctx[p]
           /\ \A v \in Teams : partLock'[v] = p <=> partLock[v] = p
  PROVE  RInv'
<1>0. TypeOK
  BY DEF RInv, SInv, IInv
<1>1. EntriesInv'
  BY DEF RInv, EntriesInv
<1>2. \A p \in Requests : ChargeInv(p)'
  <2> TAKE p \in Requests
  <2>1. SUFFICES ASSUME pc'[p] = "scored" PROVE ChargeInv(p)'
    BY DEF ChargeInv
  <2>2. /\ ChargeInv(p) /\ pc[p] = "scored" /\ tx'[p] = tx[p] /\ ctx'[p] = ctx[p]
        /\ \A v \in Teams : partLock'[v] = p <=> partLock[v] = p
    BY <2>1 DEF RInv
  <2>3. registered \subseteq Teams
    BY <1>0 DEF TypeOK
  <2> QED
    BY <2>2, <2>3 DEF ChargeInv
<1> QED
  BY <1>1, <1>2 DEF RInv

LEMMA StillSteps ==
  ASSUME RInv, SInv', NEW q \in Requests,
         \/ \E t \in Teams : PlayerAuth(q, t)
         \/ \E c \in Challenges, f \in BOOLEAN : EnsureEventAccess(q, c, f)
         \/ Refuse(q) \/ Rollback(q) \/ LockLink(q) \/ TouchParticipation(q) \/ JoinCheck(q)
  PROVE  RInv'
<1>0. TypeOK
  BY DEF RInv, SInv, IInv
<1>1. CASE Refuse(q)
  BY <1>0, <1>1, StillStep DEF Refuse, Respond, TypeOK, InTransaction, boardVars, lockVars
<1>2. CASE Rollback(q)
  BY <1>0, <1>2, StillStep, ScoringAssumption
     DEF Rollback, ReleaseLocks, Respond, TypeOK, InTransaction, boardVars
<1>3. CASE \E t \in Teams : PlayerAuth(q, t)
  BY <1>0, <1>3, StillStep DEF PlayerAuth, TypeOK, InTransaction, boardVars, lockVars
<1>4. CASE \E c \in Challenges, f \in BOOLEAN : EnsureEventAccess(q, c, f)
  <2>1. PICK c \in Challenges, f \in BOOLEAN : EnsureEventAccess(q, c, f)
    BY <1>4
  <2>2. CASE ctx[q].active /\ ctx[q].team \in registered
    <3>1. /\ pc[q] = "authed" /\ pc' = [pc EXCEPT ![q] = "admitted"]
          /\ UNCHANGED <<rows, registered, entries, partLock, tx>>
      BY <2>1, <2>2 DEF EnsureEventAccess, boardVars, lockVars
    <3>2. \A p \in Requests : ctx'[p].team = ctx[p].team /\ (p # q => ctx'[p] = ctx[p])
      BY <1>0, <2>1, <2>2 DEF EnsureEventAccess, TypeOK, Context
    <3> QED
      BY <1>0, <2>2, <3>1, <3>2, StillStep DEF TypeOK, InTransaction
  <2> QED
    BY <1>1, <2>1, <2>2 DEF EnsureEventAccess
<1>5. CASE LockLink(q)
  <2>1. CASE /\ pc' = [pc EXCEPT ![q] = "locked"]
             /\ tx' = [tx EXCEPT ![q].link = [link[ctx[q].chall] EXCEPT !.attempts = @ + 1]]
             /\ UNCHANGED <<boardVars, status, touched, partLock, ctx>>
    BY <1>0, <1>5, <2>1, StillStep DEF LockLink, TypeOK, InTransaction, boardVars
  <2> QED
    BY <1>1, <1>5, <2>1 DEF LockLink
<1>6. CASE TouchParticipation(q)
  <2>1. /\ pc[q] = "locked" /\ pc' = [pc EXCEPT ![q] = "attempted"]
        /\ UNCHANGED <<rows, registered, entries, ctx, tx>>
    BY <1>6 DEF TouchParticipation, boardVars
  <2>2. \A v \in Teams : partLock'[v] = partLock[v] \/ (partLock[v] = Free /\ partLock'[v] = q)
    BY <1>0, <1>6 DEF TouchParticipation, ParticipationFree, TypeOK
  <2> QED
    BY <1>0, <2>1, <2>2, StillStep, ScoringAssumption DEF TypeOK, InTransaction
<1>7. CASE JoinCheck(q)
  <2>1. CASE pc' = [pc EXCEPT ![q] = "joining"]
          /\ UNCHANGED <<boardVars, status, touched, lockVars, ctx, tx>>
    BY <1>0, <2>1, StillStep DEF TypeOK, InTransaction, boardVars, lockVars
  <2> QED
    BY <1>1, <1>7, <2>1 DEF JoinCheck
<1> QED
  BY <1>1, <1>2, <1>3, <1>4, <1>5, <1>6, <1>7

(* The teams to charge are all registered earlier solvers. *)
LEMMA ScoreRInv ==
  ASSUME RInv, SInv', NEW q \in Requests, ScoreSolve(q)
  PROVE  RInv'
<1>0. TypeOK /\ pc[q] = "attempted" /\ RequestInv(q)
  BY DEF ScoreSolve, RInv, SInv, IInv, LockInv
<1>1. PICK r \in CalculateNewReward(tx[q].link) :
        tx' = [tx EXCEPT ![q] =
                 [link   |-> [tx[q].link EXCEPT !.solves = @ + 1, !.reward = r,
                                !.firstBlood = FirstBloodAfter(tx[q].link, ctx[q].team)],
                  points |-> PointsToAward(tx[q].link),
                  loss   |-> tx[q].link.reward - r,
                  todo   |-> IF tx[q].link.reward > r
                             THEN registered \cap Solvers(rows[ctx[q].chall])
                             ELSE {}]]
  BY DEF ScoreSolve
<1>2. /\ pc' = [pc EXCEPT ![q] = "scored"]
      /\ UNCHANGED <<rows, registered, entries, partLock, ctx>>
  BY DEF ScoreSolve, boardVars, lockVars
<1>3. /\ tx'[q].loss = tx[q].link.reward - r
      /\ tx'[q].todo = IF tx[q].link.reward > r
                       THEN registered \cap Solvers(rows[ctx[q].chall]) ELSE {}
      /\ \A p \in Requests : p # q => tx'[p] = tx[p]
  BY <1>0, <1>1 DEF TypeOK
<1>4. r \in Int /\ tx[q].link.reward \in Int
  BY <1>0, <1>1, NewRewardType DEF RequestInv, InTransaction, LinkRow
<1>5. \A v \in Teams : partLock[v] = q => v = ctx[q].team
  BY <1>0, ScoringAssumption DEF RInv, SInv, IInv, LockInv, PartLockInv
<1>6. EntriesInv'
  BY <1>0, <1>2 DEF RInv, EntriesInv, TypeOK, InTransaction
<1>7. \A p \in Requests : ChargeInv(p)'
  <2> TAKE p \in Requests
  <2>1. CASE p = q
    BY <1>2, <1>3, <1>4, <1>5, <2>1 DEF ChargeInv
  <2>2. CASE p # q
    BY <1>0, <1>2, <1>3, <2>2 DEF RInv, ChargeInv, TypeOK
  <2> QED
    BY <2>1, <2>2
<1> QED
  BY <1>6, <1>7 DEF RInv

LEMMA ChargeRInv ==
  ASSUME RInv, SInv', NEW q \in Requests, NEW v \in Teams, ChargeSolver(q, v)
  PROVE  RInv'
<1>0. TypeOK /\ ChargeInv(q)
  BY DEF RInv, SInv, IInv
<1>1. /\ pc[q] = "scored" /\ v \in tx[q].todo /\ partLock[v] = Free
      /\ partLock' = [partLock EXCEPT ![v] = q]
      /\ UNCHANGED <<rows, registered, entries, pc, ctx>>
  BY DEF ChargeSolver, ParticipationFree, boardVars
<1>2. /\ tx'[q].loss = tx[q].loss /\ tx'[q].todo = tx[q].todo \ {v}
      /\ \A p \in Requests : p # q => tx'[p] = tx[p]
  BY <1>0 DEF ChargeSolver, TypeOK, Local
<1>3. EntriesInv'
  BY <1>1 DEF RInv, EntriesInv
<1>4. \A p \in Requests : ChargeInv(p)'
  <2> TAKE p \in Requests
  <2>1. CASE p = q
    BY <1>0, <1>1, <1>2, <2>1 DEF ChargeInv, TypeOK
  <2>2. CASE p # q
    <3>1. ChargeInv(p) /\ tx'[p] = tx[p] /\ partLock'[v] # p /\ partLock[v] # p
      BY <1>0, <1>1, <1>2, <2>2, ScoringAssumption DEF RInv, TypeOK
    <3>2. \A u \in Teams : partLock'[u] = p <=> partLock[u] = p
      BY <1>0, <1>1, <3>1 DEF TypeOK
    <3> QED
      BY <1>0, <1>1, <3>1, <3>2 DEF ChargeInv, TypeOK
  <2> QED
    BY <2>1, <2>2
<1> QED
  BY <1>3, <1>4 DEF RInv

LEMMA RecordRInv ==
  ASSUME RInv, SInv', NEW q \in Requests, RecordSolve(q)
  PROVE  RInv'
<1> DEFINE c == ctx[q].chall
           t == ctx[q].team
           row == [team |-> t, score |-> tx[q].points]
<1>0. TypeOK /\ pc[q] = "scored" /\ RequestInv(q)
  BY DEF RecordSolve, RInv, SInv, IInv, LockInv
<1>1. c \in Challenges /\ t \in Teams /\ entries[t] >= 1 /\ row \in SolveRow
  BY <1>0 DEF RequestInv, InTransaction, RInv, EntriesInv, TypeOK, Local, SolveRow
<1>2. /\ rows' = [rows EXCEPT ![c] = Append(@, row)]
      /\ ReleaseLocks(q) /\ Respond(q) /\ UNCHANGED <<registered, entries>>
  BY DEF RecordSolve
<1> HIDE DEF row
<1>3. Solvers(Append(rows[c], row)) = Solvers(rows[c]) \cup {t}
  BY <1>0, <1>1, AppendSolve DEF TypeOK, row
<1>4. EntriesInv'
  <2>1. \A d \in Challenges : \A v \in Solvers(rows'[d]) : entries[v] >= 1
    <3> TAKE d \in Challenges
    <3>1. CASE d = c
      BY <1>0, <1>1, <1>2, <1>3, <3>1 DEF RInv, EntriesInv, TypeOK
    <3>2. CASE d # c
      BY <1>0, <1>2, <3>2 DEF RInv, EntriesInv, TypeOK
    <3> QED
      BY <3>1, <3>2
  <2>2. \A p \in Requests : pc'[p] \in InTransaction \cup {"admitted"} =>
          pc'[p] = pc[p] /\ ctx'[p] = ctx[p]
    BY <1>0, <1>2 DEF Respond, TypeOK, InTransaction
  <2> QED
    BY <1>2, <2>1, <2>2 DEF RInv, EntriesInv
<1>5. \A p \in Requests : ChargeInv(p)'
  <2> TAKE p \in Requests
  <2>1. CASE p = q
    BY <1>0, <1>2, <2>1 DEF ChargeInv, Respond, TypeOK
  <2>2. CASE p # q
    <3>1. SUFFICES ASSUME pc'[p] = "scored" PROVE ChargeInv(p)'
      BY DEF ChargeInv
    <3>2. pc[p] = "scored" /\ ctx'[p] = ctx[p] /\ tx'[p] = tx[p]
      BY <1>0, <1>2, <2>2, <3>1 DEF Respond, TypeOK
    <3>3. ctx[p].chall # c
      BY <1>0, <2>2, <3>2 DEF RInv, SInv, IInv, LockInv, RequestInv, InTransaction
    <3>4. rows'[ctx[p].chall] = rows[ctx[p].chall]
      BY <1>0, <1>2, <3>2, <3>3 DEF RInv, SInv, IInv, LockInv, RequestInv, InTransaction, TypeOK
    <3>5. \A v \in Teams : partLock'[v] = p <=> partLock[v] = p
      BY <1>2, <2>2, ScoringAssumption DEF ReleaseLocks
    <3> QED
      BY <1>0, <1>2, <3>2, <3>4, <3>5 DEF RInv, ChargeInv, TypeOK
  <2> QED
    BY <2>1, <2>2
<1> QED
  BY <1>4, <1>5 DEF RInv

(* A solver that joins now has joined twice. *)
LEMMA JoinRInv ==
  ASSUME RInv, SInv', NEW q \in Requests, JoinInsert(q)
  PROVE  RInv'
<1>0. TypeOK /\ pc[q] = "joining" /\ ctx[q].team \in Teams
  BY DEF JoinInsert, RInv, SInv, IInv, LockInv, RequestInv
<1>1. CASE Refuse(q)
  BY <1>1, StillSteps
<1>2. CASE ~ Refuse(q)
  <2> DEFINE t == ctx[q].team
  <2>1. /\ registered' = registered \cup {t} /\ entries' = [entries EXCEPT ![t] = @ + 1]
        /\ Respond(q) /\ UNCHANGED <<rows, partLock>>
    BY <1>2 DEF JoinInsert, lockVars
  <2> HIDE DEF t
  <2>2. /\ t \in Teams /\ entries'[t] = entries[t] + 1 /\ entries[t] \in Nat
        /\ \A v \in Teams : v # t => entries'[v] = entries[v]
        /\ registered \subseteq Teams
        /\ \A v \in Teams : entries[v] \in Nat /\ entries'[v] \in Nat /\ entries'[v] >= entries[v]
    BY <1>0, <2>1 DEF TypeOK, t
  <2>3. \A p \in Requests : pc'[p] \in InTransaction \cup {"admitted"} =>
          pc'[p] = pc[p] /\ ctx'[p] = ctx[p] /\ tx'[p] = tx[p] /\ ctx[p].team \in Teams
    <3>1. \A p \in Requests : pc[p] # "idle" => ctx[p].team \in Teams
      BY DEF RInv, SInv, IInv, LockInv, RequestInv
    <3> QED
      BY <1>0, <2>1, <3>1 DEF Respond, TypeOK, InTransaction
  <2>4. \A d \in Challenges : Solvers(rows[d]) \subseteq Teams
    BY <1>0, SolversAreTeams DEF TypeOK
  <2>5. EntriesInv'
    BY <2>1, <2>2, <2>3, <2>4 DEF RInv, EntriesInv
  <2>6. \A p \in Requests : ChargeInv(p)'
    <3> TAKE p \in Requests
    <3>1. SUFFICES ASSUME pc'[p] = "scored" PROVE ChargeInv(p)'
      BY DEF ChargeInv
    <3>2. /\ pc[p] = "scored" /\ ctx'[p] = ctx[p] /\ tx'[p] = tx[p]
          /\ ctx[p].chall \in Challenges /\ ChargeInv(p)
      BY <2>3, <3>1 DEF RInv, SInv, IInv, LockInv, RequestInv, InTransaction
    <3>3. t \in Solvers(rows[ctx[p].chall]) => entries'[t] > 1
      BY <2>2, <3>2 DEF RInv, EntriesInv
    <3> QED
      BY <2>1, <2>2, <3>2, <3>3 DEF ChargeInv
  <2> QED
    BY <2>5, <2>6 DEF RInv
<1> QED
  BY <1>1, <1>2

LEMMA LeaveRInv ==
  ASSUME RInv, SInv', NEW q \in Requests, LeaveEvent(q)
  PROVE  RInv'
<1>0. TypeOK
  BY DEF RInv, SInv, IInv
<1>1. /\ pc[q] = "authed" /\ pc' = [pc EXCEPT ![q] = "idle"] /\ ctx' = [ctx EXCEPT ![q] = NoContext]
      /\ registered' = registered \ {ctx[q].team} /\ UNCHANGED <<rows, entries, partLock>>
  BY DEF LeaveEvent, lockVars
<1>2. \A p \in Requests : p # q =>
        tx'[p].todo = tx[p].todo \ {ctx[q].team} /\ tx'[p].loss = tx[p].loss
  BY <1>0 DEF LeaveEvent, TypeOK, Local
<1>3. EntriesInv'
  BY <1>0, <1>1 DEF RInv, EntriesInv, TypeOK, InTransaction
<1>4. \A p \in Requests : ChargeInv(p)'
  <2> TAKE p \in Requests
  <2>1. SUFFICES ASSUME pc'[p] = "scored" PROVE ChargeInv(p)'
    BY DEF ChargeInv
  <2>2. p # q /\ pc[p] = "scored" /\ ctx'[p] = ctx[p] /\ ChargeInv(p)
    BY <1>0, <1>1, <2>1 DEF RInv, TypeOK
  <2> QED
    BY <1>1, <1>2, <2>2 DEF ChargeInv
<1> QED
  BY <1>3, <1>4 DEF RInv

LEMMA StepRInv == RInv /\ [Next]_vars => RInv'
<1> SUFFICES ASSUME RInv, [Next]_vars PROVE RInv'
  OBVIOUS
<1>0. SInv'
  BY StepSInv DEF RInv
<1>1. ASSUME NEW q \in Requests, NEW t \in Teams, PlayerAuth(q, t) \/ ChargeSolver(q, t)
      PROVE  RInv'
  BY <1>0, <1>1, StillSteps, ChargeRInv
<1>2. ASSUME NEW q \in Requests, Handle(q) \/ JoinInsert(q) PROVE RInv'
  BY <1>0, <1>2, StillSteps, JoinRInv, LeaveRInv DEF Handle, RefuseCall
<1>3. ASSUME NEW q \in Requests,
             \/ LockLink(q) \/ TouchParticipation(q) \/ RejectFlag(q)
             \/ ScoreSolve(q) \/ RecordSolve(q) \/ DeadlockAbort(q)
      PROVE  RInv'
  BY <1>0, <1>3, StillSteps, ScoreRInv, RecordRInv DEF RejectFlag, DeadlockAbort
<1>4. CASE Organize
  <2>1. UNCHANGED <<rows, registered, entries, partLock, pc, ctx, tx>>
    BY <1>4 DEF Organize, LinkChallenge, UpdateChallenge, UnlinkChallenge, StartEvent, StopEvent,
                SyncCtfStatus, boardVars, lockVars, reqVars
  <2> QED
    BY <1>0, <2>1, StillStep
<1>5. CASE Restart
  BY <1>0, <1>5, StillStep DEF Restart, boardVars, InTransaction
<1>6. CASE UNCHANGED vars
  BY <1>0, <1>6, StillStep DEF vars, boardVars, lockVars, reqVars
<1> QED
  BY <1>1, <1>2, <1>3, <1>4, <1>5, <1>6 DEF Next

LEMMA AlwaysRInv == Spec => []RInv
BY InitRInv, StepRInv, PTL DEF Spec
-----------------------------------------------------------------------------
(* The definitions Scoreboard shares with Scoring mean the same in both.   *)
LEMMA SharedOperators ==
  /\ Board!boardVars = boardVars
  /\ Board!InitBoard = InitBoard
  /\ Board!Linked = Linked
  /\ \A s : Board!Solvers(s) = Solvers(s)
  /\ \A l : Board!PointsToAward(l) = PointsToAward(l)
  /\ \A l : Board!CalculateNewReward(l) = CalculateNewReward(l)
  /\ \A l, t, r : Board!SolvedOnceMore(l, t, r) = SolvedOnceMore(l, t, r)
  /\ \A v, t, points, payers, loss :
       Board!ScoreAfter(v, t, points, payers, loss) = ScoreAfter(v, t, points, payers, loss)
  /\ \A p, points : Board!Credited(p, points) = Credited(p, points)
  /\ \A cfg, k : Board!NewLink(Board!WithColumnDefaults(cfg), k) = NewLink(WithColumnDefaults(cfg), k)
  /\ \A l, cfg, k : Board!WithSettings(l, cfg, k) = WithSettings(l, cfg, k)
  /\ \A l : Board!CountersOf(l) = CountersOf(l)
<1>1. Board!boardVars = boardVars /\ Board!InitBoard = InitBoard /\ Board!Linked = Linked
  BY DEF Board!boardVars, boardVars, Board!InitBoard, InitBoard, Board!Linked, Linked
<1>2. \A s : Board!Solvers(s) = Solvers(s)
  BY DEF Board!Solvers, Solvers
<1>3. \A l : Board!PointsToAward(l) = PointsToAward(l)
  BY DEF Board!PointsToAward, PointsToAward
<1>4. \A l : Board!CalculateNewReward(l) = CalculateNewReward(l)
  BY DEF Board!CalculateNewReward, Board!DecayedReward, Board!Nearest,
         CalculateNewReward, DecayedReward, Nearest
<1>5. \A l, t, r : Board!SolvedOnceMore(l, t, r) = SolvedOnceMore(l, t, r)
  BY DEF Board!SolvedOnceMore, SolvedOnceMore
<1>6. \A v, t, points, payers, loss :
        Board!ScoreAfter(v, t, points, payers, loss) = ScoreAfter(v, t, points, payers, loss)
  BY DEF Board!ScoreAfter, ScoreAfter
<1>7. \A p, points : Board!Credited(p, points) = Credited(p, points)
  BY DEF Board!Credited, Credited
<1>8. \A cfg, k : Board!NewLink(Board!WithColumnDefaults(cfg), k) = NewLink(WithColumnDefaults(cfg), k)
  BY DEF Board!NewLink, Board!WithColumnDefaults, NewLink, WithColumnDefaults
<1>9. \A l, cfg, k : Board!WithSettings(l, cfg, k) = WithSettings(l, cfg, k)
  BY DEF Board!WithSettings, WithSettings
<1>10. \A l : Board!CountersOf(l) = CountersOf(l)
  BY DEF Board!CountersOf, CountersOf
<1> QED
  BY <1>1, <1>2, <1>3, <1>4, <1>5, <1>6, <1>7, <1>8, <1>9, <1>10

(* The commit of a submission is the atomic solve of its team. *)
LEMMA RecordIsSolve ==
  ASSUME RInv, NEW q \in Requests, RecordSolve(q)
  PROVE  Board!Solve(ctx[q].team, ctx[q].chall)
<1> DEFINE c == ctx[q].chall
           t == ctx[q].team
           l == tx[q].link
           k == link[c]
           m == [k EXCEPT !.attempts = l.attempts, !.solves = l.solves,
                          !.reward = l.reward, !.firstBlood = l.firstBlood]
           payers == IF k.reward - l.reward > 0
                     THEN (registered \cap Solvers(rows[c]))
                            \ {v \in registered : entries[v] > 1 /\ v \notin Charged(q)}
                     ELSE {}
<1>1. TypeOK /\ pc[q] = "scored" /\ RequestInv(q) /\ TxInv(q) /\ ChargeInv(q)
  BY DEF RecordSolve, RInv, SInv, IInv, LockInv
<1>2. /\ c \in Challenges /\ t \in Teams /\ k # NoLink /\ t \notin Solvers(rows[c])
      /\ ScoredCopy(q) /\ tx[q].todo = {}
  BY <1>1 DEF RequestInv, TxInv, InTransaction, RecordSolve
<1>3. k \in LinkRow /\ l \in LinkRow
  BY <1>1, <1>2 DEF TypeOK, RequestInv, InTransaction
<1>4. /\ l.reward \in CalculateNewReward(k)
      /\ tx[q].points = PointsToAward(k) /\ tx[q].loss = k.reward - l.reward
  BY <1>2 DEF ScoredCopy
<1>5. Charged(q) = payers
  <2>1. \A v \in Charged(q) : v \in registered
    BY <1>1, ScoringAssumption DEF Charged, RInv, SInv, IInv, LockInv, PartLockInv
  <2>2. registered \subseteq Teams
    BY <1>1 DEF TypeOK
  <2> QED
    BY <1>1, <1>2, <1>4, <2>1, <2>2 DEF ChargeInv, Charged
<1>6. m = SolvedOnceMore(k, t, l.reward)
  <2> HIDE DEF k, l
  <2>1. /\ l.attempts = k.attempts + 1 /\ l.solves = k.solves + 1
        /\ l.firstBlood = IF k.firstBlood = NoTeam THEN t ELSE k.firstBlood
    BY <1>2 DEF ScoredCopy, FirstBloodAfter, k, l
  <2> QED
    BY <1>3, <2>1 DEF SolvedOnceMore, LinkRow
<1>7. /\ link' = [link EXCEPT ![c] = m]
      /\ rows' = [rows EXCEPT ![c] = Append(@, [team |-> t, score |-> PointsToAward(k)])]
      /\ score' = [v \in Teams |-> ScoreAfter(v, t, PointsToAward(k), payers, k.reward - l.reward)]
      /\ solved' = [solved EXCEPT ![t] = IF t \in registered THEN @ + 1 ELSE @]
      /\ \E p \in Players \cup {NoPlayer} : profile' = Credited(p, PointsToAward(k))
      /\ UNCHANGED <<registered, entries>>
  BY <1>1, <1>2, <1>4, <1>5 DEF RecordSolve, TypeOK
<1>8. {v \in registered : entries[v] > 1 /\ v \notin Charged(q)}
        \in SUBSET {v \in registered : entries[v] > 1}
  OBVIOUS
<1>9. c \in Linked
  BY <1>2 DEF Linked
<1> HIDE DEF m
<1> QED
  BY ZenonT(60), <1>2, <1>4, <1>6, <1>7, <1>8, <1>9, SharedOperators DEF Board!Solve

(***************************************************************************)
(* The event service implements the scoreboard: with any number of teams,  *)
(* challenges and concurrent requests, every statement of a submission is  *)
(* invisible in the committed tables or is one atomic solve.               *)
(***************************************************************************)
THEOREM Refinement == Spec => ImplementsScoreboard
<1>1. Init => Board!Init
  BY SharedOperators DEF Init, Board!Init
<1>2. RInv /\ [Next]_vars => [Board!Next]_(Board!boardVars)
  <2> SUFFICES ASSUME RInv, [Next]_vars PROVE [Board!Next]_(Board!boardVars)
    OBVIOUS
  <2>1. SUFFICES Board!Next \/ UNCHANGED boardVars
    BY SharedOperators DEF boardVars, Board!boardVars
  <2>2. ASSUME NEW q \in Requests, RecordSolve(q) PROVE Board!Next
    <3>1. ctx[q].team \in Teams /\ ctx[q].chall \in Challenges
      BY <2>2 DEF RecordSolve, RInv, SInv, IInv, LockInv, RequestInv, InTransaction
    <3> QED
      BY SMTT(20), <2>2, <3>1, RecordIsSolve DEF Board!Next
  <2>3. ASSUME NEW q \in Requests, JoinInsert(q) PROVE Board!Next \/ UNCHANGED boardVars
    <3>1. ctx[q].team \in Teams
      BY <2>3 DEF JoinInsert, RInv, SInv, IInv, LockInv, RequestInv
    <3>2. CASE Refuse(q)
      BY <3>2 DEF Refuse
    <3>3. CASE ~ Refuse(q)
      <4>1. Board!Join(ctx[q].team)
        BY <2>3, <3>3 DEF JoinInsert, Board!Join
      <4> QED
        BY <3>1, <4>1 DEF Board!Next
    <3> QED
      BY <3>2, <3>3
  <2>4. ASSUME NEW q \in Requests, LeaveEvent(q) PROVE Board!Next
    <3>1. ctx[q].team \in Teams
      BY <2>4 DEF LeaveEvent, RInv, SInv, IInv, LockInv, RequestInv
    <3>2. Board!Leave(ctx[q].team)
      BY <2>4 DEF LeaveEvent, Board!Leave
    <3> QED
      BY <3>1, <3>2 DEF Board!Next
  <2>5. ASSUME NEW c \in Challenges, NEW cfg \in Configs, NEW k \in Presets, LinkChallenge(c, cfg, k)
        PROVE  Board!Next
    <3>1. Board!Link(c, cfg, k)
      BY <2>5, SharedOperators DEF LinkChallenge, Board!Link
    <3> QED
      BY <3>1 DEF Board!Next
  <2>6. ASSUME NEW c \in Challenges, NEW cfg \in Configs, UpdateChallenge(c, cfg)
        PROVE  Board!Next
    <3>1. Board!Edit(c, cfg)
      BY <2>6, SharedOperators DEF UpdateChallenge, Board!Edit
    <3> QED
      BY <3>1 DEF Board!Next
  <2>7. ASSUME NEW c \in Challenges, UnlinkChallenge(c) PROVE Board!Next
    <3>1. Board!Unlink(c)
      BY <2>7, SharedOperators DEF UnlinkChallenge, Board!Unlink
    <3> QED
      BY <3>1 DEF Board!Next
  <2>8. CASE StartEvent \/ StopEvent \/ SyncCtfStatus \/ Restart \/ UNCHANGED vars
    BY <2>8 DEF StartEvent, StopEvent, SyncCtfStatus, Restart, vars
  <2>9. ASSUME NEW q \in Requests,
               \/ \E t \in Teams : PlayerAuth(q, t) \/ ChargeSolver(q, t)
               \/ \E c \in Challenges, f \in BOOLEAN : EnsureEventAccess(q, c, f)
               \/ RefuseCall(q) \/ JoinCheck(q) \/ LockLink(q) \/ TouchParticipation(q)
               \/ RejectFlag(q) \/ ScoreSolve(q) \/ DeadlockAbort(q)
        PROVE  UNCHANGED boardVars
    BY <2>9 DEF PlayerAuth, ChargeSolver, EnsureEventAccess, RefuseCall, JoinCheck, LockLink,
                TouchParticipation, RejectFlag, ScoreSolve, DeadlockAbort, Rollback, Refuse
  <2> QED
    BY <2>2, <2>3, <2>4, <2>5, <2>6, <2>7, <2>8, <2>9 DEF Next, Handle, Organize
<1> QED
  BY <1>1, <1>2, AlwaysRInv, PTL DEF Spec, ImplementsScoreboard, Board!Spec
-----------------------------------------------------------------------------
(***************************************************************************)
(* Every request between its check and its insert has reserved a place:    *)
(* together with the registered teams they are at most what concurrent     *)
(* requests can add to an event that is one short of full.                 *)
(***************************************************************************)
Joining == {q \in Requests : pc[q] = "joining"}

PlacesInv ==
  /\ IsFiniteSet(registered)
  /\ Cardinality(registered) + Cardinality(Joining) =< MaxTeams + Cardinality(Requests) - 1

LEMMA JoiningFinite ==
  /\ IsFiniteSet(Joining) /\ Cardinality(Joining) \in Nat
  /\ Cardinality(Joining) =< Cardinality(Requests) /\ Cardinality(Requests) \in Nat
<1>1. Joining \subseteq Requests
  BY DEF Joining
<1> QED
  BY <1>1, FS_Subset, FS_CardinalityType, ScoringAssumption

LEMMA InitPlaces == Init => PlacesInv
<1> SUFFICES ASSUME Init PROVE PlacesInv
  OBVIOUS
<1>1. registered = {} /\ Joining = {}
  BY DEF Init, InitBoard, Joining
<1> QED
  BY <1>1, FS_EmptySet, JoiningFinite, ScoringAssumption DEF PlacesInv

(* A step that adds no team and sends no request to join. *)
LEMMA FewerPlaces ==
  ASSUME PlacesInv, registered' \subseteq registered, Joining' \subseteq Joining
  PROVE  PlacesInv'
<1>1. /\ IsFiniteSet(registered') /\ Cardinality(registered') =< Cardinality(registered)
      /\ Cardinality(registered') \in Nat /\ Cardinality(registered) \in Nat
  BY FS_Subset, FS_CardinalityType DEF PlacesInv
<1>2. /\ Cardinality(Joining') =< Cardinality(Joining)
      /\ Cardinality(Joining') \in Nat /\ Cardinality(Joining) \in Nat
  BY JoiningFinite, FS_Subset, FS_CardinalityType
<1> QED
  BY <1>1, <1>2, JoiningFinite, ScoringAssumption DEF PlacesInv

LEMMA StepPlaces == IInv /\ PlacesInv /\ [Next]_vars => PlacesInv'
<1> SUFFICES ASSUME IInv, PlacesInv, [Next]_vars PROVE PlacesInv'
  OBVIOUS
<1>0. TypeOK /\ Cardinality(registered) \in Nat
  BY FS_CardinalityType DEF IInv, PlacesInv
<1>1. ASSUME NEW q \in Requests, JoinCheck(q) PROVE PlacesInv'
  <2>1. CASE Refuse(q)
    BY <1>0, <2>1, FewerPlaces DEF Refuse, Respond, Joining, TypeOK, boardVars
  <2>2. CASE ~ Refuse(q)
    <3>1. /\ ~ EventFull /\ pc' = [pc EXCEPT ![q] = "joining"] /\ UNCHANGED registered
      BY <1>1, <2>2 DEF JoinCheck, boardVars
    <3>2. Joining' \subseteq Requests
      BY DEF Joining
    <3>3. Cardinality(Joining') =< Cardinality(Requests) /\ Cardinality(Joining') \in Nat
      BY <3>2, FS_Subset, FS_CardinalityType, ScoringAssumption
    <3>4. Cardinality(registered) =< MaxTeams - 1
      BY <1>0, <3>1, ScoringAssumption DEF EventFull
    <3> QED
      BY <1>0, <3>1, <3>3, <3>4, JoiningFinite, ScoringAssumption DEF PlacesInv
  <2> QED
    BY <2>1, <2>2
<1>2. ASSUME NEW q \in Requests, JoinInsert(q) PROVE PlacesInv'
  <2>1. CASE Refuse(q)
    BY <1>0, <2>1, FewerPlaces DEF Refuse, Respond, Joining, TypeOK, boardVars
  <2>2. CASE ~ Refuse(q)
    <3>1. /\ pc[q] = "joining" /\ ctx[q].team \notin registered
          /\ registered' = registered \cup {ctx[q].team} /\ pc' = [pc EXCEPT ![q] = "idle"]
      BY <1>2, <2>2 DEF JoinInsert, Respond
    <3>2. Joining' = Joining \ {q} /\ q \in Joining
      BY <1>0, <3>1 DEF Joining, TypeOK
    <3>3. Cardinality(Joining') = Cardinality(Joining) - 1
      BY <3>2, JoiningFinite, FS_RemoveElement
    <3>4. IsFiniteSet(registered') /\ Cardinality(registered') = Cardinality(registered) + 1
      BY <3>1, FS_AddElement DEF PlacesInv
    <3> QED
      BY <1>0, <3>3, <3>4, JoiningFinite, ScoringAssumption DEF PlacesInv
  <2> QED
    BY <2>1, <2>2
<1>3. CASE UNCHANGED <<registered, pc>>
  BY <1>3, FewerPlaces DEF Joining
<1>4. ASSUME NEW q \in Requests, Handle(q), ~ JoinCheck(q) PROVE PlacesInv'
  <2>1. pc[q] = "authed" /\ registered' \subseteq registered
    BY <1>4 DEF Handle, RefuseCall, Refuse, LeaveEvent, EnsureEventAccess, boardVars
  <2>2. Joining' \subseteq Joining
    BY <1>0, <1>4 DEF Handle, RefuseCall, Refuse, LeaveEvent, EnsureEventAccess, Respond, Joining, TypeOK
  <2> QED
    BY <2>1, <2>2, FewerPlaces
<1>5. ASSUME NEW q \in Requests,
             \/ \E t \in Teams : PlayerAuth(q, t) \/ ChargeSolver(q, t)
             \/ LockLink(q) \/ TouchParticipation(q) \/ RejectFlag(q)
             \/ ScoreSolve(q) \/ RecordSolve(q) \/ DeadlockAbort(q)
      PROVE  PlacesInv'
  <2>1. UNCHANGED registered
    BY <1>5 DEF PlayerAuth, ChargeSolver, LockLink, TouchParticipation, RejectFlag, ScoreSolve,
                RecordSolve, DeadlockAbort, Rollback, Refuse, boardVars
  <2>2. \A p \in Requests : pc'[p] = "joining" => pc[p] = "joining"
    BY <1>0, <1>5 DEF PlayerAuth, ChargeSolver, LockLink, TouchParticipation, RejectFlag, ScoreSolve,
                RecordSolve, DeadlockAbort, Rollback, Refuse, Respond, TypeOK
  <2> QED
    BY <2>1, <2>2, FewerPlaces DEF Joining
<1>6. CASE Organize \/ UNCHANGED vars
  BY <1>3, <1>6 DEF Organize, LinkChallenge, UpdateChallenge, UnlinkChallenge, StartEvent, StopEvent,
                    SyncCtfStatus, vars, boardVars, reqVars
<1>7. CASE Restart
  BY <1>7, FewerPlaces DEF Restart, Joining, boardVars
<1> QED
  BY <1>1, <1>2, <1>4, <1>5, <1>6, <1>7 DEF Next

(***************************************************************************)
(* JoinEvent counts and inserts without a lock: with n requests in flight  *)
(* an event holds at most n - 1 teams more than max_teams, never more.     *)
(***************************************************************************)
THEOREM Overbooking == Spec => []OverbookingBounded
<1>1. PlacesInv => OverbookingBounded
  <2> SUFFICES ASSUME PlacesInv PROVE OverbookingBounded
    OBVIOUS
  <2> QED
    BY JoiningFinite, FS_CardinalityType, ScoringAssumption DEF PlacesInv, OverbookingBounded
<1>2. Spec => []PlacesInv
  BY InitPlaces, StepPlaces, AlwaysIInv, PTL DEF Spec
<1> QED
  BY <1>1, <1>2, PTL
=============================================================================
