---------------------------- MODULE ScoringProofs ----------------------------
(***************************************************************************)
(* Proofs about flag submission, for any number of teams, challenges and   *)
(* concurrent requests and for all reward settings: the decay rule; types  *)
(* and the discipline of the row locks (IInv); and what it means for the   *)
(* rows of solves, the counters, first blood and the rewards that the      *)
(* solves of a challenge are serial (SInv).                                *)
(***************************************************************************)
EXTENDS ScoringProperties, FiniteSetTheorems, SequenceTheorems, TLAPS

(* Multiplying by a natural number keeps an inequality. *)
LEMMA MultiplyLeq ==
  ASSUME NEW x \in Int, NEW y \in Int, NEW d \in Nat, x =< y
  PROVE  x * d =< y * d
<1>1. y * d = x * d + (y - x) * d
  BY SMT
<1>2. (y - x) * d >= 0
  <2>1. y - x \in Nat
    OBVIOUS
  <2>2. \A a, b \in Nat : a * b \in Nat
    OBVIOUS
  <2>3. (y - x) * d \in Nat
    BY <2>1, <2>2
  <2> QED
    BY <2>3
<1>3. x * d \in Int /\ y * d \in Int /\ (y - x) * d \in Int
  OBVIOUS
<1> QED
  BY <1>1, <1>2, <1>3

(* An integer nearest to n / d lies between the integers n / d lies between. *)
LEMMA NearestBetween ==
  ASSUME NEW n \in Int, NEW d \in Nat \ {0}, NEW lo \in Int, NEW hi \in Int,
         lo * d =< n, n =< hi * d,
         NEW k \in Nearest(n, d)
  PROVE  k \in Int /\ lo =< k /\ k =< hi
<1>1. k \in Int
  BY DEF Nearest
<1>2. -d =< 2 * (n - k * d) /\ 2 * (n - k * d) =< d
  BY DEF Nearest
<1>3. k * d \in Int /\ lo * d \in Int /\ hi * d \in Int
  BY <1>1
<1>4. k =< hi
  <2> SUFFICES ASSUME hi + 1 =< k PROVE FALSE
    BY <1>1
  <2>1. (hi + 1) * d =< k * d
    BY <1>1, MultiplyLeq
  <2>2. (hi + 1) * d = hi * d + d
    BY SMT
  <2> QED
    BY <1>2, <1>3, <2>1, <2>2
<1>5. lo =< k
  <2> SUFFICES ASSUME k + 1 =< lo PROVE FALSE
    BY <1>1
  <2>1. (k + 1) * d =< lo * d
    BY <1>1, MultiplyLeq
  <2>2. (k + 1) * d = k * d + d
    BY <1>1, SMT
  <2> QED
    BY <1>2, <1>3, <2>1, <2>2
<1> QED
  BY <1>1, <1>4, <1>5

(***************************************************************************)
(* CalculateNewReward moves the reward towards the minimum and never past  *)
(* it: the loss the earlier solvers pay is never more than what the reward *)
(* is above its minimum.                                                   *)
(***************************************************************************)
THEOREM DecayTowardsMinimum ==
  ASSUME NEW reward \in Int, NEW min \in Int, NEW decay \in Nat, NEW s \in Nat,
         NEW r \in DecayedReward(reward, min, decay, s)
  PROVE  /\ r \in Int
         /\ min =< reward => min =< r /\ r =< reward
         /\ reward =< min => reward =< r /\ r =< min
<1>1. CASE s >= decay
  BY <1>1 DEF DecayedReward
<1>2. CASE s < decay
  <2> DEFINE a == decay - s - 1
             d == decay - s
             x == reward - min
  <2>1. a \in Nat /\ d \in Nat \ {0} /\ x \in Int /\ a =< d
    BY <1>2
  <2>2. PICK k \in Nearest(x * a, d) : r = min + k
    BY <1>2 DEF DecayedReward
  <2>3. 0 \in Int /\ x * a \in Int /\ 0 * d = 0 /\ x * d = d * x /\ x * a = a * x
    BY <2>1
  <2> HIDE DEF a, d, x
  <2>4. CASE x >= 0
    <3>1. a * x =< d * x
      BY <2>1, <2>4, MultiplyLeq
    <3>2. 0 * a =< x * a
      BY <2>1, <2>4, MultiplyLeq
    <3>3. 0 * d =< x * a /\ x * a =< x * d
      BY <3>1, <3>2, <2>1, <2>3
    <3>4. k \in Int /\ 0 =< k /\ k =< x
      BY <3>3, <2>1, <2>2, <2>3, NearestBetween, Zenon
    <3> QED
      BY <3>4, <2>2, <2>4 DEF x
  <2>5. CASE x < 0
    <3>1. a * (-x) =< d * (-x)
      BY <2>1, <2>5, MultiplyLeq
    <3>2. x * a =< 0 * a
      BY <2>1, <2>5, MultiplyLeq
    <3>3. a * (-x) = -(x * a) /\ d * (-x) = -(x * d) /\ x * d \in Int
      BY <2>1
    <3>4. x * d =< x * a /\ x * a =< 0 * d
      BY <3>1, <3>2, <3>3, <2>1, <2>3
    <3>5. k \in Int /\ x =< k /\ k =< 0
      BY <3>4, <2>1, <2>2, <2>3, NearestBetween
    <3> QED
      BY <3>5, <2>2, <2>5 DEF x
  <2> QED
    BY <2>1, <2>4, <2>5
<1> QED
  BY <1>1, <1>2
-----------------------------------------------------------------------------
(* A request past its authentication knows its team, one past its access   *)
(* check its challenge, and one in a transaction owns the link it works on. *)
RequestInv(q) ==
  /\ pc[q] # "idle" => ctx[q].team \in Teams
  /\ pc[q] \in InTransaction \cup {"admitted"} => ctx[q].chall \in Challenges
  /\ pc[q] \in InTransaction =>
       /\ linkLock[ctx[q].chall] = q
       /\ link[ctx[q].chall] # NoLink
       /\ tx[q].link \in LinkRow
  /\ tx[q].todo \subseteq registered

(* A locked row exists and its lock belongs to an open transaction. *)
LinkLockInv(c) ==
  linkLock[c] # Free =>
    /\ linkLock[c] \in Requests
    /\ pc[linkLock[c]] \in InTransaction
    /\ ctx[linkLock[c]].chall = c

PartLockInv(t) ==
  partLock[t] # Free =>
    /\ partLock[t] \in Requests
    /\ pc[partLock[t]] \in {"attempted", "scored"}
    /\ t \in registered
    /\ pc[partLock[t]] = "attempted" => t = ctx[partLock[t]].team

LockInv ==
  /\ \A q \in Requests : RequestInv(q)
  /\ \A c \in Challenges : LinkLockInv(c)
  /\ \A t \in Teams : PartLockInv(t)

IInv == TypeOK /\ LockInv
-----------------------------------------------------------------------------
(* The operators on link rows return link rows. *)
LEMMA NewLinkType ==
  ASSUME NEW cfg \in Configs, NEW k \in Counters
  PROVE  NewLink(WithColumnDefaults(cfg), k) \in LinkRow
BY ScoreboardAssumption DEF NewLink, WithColumnDefaults, LinkRow, RewardConfig, Counters

LEMMA WithSettingsType ==
  ASSUME NEW l \in LinkRow, NEW cfg \in Configs, cfg.decay > 0, NEW k \in Counters
  PROVE  WithSettings(l, cfg, k) \in LinkRow
BY ScoreboardAssumption DEF WithSettings, LinkRow, RewardConfig, Counters

LEMMA CountersType ==
  ASSUME NEW l \in LinkRow
  PROVE  Presets \cup {CountersOf(l)} \subseteq Counters
BY ScoreboardAssumption DEF CountersOf, Counters, LinkRow

LEMMA SolvedRowType ==
  ASSUME NEW l \in LinkRow, NEW r \in Int, NEW b \in Teams \cup {NoTeam}
  PROVE  [l EXCEPT !.solves = @ + 1, !.reward = r, !.firstBlood = b] \in LinkRow
<1> DEFINE n == l.solves + 1
<1>1. n \in Nat
  BY DEF LinkRow
<1> HIDE DEF n
<1>2. [l EXCEPT !.solves = n, !.reward = r, !.firstBlood = b] \in LinkRow
  BY <1>1 DEF LinkRow
<1> QED
  BY <1>2 DEF n

LEMMA WrittenRowType ==
  ASSUME NEW k \in LinkRow, NEW l \in LinkRow
  PROVE  [k EXCEPT !.attempts = l.attempts, !.solves = l.solves,
                   !.reward = l.reward, !.firstBlood = l.firstBlood] \in LinkRow
BY DEF LinkRow

LEMMA NewRewardType ==
  ASSUME NEW l \in LinkRow, NEW r \in CalculateNewReward(l)
  PROVE  r \in Int
BY DecayTowardsMinimum DEF CalculateNewReward, LinkRow

LEMMA PointsType ==
  ASSUME NEW l \in LinkRow
  PROVE  PointsToAward(l) \in Int
BY DEF PointsToAward, LinkRow
-----------------------------------------------------------------------------
LEMMA InitIInv == Init => IInv
<1> SUFFICES ASSUME Init PROVE IInv
  OBVIOUS
<1>1. TypeOK
  BY ScoringAssumption DEF Init, InitBoard, TypeOK, Profile, Context, Local, NoContext, NoLocal, PC
<1>2. LockInv
  BY DEF Init, InitBoard, LockInv, RequestInv, LinkLockInv, PartLockInv, InTransaction, NoLocal
<1> QED
  BY <1>1, <1>2 DEF IInv

(* The end of a request that holds no lock. *)
LEMMA RefuseIInv ==
  ASSUME IInv, NEW q \in Requests, pc[q] \notin InTransaction, Refuse(q)
  PROVE  IInv'
<1>1. TypeOK'
  BY DEF IInv, TypeOK, Refuse, Respond, NoContext, NoLocal, Context, Local, PC, boardVars, lockVars
<1>2. LockInv'
  BY DEF IInv, TypeOK, LockInv, RequestInv, LinkLockInv, PartLockInv, InTransaction,
         Refuse, Respond, NoContext, NoLocal, boardVars, lockVars
<1> QED
  BY <1>1, <1>2 DEF IInv

LEMMA RollbackIInv ==
  ASSUME IInv, NEW q \in Requests, Rollback(q)
  PROVE  IInv'
<1>1. TypeOK'
  BY ScoringAssumption DEF IInv, TypeOK, Rollback, ReleaseLocks, Respond, NoContext, NoLocal, Context, Local, PC, boardVars
<1>2. LockInv'
  BY ScoringAssumption DEF IInv, TypeOK, LockInv, RequestInv, LinkLockInv, PartLockInv, InTransaction,
         Rollback, ReleaseLocks, Respond, NoContext, NoLocal, boardVars
<1> QED
  BY <1>1, <1>2 DEF IInv

LEMMA PlayerAuthIInv ==
  ASSUME IInv, NEW q \in Requests, NEW t \in Teams, PlayerAuth(q, t)
  PROVE  IInv'
<1> DEFINE x == [ctx[q] EXCEPT !.team = t, !.active = (status = "active")]
<1>0. /\ ctx' = [ctx EXCEPT ![q] = x]
      /\ x \in Context /\ x.team = t
  BY DEF IInv, TypeOK, PlayerAuth, Context
<1> HIDE DEF x
<1>1. /\ pc[q] = "idle" /\ pc' = [pc EXCEPT ![q] = "authed"]
      /\ UNCHANGED <<boardVars, status, touched, linkLock, partLock, tx>>
  BY DEF PlayerAuth, lockVars
<1>2. TypeOK'
  BY <1>0, <1>1 DEF IInv, TypeOK, PC, boardVars
<1> DEFINE Same(p) == pc'[p] = pc[p] /\ ctx'[p] = ctx[p] /\ tx'[p] = tx[p]
<1>4. /\ pc'[q] = "authed" /\ ctx'[q].team = t /\ tx'[q] = tx[q]
      /\ \A p \in Requests \ {q} : Same(p)
  BY <1>0, <1>1 DEF IInv, TypeOK
<1>3. LockInv'
  <2>1. \A p \in Requests : RequestInv(p)'
    BY <1>1, <1>4 DEF IInv, LockInv, RequestInv, InTransaction, boardVars
  <2>2. \A k \in Challenges : LinkLockInv(k)'
    BY <1>1, <1>4 DEF IInv, LockInv, LinkLockInv, InTransaction
  <2>3. \A v \in Teams : PartLockInv(v)'
    BY <1>1, <1>4 DEF IInv, LockInv, PartLockInv, boardVars
  <2> QED
    BY <2>1, <2>2, <2>3 DEF LockInv
<1> QED
  BY <1>2, <1>3 DEF IInv

LEMMA AccessIInv ==
  ASSUME IInv, NEW q \in Requests, NEW c \in Challenges, NEW f \in BOOLEAN,
         EnsureEventAccess(q, c, f)
  PROVE  IInv'
<1>1. CASE ctx[q].active /\ ctx[q].team \in registered
  <2> DEFINE x == [ctx[q] EXCEPT !.chall = c, !.correct = f]
  <2>0. /\ ctx' = [ctx EXCEPT ![q] = x]
        /\ x \in Context /\ x.team = ctx[q].team /\ x.chall = c
    BY <1>1 DEF IInv, TypeOK, EnsureEventAccess, Context
  <2> HIDE DEF x
  <2>1. TypeOK'
    BY <1>1, <2>0 DEF IInv, TypeOK, EnsureEventAccess, PC, boardVars, lockVars
  <2>2. /\ pc[q] = "authed" /\ pc' = [pc EXCEPT ![q] = "admitted"]
        /\ UNCHANGED <<link, registered, linkLock, partLock, tx>>
    BY <1>1 DEF EnsureEventAccess, boardVars, lockVars
  <2>3. LockInv'
    <3>1. \A p \in Requests : RequestInv(p)'
      BY <2>0, <2>2 DEF IInv, TypeOK, LockInv, RequestInv, InTransaction
    <3>2. \A k \in Challenges : LinkLockInv(k)'
      BY <2>0, <2>2 DEF IInv, TypeOK, LockInv, LinkLockInv, InTransaction
    <3>3. \A t \in Teams : PartLockInv(t)'
      BY <2>0, <2>2 DEF IInv, TypeOK, LockInv, PartLockInv
    <3> QED
      BY <3>1, <3>2, <3>3 DEF LockInv
  <2> QED
    BY <2>1, <2>3 DEF IInv
<1>2. CASE ~ (ctx[q].active /\ ctx[q].team \in registered)
  BY <1>2, RefuseIInv DEF EnsureEventAccess, InTransaction
<1> QED
  BY <1>1, <1>2

LEMMA LockLinkIInv ==
  ASSUME IInv, NEW q \in Requests, LockLink(q)
  PROVE  IInv'
<1> DEFINE c == ctx[q].chall
<1>0. c \in Challenges /\ linkLock[c] = Free /\ pc[q] = "admitted"
  BY DEF IInv, LockInv, RequestInv, LockLink, LinkFree
<1>1. CASE c \in Linked /\ ~ AlreadySolved(ctx[q].team, c)
  <2>0. link[c] \in LinkRow
    BY <1>1 DEF IInv, TypeOK, Linked
  <2> DEFINE l == [link[c] EXCEPT !.attempts = @ + 1]
             x == [tx[q] EXCEPT !.link = l]
  <2>1. l \in LinkRow
    BY <2>0 DEF LinkRow
  <2>2. /\ tx' = [tx EXCEPT ![q] = x]
        /\ x \in Local /\ x.link \in LinkRow /\ x.todo = tx[q].todo
    <3> HIDE DEF l
    <3>1. tx' = [tx EXCEPT ![q].link = l]
      BY <1>1 DEF LockLink, l
    <3> QED
      BY <2>1, <3>1 DEF IInv, TypeOK, Local
  <2>3. link[c] # NoLink
    BY <1>1 DEF Linked
  <2> HIDE DEF l, x
  <2>4. TypeOK'
    BY <1>0, <1>1, <2>2 DEF IInv, TypeOK, LockLink, PC, boardVars
  <2>5. /\ pc' = [pc EXCEPT ![q] = "locked"] /\ linkLock' = [linkLock EXCEPT ![c] = q]
        /\ UNCHANGED <<link, registered, partLock, ctx>>
    BY <1>1 DEF LockLink, boardVars
  <2>6. LockInv'
    <3>1. \A p \in Requests : RequestInv(p)'
      BY <1>0, <2>2, <2>3, <2>5, ScoringAssumption DEF IInv, TypeOK, LockInv, RequestInv, InTransaction
    <3>2. \A k \in Challenges : LinkLockInv(k)'
      BY <1>0, <2>5 DEF IInv, TypeOK, LockInv, LinkLockInv, InTransaction
    <3>3. \A t \in Teams : PartLockInv(t)'
      BY <1>0, <2>5 DEF IInv, TypeOK, LockInv, PartLockInv
    <3> QED
      BY <3>1, <3>2, <3>3 DEF LockInv
  <2> QED
    BY <2>4, <2>6 DEF IInv
<1>2. CASE ~ (c \in Linked /\ ~ AlreadySolved(ctx[q].team, c))
  BY <1>0, <1>2, RefuseIInv DEF LockLink, InTransaction
<1> QED
  BY <1>1, <1>2

LEMMA TouchIInv ==
  ASSUME IInv, NEW q \in Requests, TouchParticipation(q)
  PROVE  IInv'
<1> DEFINE t == ctx[q].team
<1>0. t \in Teams /\ pc[q] = "locked"
  BY DEF IInv, LockInv, RequestInv, TouchParticipation
<1>1. TypeOK'
  BY <1>0 DEF IInv, TypeOK, TouchParticipation, PC, boardVars
<1>2. LockInv'
  BY <1>0, ScoringAssumption
     DEF IInv, TypeOK, LockInv, RequestInv, LinkLockInv, PartLockInv, InTransaction,
         TouchParticipation, ParticipationFree, boardVars
<1> QED
  BY <1>1, <1>2 DEF IInv

LEMMA ScoreIInv ==
  ASSUME IInv, NEW q \in Requests, ScoreSolve(q)
  PROVE  IInv'
<1> DEFINE l == tx[q].link
           t == ctx[q].team
           c == ctx[q].chall
<1>1. t \in Teams /\ c \in Challenges /\ l \in LinkRow /\ pc[q] = "attempted"
  BY DEF IInv, LockInv, RequestInv, ScoreSolve, InTransaction
<1>2. PICK r \in CalculateNewReward(l) :
        tx' = [tx EXCEPT ![q] =
                 [link   |-> [l EXCEPT !.solves = @ + 1, !.reward = r,
                                !.firstBlood = FirstBloodAfter(l, t)],
                  points |-> PointsToAward(l),
                  loss   |-> l.reward - r,
                  todo   |-> IF l.reward > r
                             THEN registered \cap Solvers(rows[c])
                             ELSE {}]]
  BY DEF ScoreSolve
<1> DEFINE m == [l EXCEPT !.solves = @ + 1, !.reward = r,
                   !.firstBlood = FirstBloodAfter(l, t)]
           x == [link |-> m, points |-> PointsToAward(l), loss |-> l.reward - r,
                 todo |-> IF l.reward > r THEN registered \cap Solvers(rows[c]) ELSE {}]
<1>3. r \in Int /\ PointsToAward(l) \in Int /\ l.reward \in Int
  BY <1>1, <1>2, NewRewardType, PointsType DEF LinkRow
<1>4. m \in LinkRow
  <2>1. FirstBloodAfter(l, t) \in Teams \cup {NoTeam}
    BY <1>1 DEF FirstBloodAfter, LinkRow
  <2> HIDE DEF l, t
  <2> QED
    BY <1>1, <1>3, <2>1, SolvedRowType
<1>5. x \in Local /\ x.link \in LinkRow /\ x.todo \subseteq registered
  <2> HIDE DEF m
  <2> QED
    BY <1>3, <1>4 DEF Local, IInv, TypeOK
<1>6. tx' = [tx EXCEPT ![q] = x] /\ pc' = [pc EXCEPT ![q] = "scored"]
  BY <1>2 DEF ScoreSolve
<1>7. UNCHANGED <<boardVars, status, touched, lockVars, ctx>>
  BY DEF ScoreSolve
<1> HIDE DEF x, m
<1>8. TypeOK'
  BY <1>5, <1>6, <1>7 DEF IInv, TypeOK, PC, boardVars, lockVars
<1>9. LockInv'
  BY <1>1, <1>5, <1>6, <1>7 DEF IInv, TypeOK, LockInv, RequestInv, LinkLockInv, PartLockInv,
                                InTransaction, boardVars, lockVars
<1> QED
  BY <1>8, <1>9 DEF IInv

LEMMA ChargeIInv ==
  ASSUME IInv, NEW q \in Requests, NEW v \in Teams, ChargeSolver(q, v)
  PROVE  IInv'
<1> DEFINE x == [tx[q] EXCEPT !.todo = @ \ {v}]
<1>1. tx' = [tx EXCEPT ![q] = x] /\ x \in Local /\ x.link = tx[q].link /\ x.todo \subseteq tx[q].todo
  <2>1. tx' = [tx EXCEPT ![q].todo = tx[q].todo \ {v}]
    BY DEF ChargeSolver
  <2> QED
    BY <2>1 DEF IInv, TypeOK, Local
<1> HIDE DEF x
<1>2. /\ pc[q] = "scored" /\ v \in tx[q].todo
      /\ partLock[v] = Free /\ partLock' = [partLock EXCEPT ![v] = q]
      /\ UNCHANGED <<boardVars, status, touched, linkLock, pc, ctx>>
  BY DEF ChargeSolver, ParticipationFree
<1>3. v \in registered
  BY <1>2 DEF IInv, LockInv, RequestInv
<1>4. TypeOK'
  BY <1>1, <1>2 DEF IInv, TypeOK, boardVars
<1>5. LockInv'
  <2>1. \A p \in Requests : RequestInv(p)'
    BY <1>1, <1>2 DEF IInv, TypeOK, LockInv, RequestInv, InTransaction, boardVars
  <2>2. \A k \in Challenges : LinkLockInv(k)'
    BY <1>2 DEF IInv, LockInv, LinkLockInv
  <2>3. \A t \in Teams : PartLockInv(t)'
    BY <1>2, <1>3 DEF IInv, TypeOK, LockInv, PartLockInv, boardVars
  <2> QED
    BY <2>1, <2>2, <2>3 DEF LockInv
<1> QED
  BY <1>4, <1>5 DEF IInv

LEMMA RecordIInv ==
  ASSUME IInv, NEW q \in Requests, RecordSolve(q)
  PROVE  IInv'
<1> DEFINE l == tx[q].link
           t == ctx[q].team
           c == ctx[q].chall
<1>1. /\ t \in Teams /\ c \in Challenges /\ l \in LinkRow /\ pc[q] = "scored"
      /\ link[c] \in LinkRow /\ tx[q].points \in Int /\ tx[q].loss \in Int
  BY DEF IInv, TypeOK, LockInv, RequestInv, RecordSolve, InTransaction, Local
<1> DEFINE m == [link[c] EXCEPT !.attempts = l.attempts, !.solves = l.solves,
                                !.reward = l.reward, !.firstBlood = l.firstBlood]
<1>2. link' = [link EXCEPT ![c] = m] /\ m \in LinkRow
  <2>1. m \in LinkRow
    BY <1>1, WrittenRowType
  <2>2. link' = [link EXCEPT ![c] = m]
    BY <1>1 DEF RecordSolve, IInv, TypeOK
  <2> QED
    BY <2>1, <2>2
<1> HIDE DEF m
<1>3. score' \in [Teams -> Int]
  <2>1. \A v \in Teams : ScoreAfter(v, t, tx[q].points, Charged(q), tx[q].loss) \in Int
    BY <1>1 DEF ScoreAfter, IInv, TypeOK
  <2> QED
    BY <2>1 DEF RecordSolve
<1>4. solved' \in [Teams -> Nat]
  BY <1>1 DEF RecordSolve, IInv, TypeOK
<1>5. profile' \in [Players -> Profile]
  <2>1. ASSUME NEW p PROVE Credited(p, tx[q].points) \in [Players -> Profile]
    <3> DEFINE n == tx[q].points
    <3>1. n \in Int /\ profile \in [Players -> Profile]
      BY <1>1 DEF IInv, TypeOK
    <3> HIDE DEF n
    <3>2. \A u \in Players : [points |-> profile[u].points + n, solved |-> profile[u].solved + 1] \in Profile
      BY <3>1 DEF Profile
    <3> QED
      BY <3>1, <3>2 DEF Credited, n
  <2>2. PICK p : profile' = Credited(p, tx[q].points)
    BY DEF RecordSolve
  <2> QED
    BY <2>1, <2>2
<1>6. rows' \in [Challenges -> Seq(SolveRow)]
  <2>1. [team |-> t, score |-> tx[q].points] \in SolveRow
    BY <1>1 DEF SolveRow
  <2> QED
    BY <1>1, <2>1 DEF RecordSolve, IInv, TypeOK
<1>7. /\ ReleaseLocks(q) /\ Respond(q)
      /\ UNCHANGED <<registered, entries, status, touched>>
  BY DEF RecordSolve
<1>8. TypeOK'
  <2>1. link' \in [Challenges -> LinkRow \cup {NoLink}]
    BY <1>1, <1>2 DEF IInv, TypeOK
  <2>2. /\ linkLock' \in [Challenges -> Requests \cup {Free}]
        /\ partLock' \in [Teams -> Requests \cup {Free}]
    BY <1>7 DEF ReleaseLocks, IInv, TypeOK
  <2>3. pc' \in [Requests -> PC] /\ ctx' \in [Requests -> Context] /\ tx' \in [Requests -> Local]
    BY <1>7 DEF Respond, IInv, TypeOK, PC, NoContext, NoLocal, Context, Local
  <2> QED
    BY <1>3, <1>4, <1>5, <1>6, <1>7, <2>1, <2>2, <2>3 DEF IInv, TypeOK
<1>9. LockInv'
  BY <1>1, <1>2, <1>7, ScoringAssumption, ScoreboardAssumption
     DEF IInv, TypeOK, LockInv, RequestInv, LinkLockInv, PartLockInv, InTransaction,
         ReleaseLocks, Respond, NoContext, NoLocal
<1> QED
  BY <1>8, <1>9 DEF IInv

LEMMA JoinCheckIInv ==
  ASSUME IInv, NEW q \in Requests, JoinCheck(q)
  PROVE  IInv'
<1>1. CASE Refuse(q)
  BY <1>1, RefuseIInv DEF JoinCheck, InTransaction
<1>2. CASE pc' = [pc EXCEPT ![q] = "joining"] /\ UNCHANGED <<boardVars, status, touched, lockVars, ctx, tx>>
  BY <1>2 DEF JoinCheck, IInv, TypeOK, PC, LockInv, RequestInv, LinkLockInv, PartLockInv,
              InTransaction, boardVars, lockVars
<1> QED
  BY <1>1, <1>2 DEF JoinCheck

LEMMA JoinInsertIInv ==
  ASSUME IInv, NEW q \in Requests, JoinInsert(q)
  PROVE  IInv'
<1>1. CASE Refuse(q)
  BY <1>1, RefuseIInv DEF JoinInsert, InTransaction
<1>2. CASE ctx[q].team \notin registered
  <2> DEFINE t == ctx[q].team
  <2>1. /\ t \in Teams /\ pc[q] = "joining"
        /\ registered' = registered \cup {t} /\ score' = [score EXCEPT ![t] = 0]
        /\ solved' = [solved EXCEPT ![t] = 0] /\ entries' = [entries EXCEPT ![t] = @ + 1]
        /\ Respond(q)
        /\ UNCHANGED <<link, rows, profile, status, touched, lockVars>>
    BY <1>2 DEF IInv, LockInv, RequestInv, JoinInsert
  <2> HIDE DEF t
  <2>2. TypeOK'
    BY <2>1 DEF Respond, IInv, TypeOK, PC, NoContext, NoLocal, Context, Local, lockVars
  <2>3. LockInv'
    BY <2>1 DEF Respond, IInv, TypeOK, LockInv, RequestInv, LinkLockInv, PartLockInv,
                InTransaction, NoContext, NoLocal, lockVars
  <2> QED
    BY <2>2, <2>3 DEF IInv
<1> QED
  BY <1>1, <1>2 DEF JoinInsert

LEMMA LeaveIInv ==
  ASSUME IInv, NEW q \in Requests, LeaveEvent(q)
  PROVE  IInv'
<1> DEFINE t == ctx[q].team
<1>1. /\ t \in Teams /\ pc[q] = "authed" /\ partLock[t] = Free
      /\ registered' = registered \ {t}
      /\ pc' = [pc EXCEPT ![q] = "idle"] /\ ctx' = [ctx EXCEPT ![q] = NoContext]
      /\ UNCHANGED <<link, rows, score, solved, entries, profile, status, touched, lockVars>>
  BY DEF IInv, LockInv, RequestInv, LeaveEvent, ParticipationFree
<1> HIDE DEF t
<1>2. \A p \in Requests :
        /\ tx'[p] \in Local
        /\ p # q => tx'[p].link = tx[p].link
        /\ tx'[p].todo \subseteq registered'
  <2> TAKE p \in Requests
  <2>1. CASE p = q
    BY <2>1 DEF LeaveEvent, NoLocal, Local
  <2>2. CASE p # q
    <3>1. tx'[p] = [tx[p] EXCEPT !.todo = @ \ {t}]
      BY <2>2 DEF LeaveEvent, t
    <3>2. tx[p].todo \subseteq registered /\ tx[p] \in Local
      BY DEF IInv, TypeOK, LockInv, RequestInv
    <3> QED
      BY <1>1, <2>2, <3>1, <3>2 DEF Local
  <2> QED
    BY <2>1, <2>2
<1>3. tx' \in [Requests -> Local]
  <2>1. tx' = [p \in Requests |-> tx'[p]]
    BY DEF LeaveEvent
  <2> QED
    BY <1>2, <2>1
<1>4. TypeOK'
  BY <1>1, <1>3 DEF IInv, TypeOK, PC, NoContext, Context, lockVars
<1>5. LockInv'
  <2>1. \A p \in Requests : RequestInv(p)'
    BY ZenonT(40), <1>1, <1>2 DEF IInv, TypeOK, LockInv, RequestInv, InTransaction, lockVars
  <2>2. \A k \in Challenges : LinkLockInv(k)'
    BY <1>1 DEF IInv, TypeOK, LockInv, LinkLockInv, InTransaction, lockVars
  <2>3. \A u \in Teams : PartLockInv(u)'
    BY <1>1 DEF IInv, TypeOK, LockInv, PartLockInv, lockVars
  <2> QED
    BY <2>1, <2>2, <2>3 DEF LockInv
<1> QED
  BY <1>4, <1>5 DEF IInv

LEMMA OrganizeIInv ==
  ASSUME IInv, Organize
  PROVE  IInv'
<1>1. ASSUME NEW c \in Challenges, NEW cfg \in Configs, NEW k \in Presets, LinkChallenge(c, cfg, k)
      PROVE  IInv'
  <2>1. NewLink(WithColumnDefaults(cfg), k) \in LinkRow
    BY NewLinkType, ScoreboardAssumption
  <2> QED
    BY <1>1, <2>1, ScoreboardAssumption
       DEF LinkChallenge, IInv, TypeOK, LockInv, RequestInv, LinkLockInv, PartLockInv, InTransaction,
           lockVars, reqVars
<1>2. ASSUME NEW c \in Challenges, NEW cfg \in Configs, UpdateChallenge(c, cfg) PROVE IInv'
  <2>1. link[c] \in LinkRow /\ cfg.decay > 0
    BY <1>2 DEF UpdateChallenge, IInv, TypeOK, Linked
  <2>2. PICK k \in Counters : link' = [link EXCEPT ![c] = WithSettings(link[c], cfg, k)]
    BY <1>2, <2>1, CountersType DEF UpdateChallenge
  <2>3. WithSettings(link[c], cfg, k) \in LinkRow
    BY <2>1, WithSettingsType
  <2> QED
    BY <1>2, <2>2, <2>3, ScoreboardAssumption
       DEF UpdateChallenge, IInv, TypeOK, LockInv, RequestInv, LinkLockInv, PartLockInv, InTransaction,
           lockVars, reqVars
<1>3. ASSUME NEW c \in Challenges, UnlinkChallenge(c) PROVE IInv'
  BY <1>3, ScoringAssumption
     DEF UnlinkChallenge, LinkFree, IInv, TypeOK, LockInv, RequestInv, LinkLockInv, PartLockInv,
         InTransaction, lockVars, reqVars
<1>4. CASE StartEvent \/ StopEvent \/ SyncCtfStatus
  BY <1>4 DEF StartEvent, StopEvent, SyncCtfStatus, IInv, TypeOK, LockInv, RequestInv, LinkLockInv,
              PartLockInv, InTransaction, boardVars, lockVars, reqVars
<1> QED
  BY <1>1, <1>2, <1>3, <1>4 DEF Organize

LEMMA RestartIInv ==
  ASSUME IInv, Restart
  PROVE  IInv'
BY DEF Restart, IInv, TypeOK, LockInv, RequestInv, LinkLockInv, PartLockInv, InTransaction,
       PC, Context, Local, NoContext, NoLocal, boardVars
-----------------------------------------------------------------------------
LEMMA StepIInv == IInv /\ [Next]_vars => IInv'
<1> SUFFICES ASSUME IInv, [Next]_vars PROVE IInv'
  OBVIOUS
<1>1. ASSUME NEW q \in Requests, NEW t \in Teams, PlayerAuth(q, t) \/ ChargeSolver(q, t)
      PROVE  IInv'
  BY <1>1, PlayerAuthIInv, ChargeIInv
<1>2. ASSUME NEW q \in Requests, RefuseCall(q) \/ JoinCheck(q) \/ LeaveEvent(q) \/ JoinInsert(q)
      PROVE  IInv'
  <2>1. CASE RefuseCall(q)
    BY <2>1, RefuseIInv DEF RefuseCall, InTransaction
  <2> QED
    BY <1>2, <2>1, JoinCheckIInv, LeaveIInv, JoinInsertIInv
<1>3. ASSUME NEW q \in Requests, NEW c \in Challenges, NEW f \in BOOLEAN,
             EnsureEventAccess(q, c, f)
      PROVE  IInv'
  BY <1>3, AccessIInv
<1>4. ASSUME NEW q \in Requests,
             \/ LockLink(q) \/ TouchParticipation(q)
             \/ ScoreSolve(q) \/ RecordSolve(q)
      PROVE  IInv'
  BY <1>4, LockLinkIInv, TouchIInv, ScoreIInv, RecordIInv
<1>5. ASSUME NEW q \in Requests, RejectFlag(q) \/ DeadlockAbort(q)
      PROVE  IInv'
  BY <1>5, RollbackIInv DEF RejectFlag, DeadlockAbort
<1>6. CASE Organize
  BY <1>6, OrganizeIInv
<1>7. CASE Restart
  BY <1>7, RestartIInv
<1>8. CASE UNCHANGED vars
  BY <1>8 DEF vars, boardVars, lockVars, reqVars, IInv, TypeOK, LockInv, RequestInv,
              LinkLockInv, PartLockInv
<1> QED
  BY <1>1, <1>2, <1>3, <1>4, <1>5, <1>6, <1>7, <1>8 DEF Next, Handle

LEMMA AlwaysIInv == Spec => []IInv
BY InitIInv, StepIInv, PTL DEF Spec

(***************************************************************************)
(* Every variable keeps its type: no statement computes with a null, no    *)
(* reward or counter leaves the integers.                                  *)
(***************************************************************************)
THEOREM TypeCorrect == Spec => []TypeOK
BY AlwaysIInv, PTL DEF IInv

-----------------------------------------------------------------------------
(***************************************************************************)
(* SInv adds to the lock discipline (IInv) what a transaction knows while  *)
(* it holds a link: its team has no solve row yet, its copy is current,    *)
(* and what it is about to write is one more solve of the committed row.   *)
(***************************************************************************)

(* What the transaction of q will write over the committed row of its link. *)
ScoredCopy(q) ==
  LET k == link[ctx[q].chall]
      l == tx[q].link
  IN  /\ l.attempts = k.attempts + 1
      /\ l.solves = k.solves + 1
      /\ l.firstBlood = FirstBloodAfter(k, ctx[q].team)
      /\ l.reward \in CalculateNewReward(k)
      /\ tx[q].points = PointsToAward(k)
      /\ tx[q].loss = k.reward - l.reward

TxInv(q) ==
  pc[q] \in InTransaction =>
    /\ ctx[q].team \notin Solvers(rows[ctx[q].chall])
    /\ pc[q] \in {"locked", "attempted"} =>
         tx[q].link = [link[ctx[q].chall] EXCEPT !.attempts = @ + 1]
    /\ pc[q] = "scored" => ScoredCopy(q)

(* RewardBefore for the row l of a link and the sequence s of its solves. *)
Before(l, s, i) ==
  IF i > Len(s) THEN l.reward
  ELSE s[i].score - (IF i = 1 THEN l.rewardFirstBlood ELSE 0)

(* What the solvers were paid, and the reward the next one finds.  A link   *)
(* made by an organizer always decrements: gorm's default wins.             *)
ChainOf(l, s) ==
  /\ l.rewardDecrements
  /\ Before(l, s, 1) = l.initial
  /\ \A i \in DOMAIN s :
       Before(l, s, i + 1) \in DecayedReward(Before(l, s, i), l.rewardMin, l.decay, i - 1)

(* A row of ctfs_challenges no organizer changed, against its solves. *)
RowAgrees(l, s) ==
  /\ l.solves = Len(s)
  /\ l.attempts = Len(s)
  /\ l.firstBlood = IF s = <<>> THEN NoTeam ELSE s[1].team
  /\ \/ l.rewardMin =< l.reward /\ l.reward =< l.initial
     \/ l.initial =< l.reward /\ l.reward =< l.rewardMin
  /\ ChainOf(l, s)

DistinctTeams(s) == \A i, j \in DOMAIN s : s[i].team = s[j].team => i = j

BoardInv(c) ==
  /\ DistinctTeams(rows[c])
  /\ c \in Untouched => RowAgrees(link[c], rows[c])
  /\ (c \notin Linked /\ c \notin touched) => rows[c] = <<>>

SInv ==
  /\ IInv
  /\ \A q \in Requests : TxInv(q)
  /\ \A c \in Challenges : BoardInv(c)
-----------------------------------------------------------------------------
(* Appending a solve of another team. *)
LEMMA AppendSolve ==
  ASSUME NEW s \in Seq(SolveRow), NEW r \in SolveRow
  PROVE  /\ Append(s, r) \in Seq(SolveRow)
         /\ Len(Append(s, r)) = Len(s) + 1
         /\ Solvers(Append(s, r)) = Solvers(s) \cup {r.team}
         /\ Append(s, r) # <<>>
         /\ Append(s, r)[1] = IF s = <<>> THEN r ELSE s[1]
         /\ (DistinctTeams(s) /\ r.team \notin Solvers(s)) => DistinctTeams(Append(s, r))
<1> DEFINE a == Append(s, r)
<1>1. /\ a \in Seq(SolveRow) /\ Len(a) = Len(s) + 1 /\ Len(s) \in Nat
      /\ DOMAIN s = 1 .. Len(s) /\ DOMAIN a = 1 .. Len(s) + 1
      /\ \A i \in 1 .. Len(s) : a[i] = s[i]
      /\ a[Len(s) + 1] = r
  BY AppendProperties, LenProperties
<1>2. a # <<>>
  BY <1>1, EmptySeq
<1>3. a[1] = IF s = <<>> THEN r ELSE s[1]
  <2>1. s = <<>> <=> Len(s) = 0
    BY EmptySeq
  <2> QED
    BY <1>1, <2>1
<1> HIDE DEF a
<1>4. Solvers(a) = Solvers(s) \cup {r.team}
  BY <1>1 DEF Solvers
<1>5. (DistinctTeams(s) /\ r.team \notin Solvers(s)) => DistinctTeams(a)
  BY <1>1 DEF DistinctTeams, Solvers
<1> QED
  BY <1>1, <1>2, <1>3, <1>4, <1>5 DEF a

(* One more solve, paid from the reward it found: the rewards before the   *)
(* earlier solves and before this one are what they were.                  *)
LEMMA BeforeAppend ==
  ASSUME NEW s \in Seq(SolveRow), NEW k \in LinkRow, NEW m \in LinkRow,
         NEW r \in SolveRow,
         k.firstBlood = NoTeam <=> s = <<>>,
         r.score = PointsToAward(k),
         m.rewardFirstBlood = k.rewardFirstBlood
  PROVE  /\ \A i \in 1 .. Len(s) + 1 : Before(m, Append(s, r), i) = Before(k, s, i)
         /\ Before(m, Append(s, r), Len(s) + 2) = m.reward
         /\ Before(k, s, Len(s) + 1) = k.reward
<1> DEFINE a == Append(s, r)
           n == Len(s)
<1>1. /\ n \in Nat /\ DOMAIN s = 1 .. n /\ DOMAIN a = 1 .. n + 1 /\ Len(a) = n + 1
      /\ \A i \in 1 .. n : a[i] = s[i]
      /\ a[n + 1] = r
  BY AppendProperties, LenProperties
<1>2. /\ k.reward \in Int /\ k.rewardFirstBlood \in Int /\ m.reward \in Int
  BY DEF LinkRow
<1>3. s = <<>> <=> n = 0
  BY EmptySeq
<1> HIDE DEF a, n
<1>4. Before(m, a, n + 1) = k.reward
  BY <1>1, <1>2, <1>3 DEF Before, PointsToAward
<1>5. Before(k, s, n + 1) = k.reward
  BY <1>1 DEF Before, n
<1>6. ASSUME NEW i \in 1 .. n PROVE Before(m, a, i) = Before(k, s, i)
  BY <1>1, <1>6 DEF Before, n
<1>7. ASSUME NEW i \in 1 .. n + 1 PROVE Before(m, a, i) = Before(k, s, i)
  BY <1>1, <1>4, <1>5, <1>6
<1>8. Before(m, a, n + 2) = m.reward
  BY <1>1 DEF Before
<1> QED
  BY <1>5, <1>7, <1>8 DEF a, n

(* So it extends the chain. *)
LEMMA ChainGrows ==
  ASSUME NEW s \in Seq(SolveRow), NEW k \in LinkRow, NEW m \in LinkRow,
         NEW r \in SolveRow,
         ChainOf(k, s), k.solves = Len(s),
         k.firstBlood = NoTeam <=> s = <<>>,
         r.score = PointsToAward(k),
         m.reward \in CalculateNewReward(k),
         m.rewardMin = k.rewardMin, m.decay = k.decay, m.initial = k.initial,
         m.rewardFirstBlood = k.rewardFirstBlood,
         m.rewardDecrements = k.rewardDecrements
  PROVE  ChainOf(m, Append(s, r))
<1> DEFINE a == Append(s, r)
           n == Len(s)
<1>1. /\ n \in Nat /\ DOMAIN s = 1 .. n /\ DOMAIN a = 1 .. n + 1
  BY AppendProperties, LenProperties
<1>2. /\ \A i \in 1 .. n + 1 : Before(m, a, i) = Before(k, s, i)
      /\ Before(m, a, n + 2) = m.reward /\ Before(k, s, n + 1) = k.reward
  BY BeforeAppend
<1> HIDE DEF a, n
<1>3. Before(m, a, 1) = m.initial
  BY <1>1, <1>2 DEF ChainOf
<1>4. ASSUME NEW i \in 1 .. n + 1
      PROVE  Before(m, a, i + 1) \in
               DecayedReward(Before(m, a, i), m.rewardMin, m.decay, i - 1)
  <2>1. CASE i \in 1 .. n
    <3>1. Before(k, s, i + 1) \in DecayedReward(Before(k, s, i), k.rewardMin, k.decay, i - 1)
      BY <1>1, <2>1 DEF ChainOf
    <3>2. i + 1 \in 1 .. n + 1
      BY <1>1, <2>1
    <3> QED
      BY <1>2, <1>4, <3>1, <3>2
  <2>2. CASE i = n + 1
    <3>1. m.reward \in DecayedReward(k.reward, k.rewardMin, k.decay, n)
      BY DEF CalculateNewReward, ChainOf, n
    <3>2. i + 1 = n + 2 /\ i - 1 = n
      BY <1>1, <2>2
    <3> QED
      BY <1>2, <2>2, <3>1, <3>2
  <2> QED
    BY <1>1, <1>4, <2>1, <2>2
<1> QED
  BY <1>1, <1>3, <1>4 DEF ChainOf, a

(* A step that changes neither links nor solves, and under which the open *)
(* transactions keep what they know. *)
LEMMA QuietStep ==
  ASSUME SInv, IInv', UNCHANGED <<link, rows, touched>>,
         \A p \in Requests : pc'[p] \in InTransaction =>
           /\ ctx'[p] = ctx[p]
           /\ tx'[p].link = tx[p].link /\ tx'[p].points = tx[p].points /\ tx'[p].loss = tx[p].loss
           /\ pc'[p] = pc[p] \/ (pc[p] = "locked" /\ pc'[p] = "attempted")
  PROVE  SInv'
<1>1. \A p \in Requests : TxInv(p)'
  BY DEF SInv, TxInv, ScoredCopy, InTransaction
<1>2. \A c \in Challenges : BoardInv(c)'
  BY DEF SInv, BoardInv, Untouched, Linked
<1> QED
  BY <1>1, <1>2 DEF SInv
-----------------------------------------------------------------------------
LEMMA InitSInv == Init => SInv
<1> SUFFICES ASSUME Init PROVE SInv
  OBVIOUS
<1>1. IInv
  BY InitIInv
<1>2. \A q \in Requests : TxInv(q)
  BY DEF Init, TxInv, InTransaction
<1>3. \A c \in Challenges : BoardInv(c)
  BY DEF Init, InitBoard, BoardInv, DistinctTeams, Untouched, Linked
<1> QED
  BY <1>1, <1>2, <1>3 DEF SInv

(* Requests that do not score, and everything that ends a request. *)
LEMMA QuietSteps ==
  ASSUME SInv, IInv', NEW q \in Requests, NEW t \in Teams,
         \/ PlayerAuth(q, t) \/ ChargeSolver(q, t) \/ JoinCheck(q) \/ JoinInsert(q)
         \/ LeaveEvent(q) \/ TouchParticipation(q) \/ Refuse(q) \/ Rollback(q)
         \/ StartEvent \/ StopEvent \/ SyncCtfStatus \/ Restart \/ UNCHANGED vars
  PROVE  SInv'
<1>0. TypeOK
  BY DEF SInv, IInv
<1>1. CASE Refuse(q) \/ Rollback(q)
  BY <1>0, <1>1, QuietStep DEF Refuse, Rollback, Respond, TypeOK, InTransaction, boardVars
<1>2. CASE PlayerAuth(q, t) \/ TouchParticipation(q)
  BY <1>0, <1>2, QuietStep DEF PlayerAuth, TouchParticipation, TypeOK, InTransaction, boardVars
<1>3. CASE ChargeSolver(q, t)
  <2>1. \A p \in Requests :
          /\ tx'[p].link = tx[p].link /\ tx'[p].points = tx[p].points
          /\ tx'[p].loss = tx[p].loss
    BY <1>0, <1>3 DEF ChargeSolver, TypeOK, Local
  <2> QED
    BY <1>3, <2>1, QuietStep DEF ChargeSolver, boardVars
<1>4. CASE JoinCheck(q)
  <2>1. CASE pc' = [pc EXCEPT ![q] = "joining"]
          /\ UNCHANGED <<boardVars, status, touched, lockVars, ctx, tx>>
    BY <1>0, <2>1, QuietStep DEF TypeOK, InTransaction, boardVars
  <2> QED
    BY <1>1, <1>4, <2>1 DEF JoinCheck
<1>5. CASE JoinInsert(q)
  <2>1. CASE Respond(q) /\ UNCHANGED <<link, rows, profile, status, touched, lockVars>>
    BY <1>0, <2>1, QuietStep DEF Respond, TypeOK, InTransaction
  <2> QED
    BY <1>1, <1>5, <2>1 DEF JoinInsert
<1>6. CASE LeaveEvent(q)
  <2>1. \A p \in Requests : p # q =>
          /\ tx'[p].link = tx[p].link /\ tx'[p].points = tx[p].points
          /\ tx'[p].loss = tx[p].loss
    BY <1>0, <1>6 DEF LeaveEvent, TypeOK, Local
  <2> QED
    BY <1>0, <1>6, <2>1, QuietStep DEF LeaveEvent, TypeOK, InTransaction
<1>7. CASE StartEvent \/ StopEvent \/ SyncCtfStatus \/ UNCHANGED vars
  BY <1>7, QuietStep DEF StartEvent, StopEvent, SyncCtfStatus, vars, boardVars, reqVars
<1>8. CASE Restart
  BY <1>8, QuietStep DEF Restart, InTransaction, boardVars
<1> QED
  BY <1>1, <1>2, <1>3, <1>4, <1>5, <1>6, <1>7, <1>8

LEMMA AccessSInv ==
  ASSUME SInv, IInv', NEW q \in Requests, NEW c \in Challenges, NEW f \in BOOLEAN,
         EnsureEventAccess(q, c, f)
  PROVE  SInv'
<1>1. CASE Refuse(q)
  <2>1. ctx[q].team \in Teams
    BY DEF EnsureEventAccess, SInv, IInv, LockInv, RequestInv
  <2> QED
    BY <1>1, <2>1, QuietSteps
<1>2. CASE /\ pc' = [pc EXCEPT ![q] = "admitted"]
           /\ ctx' = [ctx EXCEPT ![q].chall = c, ![q].correct = f]
           /\ UNCHANGED <<boardVars, status, touched, lockVars, tx>>
  BY <1>2, QuietStep DEF SInv, IInv, TypeOK, InTransaction, boardVars
<1> QED
  BY <1>1, <1>2 DEF EnsureEventAccess

(* A transaction begins: what it read of the link is the committed row. *)
LEMMA LockLinkSInv ==
  ASSUME SInv, IInv', NEW q \in Requests, LockLink(q)
  PROVE  SInv'
<1> DEFINE c == ctx[q].chall
<1>0. ctx[q].team \in Teams /\ c \in Challenges /\ pc[q] = "admitted"
  BY DEF LockLink, SInv, IInv, LockInv, RequestInv
<1>1. CASE Refuse(q)
  BY <1>0, <1>1, QuietSteps
<1>2. CASE c \in Linked /\ ~ AlreadySolved(ctx[q].team, c)
  <2> DEFINE m == [link[c] EXCEPT !.attempts = @ + 1]
  <2>1. /\ pc' = [pc EXCEPT ![q] = "locked"]
        /\ tx' = [tx EXCEPT ![q].link = m]
        /\ UNCHANGED <<link, rows, touched, ctx>>
    BY <1>2 DEF LockLink, boardVars
  <2> HIDE DEF m
  <2>2. tx'[q].link = m /\ \A p \in Requests : p # q => tx'[p] = tx[p]
    BY <2>1 DEF SInv, IInv, TypeOK, Local
  <2>3. \A p \in Requests : TxInv(p)'
    <3> TAKE p \in Requests
    <3>1. CASE p = q
      BY <1>2, <2>1, <2>2, <3>1 DEF SInv, IInv, TypeOK, TxInv, AlreadySolved, m
    <3>2. CASE p # q
      BY <2>1, <2>2, <3>2 DEF SInv, IInv, TypeOK, TxInv, ScoredCopy
    <3> QED
      BY <3>1, <3>2
  <2>4. \A k \in Challenges : BoardInv(k)'
    BY <2>1 DEF SInv, BoardInv, Untouched, Linked
  <2> QED
    BY <2>3, <2>4 DEF SInv
<1> QED
  BY <1>1, <1>2 DEF LockLink

(* The copy the transaction scores differs from the committed row only in  *)
(* its attempts.                                                           *)
LEMMA ScoreSInv ==
  ASSUME SInv, IInv', NEW q \in Requests, ScoreSolve(q)
  PROVE  SInv'
<1> DEFINE c == ctx[q].chall
           t == ctx[q].team
           l == tx[q].link
           k == link[c]
<1>1. /\ c \in Challenges /\ t \in Teams /\ pc[q] = "attempted"
      /\ k \in LinkRow /\ l = [k EXCEPT !.attempts = @ + 1]
      /\ t \notin Solvers(rows[c])
  <2>1. pc[q] = "attempted" /\ RequestInv(q) /\ TxInv(q)
    BY DEF ScoreSolve, SInv, IInv, LockInv
  <2>2. c \in Challenges /\ t \in Teams /\ k # NoLink
    BY <2>1 DEF RequestInv, InTransaction
  <2>3. k \in LinkRow
    BY <2>2 DEF SInv, IInv, TypeOK
  <2> QED
    BY <2>1, <2>2, <2>3 DEF TxInv, InTransaction
<1>2. PICK r \in CalculateNewReward(l) :
        tx' = [tx EXCEPT ![q] =
                 [link   |-> [l EXCEPT !.solves = @ + 1, !.reward = r,
                                !.firstBlood = FirstBloodAfter(l, t)],
                  points |-> PointsToAward(l),
                  loss   |-> l.reward - r,
                  todo   |-> IF l.reward > r
                             THEN registered \cap Solvers(rows[c])
                             ELSE {}]]
  BY DEF ScoreSolve
<1>3. /\ pc' = [pc EXCEPT ![q] = "scored"]
      /\ UNCHANGED <<link, rows, touched, ctx>>
  BY DEF ScoreSolve, boardVars
<1>4. /\ l.attempts = k.attempts + 1 /\ l.solves = k.solves /\ l.reward = k.reward
      /\ l.firstBlood = k.firstBlood /\ l.rewardMin = k.rewardMin /\ l.decay = k.decay
      /\ l.rewardDecrements = k.rewardDecrements /\ l.rewardFirstBlood = k.rewardFirstBlood
      /\ l \in LinkRow
  BY <1>1 DEF LinkRow
<1>5. /\ CalculateNewReward(l) = CalculateNewReward(k)
      /\ PointsToAward(l) = PointsToAward(k)
      /\ FirstBloodAfter(l, t) = FirstBloodAfter(k, t)
  BY <1>4 DEF CalculateNewReward, PointsToAward, FirstBloodAfter
<1>6. /\ tx'[q].link.attempts = k.attempts + 1
      /\ tx'[q].link.solves = k.solves + 1
      /\ tx'[q].link.firstBlood = FirstBloodAfter(k, t)
      /\ tx'[q].link.reward = r
      /\ tx'[q].points = PointsToAward(k)
      /\ tx'[q].loss = k.reward - r
      /\ \A p \in Requests : p # q => tx'[p] = tx[p]
  <2> DEFINE m == [l EXCEPT !.solves = @ + 1, !.reward = r, !.firstBlood = FirstBloodAfter(l, t)]
  <2>1. /\ m.attempts = l.attempts /\ m.solves = l.solves + 1 /\ m.reward = r
        /\ m.firstBlood = FirstBloodAfter(l, t)
    <3> HIDE DEF l
    <3> QED
      BY <1>4 DEF LinkRow
  <2> HIDE DEF m, l
  <2>2. /\ tx'[q].link = m /\ tx'[q].points = PointsToAward(l)
        /\ tx'[q].loss = l.reward - r
        /\ \A p \in Requests : p # q => tx'[p] = tx[p]
    BY <1>2 DEF SInv, IInv, TypeOK, m
  <2> QED
    BY <1>4, <1>5, <2>1, <2>2
<1>7. \A p \in Requests : TxInv(p)'
  <2> TAKE p \in Requests
  <2>1. CASE p = q
    BY <1>1, <1>2, <1>3, <1>5, <1>6, <2>1 DEF TxInv, ScoredCopy, SInv, IInv, TypeOK
  <2>2. CASE p # q
    BY <1>3, <1>6, <2>2 DEF SInv, IInv, TypeOK, TxInv, ScoredCopy
  <2> QED
    BY <2>1, <2>2
<1>8. \A d \in Challenges : BoardInv(d)'
  BY <1>3 DEF SInv, BoardInv, Untouched, Linked
<1> QED
  BY <1>7, <1>8 DEF SInv

(* The commit: one more solve of the committed row, by a new team. *)
LEMMA RecordSInv ==
  ASSUME SInv, IInv', NEW q \in Requests, RecordSolve(q)
  PROVE  SInv'
<1> DEFINE c == ctx[q].chall
           t == ctx[q].team
           l == tx[q].link
           k == link[c]
           m == [k EXCEPT !.attempts = l.attempts, !.solves = l.solves,
                          !.reward = l.reward, !.firstBlood = l.firstBlood]
           row == [team |-> t, score |-> tx[q].points]
<1>1. pc[q] = "scored" /\ RequestInv(q) /\ TxInv(q) /\ BoardInv(c) /\ TypeOK
  <2>1. pc[q] = "scored" /\ RequestInv(q) /\ TxInv(q)
    BY DEF RecordSolve, SInv, IInv, LockInv
  <2>2. c \in Challenges
    BY <2>1 DEF RequestInv, InTransaction
  <2> QED
    BY <2>1, <2>2 DEF SInv, IInv
<1>2. /\ c \in Challenges /\ t \in Teams /\ k # NoLink /\ linkLock[c] = q
      /\ t \notin Solvers(rows[c]) /\ ScoredCopy(q)
  BY <1>1 DEF RequestInv, TxInv, InTransaction
<1>3. k \in LinkRow /\ row \in SolveRow /\ rows[c] \in Seq(SolveRow) /\ l \in LinkRow
  BY <1>1, <1>2 DEF TypeOK, RequestInv, InTransaction, SolveRow, Local
<1>4. /\ link' = [link EXCEPT ![c] = m]
      /\ rows' = [rows EXCEPT ![c] = Append(@, row)]
      /\ Respond(q) /\ UNCHANGED touched
  BY <1>1, <1>2 DEF RecordSolve, TypeOK
<1>5. /\ m.attempts = l.attempts /\ m.solves = l.solves /\ m.reward = l.reward
      /\ m.firstBlood = l.firstBlood /\ m.rewardMin = k.rewardMin /\ m.initial = k.initial
      /\ m.decay = k.decay /\ m.rewardFirstBlood = k.rewardFirstBlood
      /\ m.rewardDecrements = k.rewardDecrements
      /\ m \in LinkRow
  <2> HIDE DEF k, l
  <2> QED
    BY <1>3, WrittenRowType DEF LinkRow
<1> HIDE DEF m, row, k, l
<1>6. /\ link'[c] = m /\ rows'[c] = Append(rows[c], row)
      /\ \A d \in Challenges : d # c => link'[d] = link[d] /\ rows'[d] = rows[d]
  BY <1>1, <1>2, <1>4 DEF TypeOK
<1>7. \A p \in Requests : TxInv(p)'
  <2> TAKE p \in Requests
  <2>1. CASE p = q
    BY <1>1, <1>4, <2>1 DEF TxInv, Respond, TypeOK, InTransaction
  <2>2. CASE p # q
    <3>1. pc'[p] = pc[p] /\ ctx'[p] = ctx[p] /\ tx'[p] = tx[p]
      BY <1>1, <1>4, <2>2 DEF Respond, TypeOK
    <3>2. pc[p] \in InTransaction => ctx[p].chall \in Challenges /\ ctx[p].chall # c
      BY <1>2, <2>2 DEF SInv, IInv, LockInv, RequestInv
    <3> QED
      BY SMTT(30), <1>6, <3>1, <3>2 DEF SInv, TxInv, ScoredCopy
  <2> QED
    BY <2>1, <2>2
<1>8. \A d \in Challenges : BoardInv(d)'
  <2> TAKE d \in Challenges
  <2>1. CASE d = c
    <3>1. DistinctTeams(rows'[c])
      BY <1>1, <1>2, <1>3, <1>6, AppendSolve DEF BoardInv, row
    <3>2. c \in Linked'
      BY <1>2, <1>5, <1>6, ScoreboardAssumption DEF Linked
    <3>3. ASSUME c \notin touched PROVE RowAgrees(m, Append(rows[c], row))
      <4>1. RowAgrees(k, rows[c])
        BY <1>1, <1>2, <3>3 DEF BoardInv, Untouched, Linked, k
      <4>2. /\ Len(Append(rows[c], row)) = Len(rows[c]) + 1
            /\ Append(rows[c], row) # <<>> /\ Len(rows[c]) \in Nat
            /\ Append(rows[c], row)[1].team = IF rows[c] = <<>> THEN t ELSE rows[c][1].team
        BY <1>3, AppendSolve, LenProperties DEF row
      <4>3. m.attempts = Len(rows[c]) + 1 /\ m.solves = Len(rows[c]) + 1
        BY <1>2, <1>5, <4>1 DEF ScoredCopy, RowAgrees, k, l
      <4>6. rows[c] # <<>> => rows[c][1].team # NoTeam
        <5>1. rows[c] # <<>> => 1 \in 1 .. Len(rows[c])
          BY <1>3, EmptySeq
        <5>2. rows[c] # <<>> => rows[c][1] \in SolveRow
          BY <1>3, <5>1, ElementOfSeq
        <5> QED
          BY <5>2, ScoreboardAssumption DEF SolveRow
      <4>4. m.firstBlood = IF rows[c] = <<>> THEN t ELSE rows[c][1].team
        <5>1. m.firstBlood = FirstBloodAfter(k, t)
          BY <1>2, <1>5 DEF ScoredCopy, k, l
        <5> QED
          BY <4>1, <4>6, <5>1 DEF FirstBloodAfter, RowAgrees
      <4>5. \/ m.rewardMin =< m.reward /\ m.reward =< m.initial
            \/ m.initial =< m.reward /\ m.reward =< m.rewardMin
        <5>1. m.reward \in CalculateNewReward(k)
          BY <1>2, <1>5 DEF ScoredCopy, k, l
        <5>2. /\ k.reward \in Int /\ k.rewardMin \in Int /\ k.initial \in Int
              /\ k.decay \in Nat /\ k.solves \in Nat
          BY <1>3 DEF LinkRow
        <5>3. CASE k.rewardDecrements
          <6>1. m.reward \in DecayedReward(k.reward, k.rewardMin, k.decay, k.solves)
            BY <5>1, <5>3 DEF CalculateNewReward
          <6>2. /\ m.reward \in Int
                /\ k.rewardMin =< k.reward => k.rewardMin =< m.reward /\ m.reward =< k.reward
                /\ k.reward =< k.rewardMin => k.reward =< m.reward /\ m.reward =< k.rewardMin
            BY <5>2, <6>1, DecayTowardsMinimum
          <6> QED
            BY <1>5, <4>1, <5>2, <6>2 DEF RowAgrees
        <5>4. CASE ~ k.rewardDecrements
          BY <1>5, <4>1, <5>1, <5>4 DEF CalculateNewReward, RowAgrees
        <5> QED
          BY <5>3, <5>4
      <4>7. ChainOf(m, Append(rows[c], row))
        <5>1. row.score = PointsToAward(k) /\ m.reward \in CalculateNewReward(k)
          BY <1>2, <1>5 DEF ScoredCopy, k, l, row
        <5>2. k.firstBlood = NoTeam <=> rows[c] = <<>>
          BY <4>1, <4>6 DEF RowAgrees
        <5> QED
          BY <1>3, <1>5, <4>1, <5>1, <5>2, ChainGrows DEF RowAgrees
      <4> QED
        BY <4>2, <4>3, <4>4, <4>5, <4>7 DEF RowAgrees
    <3> QED
      BY <1>4, <1>6, <2>1, <3>1, <3>2, <3>3 DEF BoardInv, Untouched
  <2>2. CASE d # c
    <3>1. BoardInv(d) /\ link'[d] = link[d] /\ rows'[d] = rows[d] /\ touched' = touched
      BY <1>4, <1>6, <2>2 DEF SInv
    <3> QED
      BY <3>1 DEF BoardInv, Untouched, Linked
  <2> QED
    BY <2>1, <2>2
<1> QED
  BY <1>7, <1>8 DEF SInv

(* Organizers: a link in use is locked, a link made anew has no solves.    *)
LEMMA OrganizeSInv ==
  ASSUME SInv, IInv', NEW c \in Challenges,
         \/ \E cfg \in Configs : UpdateChallenge(c, cfg) \/ \E k \in Presets : LinkChallenge(c, cfg, k)
         \/ UnlinkChallenge(c)
  PROVE  SInv'
<1>1. /\ \A d \in Challenges : d # c => link'[d] = link[d]
      /\ touched \subseteq touched' /\ touched' \subseteq touched \cup {c}
      /\ UNCHANGED <<rows, linkLock, pc, ctx, tx>>
  BY DEF LinkChallenge, UpdateChallenge, UnlinkChallenge, SInv, IInv, TypeOK, lockVars, reqVars
<1>2. \A p \in Requests : TxInv(p)'
  <2> TAKE p \in Requests
  <2>1. SUFFICES ASSUME pc[p] \in InTransaction PROVE TxInv(p)'
    BY <1>1 DEF TxInv
  <2>2. RequestInv(p) /\ TxInv(p)
    BY DEF SInv, IInv, LockInv
  <2>3. ctx[p].chall # c
    <3>1. linkLock[ctx[p].chall] = p /\ link[ctx[p].chall] # NoLink
      BY <2>1, <2>2 DEF RequestInv
    <3>2. linkLock[c] = Free \/ link[c] = NoLink
      BY DEF LinkChallenge, UpdateChallenge, UnlinkChallenge, LinkFree, Linked
    <3> QED
      BY <3>1, <3>2, ScoringAssumption
  <2>4. ctx[p].chall \in Challenges
    BY <2>1, <2>2 DEF RequestInv
  <2>5. link'[ctx[p].chall] = link[ctx[p].chall]
    BY <1>1, <2>3, <2>4
  <2> QED
    BY <1>1, <2>2, <2>5 DEF TxInv, ScoredCopy
<1>3. \A d \in Challenges : BoardInv(d)'
  <2> TAKE d \in Challenges
  <2>1. CASE d # c
    BY <1>1, <2>1 DEF SInv, BoardInv, Untouched, Linked
  <2>2. CASE d = c
    <3>0. BoardInv(c) /\ TypeOK /\ rows' = rows
      BY <1>1 DEF SInv, IInv
    <3>1. ASSUME NEW cfg \in Configs, LinkChallenge(c, cfg, NoCounters) PROVE BoardInv(c)'
      <4> DEFINE l == NewLink(WithColumnDefaults(cfg), NoCounters)
      <4>1. link'[c] = l /\ touched' = touched /\ c \notin Linked
        BY <3>0, <3>1 DEF LinkChallenge, TypeOK
      <4>2. l \in LinkRow
        <5>1. NoCounters \in Counters
          BY DEF NoCounters, Counters
        <5> QED
          BY <5>1, NewLinkType
      <4>3. /\ l.solves = 0 /\ l.attempts = 0 /\ l.firstBlood = NoTeam
            /\ l.reward = l.initial /\ l.rewardDecrements
        BY DEF NewLink, WithColumnDefaults, NoCounters
      <4>4. l.reward \in Int /\ l.rewardMin \in Int
        BY <4>2 DEF LinkRow
      <4> HIDE DEF l
      <4>5. RowAgrees(l, <<>>)
        BY <4>3, <4>4 DEF RowAgrees, ChainOf, Before
      <4> QED
        BY <3>0, <4>1, <4>5 DEF BoardInv, Untouched
    <3>2. ASSUME c \in touched' PROVE BoardInv(c)'
      BY <3>0, <3>2 DEF BoardInv, Untouched
    <3> QED
      BY <2>2, <3>1, <3>2 DEF LinkChallenge, UpdateChallenge, UnlinkChallenge
  <2> QED
    BY <2>1, <2>2
<1> QED
  BY <1>2, <1>3 DEF SInv

LEMMA StepSInv == SInv /\ [Next]_vars => SInv'
<1> SUFFICES ASSUME SInv, [Next]_vars PROVE SInv'
  OBVIOUS
<1>0. IInv'
  BY StepIInv DEF SInv
<1>1. ASSUME NEW q \in Requests, NEW t \in Teams, PlayerAuth(q, t) \/ ChargeSolver(q, t)
      PROVE  SInv'
  BY <1>0, <1>1, QuietSteps
<1>2. ASSUME NEW q \in Requests,
             \/ RefuseCall(q) \/ JoinCheck(q) \/ LeaveEvent(q) \/ JoinInsert(q)
             \/ TouchParticipation(q) \/ RejectFlag(q)
      PROVE  SInv'
  <2>1. pc[q] # "idle"
    BY <1>2 DEF RefuseCall, JoinCheck, LeaveEvent, JoinInsert, TouchParticipation, RejectFlag
  <2>2. ctx[q].team \in Teams
    BY <2>1 DEF SInv, IInv, LockInv, RequestInv
  <2> QED
    BY <1>0, <1>2, <2>2, QuietSteps DEF RefuseCall, RejectFlag
<1>3. ASSUME NEW q \in Requests, DeadlockAbort(q) PROVE SInv'
  BY <1>0, <1>3, QuietStep DEF DeadlockAbort, Rollback, Respond, SInv, IInv, TypeOK, InTransaction, boardVars
<1>4. ASSUME NEW q \in Requests, NEW c \in Challenges, NEW f \in BOOLEAN,
             EnsureEventAccess(q, c, f)
      PROVE  SInv'
  BY <1>0, <1>4, AccessSInv
<1>5. ASSUME NEW q \in Requests, LockLink(q) \/ ScoreSolve(q) \/ RecordSolve(q)
      PROVE  SInv'
  BY <1>0, <1>5, LockLinkSInv, ScoreSInv, RecordSInv
<1>6. CASE Organize
  <2>1. CASE StartEvent \/ StopEvent \/ SyncCtfStatus
    BY <1>0, <2>1, QuietStep DEF StartEvent, StopEvent, SyncCtfStatus, boardVars, reqVars
  <2>2. ASSUME NEW c \in Challenges, NEW cfg \in Configs,
               UpdateChallenge(c, cfg) \/ \E k \in Presets : LinkChallenge(c, cfg, k)
        PROVE  SInv'
    BY <1>0, <2>2, OrganizeSInv
  <2>3. ASSUME NEW c \in Challenges, UnlinkChallenge(c) PROVE SInv'
    BY <1>0, <2>3, OrganizeSInv
  <2> QED
    BY <1>6, <2>1, <2>2, <2>3 DEF Organize
<1>7. CASE Restart
  BY <1>0, <1>7, QuietStep DEF Restart, InTransaction, boardVars
<1>8. CASE UNCHANGED vars
  BY <1>0, <1>8, QuietStep DEF vars, boardVars, reqVars
<1> QED
  BY <1>1, <1>2, <1>3, <1>4, <1>5, <1>6, <1>7, <1>8 DEF Next, Handle

LEMMA AlwaysSInv == Spec => []SInv
BY InitSInv, StepSInv, PTL DEF Spec
-----------------------------------------------------------------------------
(***************************************************************************)
(* However submissions for a challenge interleave with each other, with    *)
(* joins, leaves, edits and crashes, a team has at most one solve row for  *)
(* it: the unique constraint never has to stop one.                        *)
(***************************************************************************)
THEOREM SolvesAreUnique == Spec => []NoDoubleSolve
<1>1. SInv => NoDoubleSolve
  BY DEF SInv, BoardInv, DistinctTeams, NoDoubleSolve
<1> QED
  BY <1>1, AlwaysSInv, PTL

(***************************************************************************)
(* The copy of the link a submission computes with is the committed row    *)
(* until it writes it back.                                                *)
(***************************************************************************)
THEOREM CopiesAreCurrent == Spec => []CopyIsCurrent
<1>1. SInv => CopyIsCurrent
  BY DEF SInv, TxInv, InTransaction, CopyIsCurrent
<1> QED
  BY <1>1, AlwaysSInv, PTL

(***************************************************************************)
(* As long as no organizer changed a link, the counters it keeps are those *)
(* of its rows in solves.                                                  *)
(***************************************************************************)
THEOREM CountersAreSolves == Spec => []CountersAgree
<1>1. SInv => CountersAgree
  BY DEF SInv, BoardInv, RowAgrees, Untouched, Linked, CountersAgree
<1> QED
  BY <1>1, AlwaysSInv, PTL

(***************************************************************************)
(* First blood, which a submission decides from the copy of the link it    *)
(* locked, is the team of the oldest row in solves: of two submissions at  *)
(* once only the first to commit gets it.                                  *)
(***************************************************************************)
THEOREM FirstBloodIsOldest == Spec => []FirstBloodIsFirstSolve
<1>1. SInv => FirstBloodIsFirstSolve
  BY DEF SInv, BoardInv, RowAgrees, Untouched, Linked, FirstBloodIsFirstSolve
<1> QED
  BY <1>1, AlwaysSInv, PTL

(***************************************************************************)
(* The reward of a challenge decays from the one it was linked with to its *)
(* minimum and stays between them, whichever of the two is the greater.    *)
(***************************************************************************)
THEOREM RewardStaysWithinBounds == Spec => []RewardWithinBounds
<1>1. SInv => RewardWithinBounds
  BY DEF SInv, BoardInv, RowAgrees, Untouched, Linked, RewardWithinBounds
<1> QED
  BY <1>1, AlwaysSInv, PTL

(***************************************************************************)
(* The i-th solver of a challenge was paid the reward the i - 1 solves     *)
(* before it left, by the decay rule, and the bonus only if i is 1: two    *)
(* submissions never earn from the same reward, however they interleave.   *)
(***************************************************************************)
THEOREM RewardsFollowTheRule == Spec => []RewardChain
<1>1. SInv => RewardChain
  <2> SUFFICES ASSUME SInv, NEW c \in Untouched
               PROVE  /\ RewardBefore(c, 1) = link[c].initial
                      /\ \A i \in DOMAIN rows[c] :
                           RewardBefore(c, i + 1) \in
                             DecayedReward(RewardBefore(c, i), link[c].rewardMin,
                                           link[c].decay, i - 1)
    BY DEF RewardChain
  <2>1. \A i : RewardBefore(c, i) = Before(link[c], rows[c], i)
    BY DEF RewardBefore, Before
  <2>2. ChainOf(link[c], rows[c])
    BY DEF SInv, BoardInv, RowAgrees, Untouched, Linked
  <2> QED
    BY <2>1, <2>2 DEF ChainOf
<1> QED
  BY <1>1, AlwaysSInv, PTL
=============================================================================
