-------------------------- MODULE EventLifecycleProofs --------------------------
(***************************************************************************)
(* The safety of an event's life for any number of cron jobs, requests and *)
(* users: the row a tick has matched stays as it was until the tick ends.  *)
(***************************************************************************)
EXTENDS EventProperties, FiniteSetTheorems, TLAPS

(* A tick has matched nothing before its UPDATEs, and its clock is past.   *)
TicksInOrder ==
  \A c \in Crons :
    /\ pc[c] \in {"idle", "starting", "ending"} => ~ tick[c].open
    /\ pc[c] # "closed" => ~ tick[c].close /\ tick[c].created = {}
    /\ tick[c].now <= clock

(* The ticks that have created a notification they have not published.     *)
Creators(k) == {c \in Crons : k \in tick[c].created}

CreatedAreUnpublished == \A k \in Kinds : Cardinality(Creators(k)) <= unpublished[k]

(* Every move of a cron job is paid for by a publication or an activation. *)
MovesAreBacked ==
  /\ moves.opened + (IF status = "published" THEN 1 ELSE 0) <= moves.published
  /\ moves.closed + (IF status = "active" THEN 1 ELSE 0) <= moves.opened + moves.started

LInv == TypeOK /\ MatchedRowIsLocked /\ TicksInOrder
EInv == LInv /\ CreatedAreUnpublished /\ MovesAreBacked

LEMMA NoTickIsTick == NoTick \in Tick
BY LifecycleAssumption DEF NoTick, Tick

LEMMA InitEstablishes == Init => EInv
<1> SUFFICES ASSUME Init PROVE EInv
  OBVIOUS
<1> USE LifecycleAssumption
<1>1. TypeOK
  <2>1. NoTick \in Tick /\ NoReq \in [pc : ReqPC, seen : Statuses \cup {"absent"}]
    BY NoTickIsTick DEF NoReq, ReqPC
  <2>2. 0 \in 0..(MaxTime + 1)
    OBVIOUS
  <2>3. inbox \in [Crons -> [Users -> [Kinds -> Nat]]] /\ unpublished \in [Kinds -> Nat]
    BY DEF Init
  <2>4. /\ moves \in [{"published", "started", "opened", "closed"} -> Nat]
        /\ {edits, failures} \subseteq Nat
    BY DEF Init
  <2>5. /\ pc \in [Crons -> CronPC] /\ tick \in [Crons -> Tick]
        /\ req \in [Organizers -> [pc : ReqPC, seen : Statuses \cup {"absent"}]]
    BY <2>1 DEF Init, CronPC
  <2> QED
    BY <2>2, <2>3, <2>4, <2>5 DEF Init, TypeOK, Statuses
<1>2. MatchedRowIsLocked
  BY DEF Init, MatchedRowIsLocked, TickHoldsRow, NoTick, MayOpen, MayClose
<1>3. TicksInOrder
  BY DEF Init, TicksInOrder, NoTick
<1>4. CreatedAreUnpublished
  <2>1. \A k \in Kinds : Creators(k) = {}
    BY DEF Init, Creators, NoTick
  <2>2. \A k \in Kinds : Cardinality(Creators(k)) = 0 /\ unpublished[k] = 0
    BY <2>1, FS_EmptySet DEF Init
  <2> QED
    BY <2>2 DEF CreatedAreUnpublished
<1>5. MovesAreBacked
  BY DEF Init, MovesAreBacked
<1> QED
  BY <1>1, <1>2, <1>3, <1>4, <1>5 DEF EInv, LInv

(* A tick of a cron job keeps the types. *)
LEMMA TickKeepsTypes ==
  ASSUME TypeOK, CreatedAreUnpublished, NEW c \in Crons, SyncCtfStatus(c) \/ FailTick(c)
  PROVE  TypeOK'
<1> USE LifecycleAssumption DEF TypeOK
<1>0. /\ tick[c] \in Tick /\ "start" \in Kinds /\ "end" \in Kinds
      /\ tick \in [Crons -> Tick]
  BY DEF Kinds
<1>1. CASE SelectStarting(c)
  <2>1. (tick[c].now)' = clock /\ tick' \in [Crons -> Tick]
    BY <1>0, <1>1 DEF SelectStarting, Tick
  <2> QED
    BY <1>1, <2>1 DEF SelectStarting, eventVars, ownVars, userVars, noteVars, countVars, CronPC
<1>2. CASE SelectEnding(c)
  <2>1. tick' \in [Crons -> Tick]
    BY <1>0, <1>2 DEF SelectEnding, Tick
  <2> QED
    BY <1>2, <2>1 DEF SelectEnding, eventVars, ownVars, userVars, noteVars, countVars, CronPC
<1>3. CASE UpdateActive(c)
  <2>1. tick' \in [Crons -> Tick]
    BY <1>0, <1>3 DEF UpdateActive, MayOpen, Tick
  <2> QED
    BY <1>3, <2>1 DEF UpdateActive, eventVars, ownVars, userVars, noteVars, countVars, CronPC
<1>4. CASE UpdateEnded(c)
  <2>1. tick' \in [Crons -> Tick]
    BY <1>0, <1>4 DEF UpdateEnded, MayClose, Tick
  <2> QED
    BY <1>4, <2>1 DEF UpdateEnded, eventVars, ownVars, userVars, noteVars, countVars, CronPC
<1>5. ASSUME NEW k \in Kinds, CreateNotification(c, k) PROVE TypeOK'
  <2>1. tick' \in [Crons -> Tick]
    BY <1>0, <1>5 DEF CreateNotification, Tick
  <2> QED
    BY <1>5, <2>1 DEF CreateNotification, eventVars, ownVars, userVars, cronVars, countVars
<1>6. ASSUME EndTick(c)
      PROVE  /\ pc' \in [Crons -> CronPC] /\ tick' \in [Crons -> Tick]
             /\ lock' \in Crons \cup {NoCron}
  BY <1>6, NoTickIsTick DEF EndTick, CronPC
<1>7. CASE CommitTick(c)
  <2>1. status' \in Statuses \cup {"absent", "deleted"}
    BY <1>7 DEF CommitTick, StatusAfter, Statuses
  <2>2. inbox' \in [Crons -> [Users -> [Kinds -> Nat]]]
    <3>1. /\ inbox' = [inbox EXCEPT ![c] = [u \in Users |-> [k \in Kinds |->
                         inbox[c][u][k] + IF u \in tick[c].to[k] THEN 1 ELSE 0]]]
          /\ inbox \in [Crons -> [Users -> [Kinds -> Nat]]]
      BY <1>7 DEF CommitTick
    <3>2. ASSUME NEW u \in Users, NEW k \in Kinds
          PROVE  inbox[c][u][k] + (IF u \in tick[c].to[k] THEN 1 ELSE 0) \in Nat
      BY <3>1
    <3> QED
      BY <3>1, <3>2
  <2>3. unpublished' \in [Kinds -> Nat]
    <3>1. ASSUME NEW k \in Kinds, k \in tick[c].created PROVE unpublished[k] >= 1
      <4>1. IsFiniteSet(Creators(k)) /\ c \in Creators(k)
        BY <3>1, FS_Subset DEF Creators
      <4>2. Cardinality(Creators(k)) # 0 /\ Cardinality(Creators(k)) \in Nat
        BY <4>1, FS_EmptySet, FS_CardinalityType
      <4> QED
        BY <4>2 DEF CreatedAreUnpublished
    <3> QED
      BY <3>1, <1>7 DEF CommitTick
  <2>4. moves' \in [{"published", "started", "opened", "closed"} -> Nat]
    <3>1. PICK a \in {0, 1}, b \in {0, 1} :
            moves' = [moves EXCEPT !.opened = @ + a, !.closed = @ + b]
      BY <1>7 DEF CommitTick
    <3>2. /\ moves \in [{"published", "started", "opened", "closed"} -> Nat]
          /\ moves.opened + a \in Nat /\ moves.closed + b \in Nat
      OBVIOUS
    <3> HIDE DEF TypeOK
    <3> QED
      BY <3>1, <3>2
  <2> QED
    BY <1>6, <1>7, <2>1, <2>2, <2>3, <2>4 DEF CommitTick, ownVars, userVars, countVars
<1>8. CASE FailTick(c)
  BY <1>6, <1>8 DEF FailTick, eventVars, ownVars, userVars, noteVars
<1> QED
  BY <1>1, <1>2, <1>3, <1>4, <1>5, <1>7, <1>8 DEF SyncCtfStatus

(* The steps of organizers, users, the clock and a crash. *)
Others ==
  \/ \E isOpen \in BOOLEAN, start, end \in Times : CreateEvent(isOpen, start, end)
  \/ \E o \in Organizers : Organize(o)
  \/ \E u \in Users : ChangeParticipants(u) \/ DeleteUser(u)
  \/ Crash
  \/ Pass

MoveTypes == [{"published", "started", "opened", "closed"} -> Nat]
ReqTypes  == [Organizers -> [pc : ReqPC, seen : Statuses \cup {"absent"}]]

LEMMA MovesKeepTypes ==
  ASSUME moves \in MoveTypes, NEW a \in {0, 1}, NEW b \in {0, 1}
  PROVE  /\ [moves EXCEPT !.published = @ + a] \in MoveTypes
         /\ [moves EXCEPT !.published = @ + a, !.started = @ + b] \in MoveTypes
         /\ [moves EXCEPT !.started = @ + 1] \in MoveTypes
<1>1. /\ moves.published + a \in Nat /\ moves.started + b \in Nat
      /\ moves.started + 1 \in Nat
  BY DEF MoveTypes
<1> QED
  BY <1>1 DEF MoveTypes

LEMMA RequestKeepsTypes ==
  ASSUME TypeOK, NEW o \in Organizers, Organize(o)
  PROVE  TypeOK'
<1> USE LifecycleAssumption DEF TypeOK
<1>0. req \in ReqTypes /\ moves \in MoveTypes /\ clock \in 0..(MaxTime + 1)
  BY DEF ReqTypes, MoveTypes
<1>n. /\ [req EXCEPT ![o] = NoReq] \in ReqTypes
      /\ \A p \in ReqPC : [req EXCEPT ![o].pc = p] \in ReqTypes
  BY <1>0 DEF ReqTypes, NoReq, ReqPC
<1>a. ASSUME Answer(o) PROVE req' \in ReqTypes /\ edits' \in Nat
  BY <1>a, <1>n DEF Answer
<1>1. CASE EnsureEventOwnership(o)
  <2>1. req' \in ReqTypes
    BY <1>0, <1>1 DEF EnsureEventOwnership, Exists, ReqTypes, ReqPC
  <2> QED
    BY <1>1, <2>1 DEF EnsureEventOwnership, ReqTypes, eventVars, ownVars, userVars, noteVars, cronVars, countVars
<1>2. CASE RefuseRequest(o)
  BY <1>2, <1>n DEF RefuseRequest, ReqTypes, eventVars, ownVars, userVars, noteVars, cronVars, countVars
<1>3. CASE StartEvent(o)
  <2>1. moves' \in MoveTypes /\ rooms' \in Nat
    BY <1>0, <1>3, MovesKeepTypes DEF StartEvent
  <2> QED
    BY <1>a, <1>3, <2>1 DEF StartEvent, ReqTypes, MoveTypes, Statuses, userVars, noteVars, cronVars
<1>4. CASE StopEvent(o)
  BY <1>a, <1>4 DEF StopEvent, ReqTypes, Statuses, ownVars, userVars, noteVars, cronVars
<1>5. ASSUME NEW s \in Statuses, NEW start \in Times, NEW end \in Times,
             UpdateEvent(o, s, start, end)
      PROVE  TypeOK'
  <2>1. PICK a \in {0, 1}, b \in {0, 1} :
          moves' = [moves EXCEPT !.published = @ + a, !.started = @ + b]
    BY <1>5 DEF UpdateEvent
  <2>2. moves' \in MoveTypes
    BY <1>0, <2>1, MovesKeepTypes
  <2> QED
    BY <1>a, <1>5, <2>2 DEF UpdateEvent, ReqTypes, MoveTypes, Times, ownVars, userVars, noteVars, cronVars
<1>6. CASE DeleteParticipations(o)
  <2>1. req' \in ReqTypes
    BY <1>6, <1>n DEF DeleteParticipations, ReqPC
  <2> QED
    BY <1>6, <2>1 DEF DeleteParticipations, ReqTypes, eventVars, ownVars, noteVars, cronVars, countVars
<1>7. CASE DeleteOrganizers(o)
  <2>1. req' \in ReqTypes
    BY <1>7, <1>n DEF DeleteOrganizers, ReqPC
  <2> QED
    BY <1>7, <2>1 DEF DeleteOrganizers, ReqTypes, eventVars, userVars, noteVars, cronVars, countVars
<1>8. CASE DeleteChatRooms(o)
  <2>1. req' \in ReqTypes
    BY <1>8, <1>n DEF DeleteChatRooms, ReqPC
  <2> QED
    BY <1>8, <2>1 DEF DeleteChatRooms, ReqTypes, eventVars, userVars, noteVars, cronVars, countVars
<1>9. CASE DeleteCtf(o)
  BY <1>9, <1>n DEF DeleteCtf, ReqTypes, noteVars, cronVars, countVars
<1> QED
  BY <1>1, <1>2, <1>3, <1>4, <1>5, <1>6, <1>7, <1>8, <1>9 DEF Organize

LEMMA OthersKeepTypes ==
  ASSUME TypeOK, Others
  PROVE  TypeOK'
<1> USE LifecycleAssumption DEF TypeOK
<1>1. ASSUME NEW isOpen \in BOOLEAN, NEW start \in Times, NEW end \in Times,
             CreateEvent(isOpen, start, end)
      PROVE  TypeOK'
  <2>1. PICK a \in {0, 1} : moves' = [moves EXCEPT !.published = @ + a]
    BY <1>1 DEF CreateEvent
  <2>2. moves' \in MoveTypes
    BY <2>1, MovesKeepTypes DEF MoveTypes
  <2> QED
    BY <1>1, <2>2 DEF CreateEvent, MoveTypes, Times, Statuses, userVars, noteVars, cronVars, countVars
<1>2. CASE \E o \in Organizers : Organize(o)
  BY <1>2, RequestKeepsTypes
<1>3. ASSUME NEW u \in Users, ChangeParticipants(u) PROVE TypeOK'
  BY <1>3 DEF ChangeParticipants, eventVars, ownVars, noteVars, cronVars, countVars
<1>4. ASSUME NEW u \in Users, DeleteUser(u) PROVE TypeOK'
  <2>1. inbox' \in [Crons -> [Users -> [Kinds -> Nat]]]
    BY <1>4 DEF DeleteUser
  <2> QED
    BY <1>4, <2>1 DEF DeleteUser, eventVars, ownVars, cronVars, countVars
<1>5. CASE Crash
  <2>1. /\ pc' \in [Crons -> CronPC] /\ tick' \in [Crons -> Tick]
        /\ req' \in ReqTypes
    BY <1>5, NoTickIsTick DEF Crash, CronPC, ReqTypes, NoReq, ReqPC
  <2> QED
    BY <1>5, <2>1 DEF Crash, ReqTypes, eventVars, ownVars, userVars, noteVars
<1>6. CASE Pass
  BY <1>6 DEF Pass, eventVars, ownVars, userVars, noteVars, cronVars, countVars
<1> QED
  BY <1>1, <1>2, <1>3, <1>4, <1>5, <1>6 DEF Others
-----------------------------------------------------------------------------
(* A tick of a cron job keeps the lock discipline: the row it matches is   *)
(* free or already its own, and the other ticks have matched nothing.      *)
LEMMA TickKeepsLocks ==
  ASSUME LInv, NEW c \in Crons, SyncCtfStatus(c) \/ FailTick(c)
  PROVE  MatchedRowIsLocked' /\ TicksInOrder'
<1> USE LifecycleAssumption
<1>0. /\ tick \in [Crons -> Tick] /\ pc \in [Crons -> CronPC]
      /\ MatchedRowIsLocked /\ TicksInOrder
      /\ clock \in Int /\ startTime \in Int /\ endTime \in Int
      /\ lock \in Crons \cup {NoCron}
  BY DEF LInv, TypeOK
<1>1. CASE SelectStarting(c)
  <2>1. \A d \in Crons : tick'[d].open = tick[d].open /\ tick'[d].close = tick[d].close
                         /\ tick'[d].created = tick[d].created
                         /\ tick'[d].now = IF d = c THEN clock ELSE tick[d].now
    BY <1>0, <1>1 DEF SelectStarting, Tick
  <2>2. pc[c] = "idle" /\ pc' = [pc EXCEPT ![c] = "starting"]
        /\ UNCHANGED <<lock, status, startTime, endTime, clock>>
    BY <1>1 DEF SelectStarting, eventVars
  <2>3. ~ tick[c].open /\ ~ tick[c].close
    BY <1>0, <2>2 DEF TicksInOrder
  <2>4. MatchedRowIsLocked'
    BY <1>0, <2>1, <2>2, <2>3 DEF MatchedRowIsLocked, TickHoldsRow, MayOpen, MayClose
  <2> QED
    BY <1>0, <2>1, <2>2, <2>3, <2>4 DEF TicksInOrder, CronPC
<1>2. CASE SelectEnding(c)
  <2>1. \A d \in Crons : tick'[d].open = tick[d].open /\ tick'[d].close = tick[d].close
                         /\ tick'[d].created = tick[d].created
                         /\ tick'[d].now = tick[d].now
    BY <1>0, <1>2 DEF SelectEnding, Tick
  <2>2. pc[c] = "starting" /\ pc' = [pc EXCEPT ![c] = "ending"]
        /\ UNCHANGED <<lock, status, startTime, endTime, clock>>
    BY <1>2 DEF SelectEnding, eventVars
  <2>4. MatchedRowIsLocked'
    BY <1>0, <2>1, <2>2 DEF MatchedRowIsLocked, TickHoldsRow, MayOpen, MayClose
  <2> QED
    BY <1>0, <2>1, <2>2, <2>4 DEF TicksInOrder, CronPC
<1>3. CASE UpdateActive(c)
  <2> DEFINE match == MayOpen(tick[c].now)
  <2>1. \A d \in Crons : tick'[d].open = (IF d = c THEN match ELSE tick[d].open)
                         /\ tick'[d].close = tick[d].close
                         /\ tick'[d].created = tick[d].created
                         /\ tick'[d].now = tick[d].now
    BY <1>0, <1>3 DEF UpdateActive, Tick
  <2>2. /\ pc[c] = "ending" /\ pc' = [pc EXCEPT ![c] = "opened"]
        /\ match => lock \in {NoCron, c}
        /\ lock' = IF match THEN c ELSE lock
        /\ UNCHANGED <<status, startTime, endTime, clock>>
    BY <1>3 DEF UpdateActive, RowFree, eventVars
  <2>3. ~ tick[c].open /\ ~ tick[c].close
    BY <1>0, <2>2 DEF TicksInOrder
  <2>4. MatchedRowIsLocked'
    <3>1. \A d \in Crons : /\ MayOpen(tick[d].now)' <=> MayOpen(tick[d].now)
                           /\ MayClose(tick[d].now)' <=> MayClose(tick[d].now)
                           /\ (endTime < tick[d].now)' <=> endTime < tick[d].now
      BY <2>1, <2>2 DEF MayOpen, MayClose
    <3>2. match <=> MayOpen(tick[c].now)
      OBVIOUS
    <3> HIDE DEF match
    <3>4. ASSUME NEW d \in Crons
          PROVE  TickHoldsRow(d)'
      <4>0. TickHoldsRow(d)
        BY <1>0 DEF MatchedRowIsLocked
      <4>1. CASE d = c
        <5>1. tick'[d].open = match /\ tick'[d].close = tick[d].close
          BY <2>1, <4>1
        <5>2. match \in BOOLEAN
          BY <3>2 DEF MayOpen, MayClose
        <5>3. lock' = d <=> match \/ lock = d
          BY <2>2, <4>1, <5>2
        <5> QED
          BY <2>3, <3>1, <3>2, <4>0, <4>1, <5>1, <5>2, <5>3 DEF TickHoldsRow
      <4>2. CASE d # c
        <5>1. tick'[d].open = tick[d].open /\ tick'[d].close = tick[d].close
          BY <2>1, <4>2
        <5>2. lock' = d <=> lock = d
          BY <2>2, <4>2
        <5> QED
          BY <3>1, <4>0, <5>1, <5>2 DEF TickHoldsRow
      <4> QED
        BY <4>1, <4>2
    <3> QED
      BY <3>4 DEF MatchedRowIsLocked
  <2> QED
    BY <1>0, <2>1, <2>2, <2>3, <2>4 DEF TicksInOrder, CronPC
<1>4. CASE UpdateEnded(c)
  <2> DEFINE match == MayClose(tick[c].now) \/ (tick[c].open /\ endTime < tick[c].now)
  <2>1. \A d \in Crons : tick'[d].close = (IF d = c THEN match ELSE tick[d].close)
                         /\ tick'[d].open = tick[d].open
                         /\ tick'[d].created = tick[d].created
                         /\ tick'[d].now = tick[d].now
    BY <1>0, <1>4 DEF UpdateEnded, Tick
  <2>2. /\ pc[c] = "opened" /\ pc' = [pc EXCEPT ![c] = "closed"]
        /\ match => lock \in {NoCron, c}
        /\ lock' = IF match THEN c ELSE lock
        /\ UNCHANGED <<status, startTime, endTime, clock>>
    BY <1>4 DEF UpdateEnded, RowFree, eventVars
  <2>3. ~ tick[c].close
    BY <1>0, <2>2 DEF TicksInOrder
  <2>4. MatchedRowIsLocked'
    <3>1. \A d \in Crons : /\ MayOpen(tick[d].now)' <=> MayOpen(tick[d].now)
                           /\ MayClose(tick[d].now)' <=> MayClose(tick[d].now)
                           /\ (endTime < tick[d].now)' <=> endTime < tick[d].now
      BY <2>1, <2>2 DEF MayOpen, MayClose
    <3>2. match <=> MayClose(tick[c].now) \/ (tick[c].open /\ endTime < tick[c].now)
      OBVIOUS
    <3> HIDE DEF match
    <3>4. ASSUME NEW d \in Crons
          PROVE  TickHoldsRow(d)'
      <4>0. TickHoldsRow(d)
        BY <1>0 DEF MatchedRowIsLocked
      <4>1. CASE d = c
        <5>1. tick'[d].close = match /\ tick'[d].open = tick[d].open
          BY <2>1, <4>1
        <5>2. match \in BOOLEAN
          BY <3>2 DEF MayOpen, MayClose
        <5>3. lock' = d <=> match \/ lock = d
          BY <2>2, <4>1, <5>2
        <5> QED
          BY <2>3, <3>1, <3>2, <4>0, <4>1, <5>1, <5>2, <5>3 DEF TickHoldsRow
      <4>2. CASE d # c
        <5>1. tick'[d].open = tick[d].open /\ tick'[d].close = tick[d].close
          BY <2>1, <4>2
        <5>2. lock' = d <=> lock = d
          BY <2>2, <4>2
        <5> QED
          BY <3>1, <4>0, <5>1, <5>2 DEF TickHoldsRow
      <4> QED
        BY <4>1, <4>2
    <3> QED
      BY <3>4 DEF MatchedRowIsLocked
  <2> QED
    BY <1>0, <2>1, <2>2, <2>3, <2>4 DEF TicksInOrder, CronPC
<1>5. ASSUME NEW k \in Kinds, CreateNotification(c, k)
      PROVE  MatchedRowIsLocked' /\ TicksInOrder'
  <2>1. \A d \in Crons : tick'[d].open = tick[d].open /\ tick'[d].close = tick[d].close
                         /\ tick'[d].now = tick[d].now
                         /\ (d # c => tick'[d] = tick[d])
    BY <1>0, <1>5 DEF CreateNotification, Tick
  <2>2. pc[c] = "closed"
        /\ UNCHANGED <<pc, lock, status, startTime, endTime, clock>>
    BY <1>5 DEF CreateNotification, eventVars
  <2>4. MatchedRowIsLocked'
    BY <1>0, <2>1, <2>2 DEF MatchedRowIsLocked, TickHoldsRow, MayOpen, MayClose
  <2> QED
    BY <1>0, <2>1, <2>2, <2>4 DEF TicksInOrder
<1>6. ASSUME EndTick(c), clock' = clock,
             \A d \in Crons \ {c} : tick[d].open \/ tick[d].close =>
                                      UNCHANGED <<status, startTime, endTime>>
      PROVE  MatchedRowIsLocked' /\ TicksInOrder'
  <2>1. \A d \in Crons : IF d = c THEN tick'[d] = NoTick ELSE tick'[d] = tick[d]
    BY <1>0, <1>6 DEF EndTick
  <2>2. /\ pc' = [pc EXCEPT ![c] = "idle"]
        /\ lock' = IF lock = c THEN NoCron ELSE lock
    BY <1>6 DEF EndTick
  <2>3. /\ ~ NoTick.open /\ ~ NoTick.close /\ NoTick.created = {} /\ NoTick.now = 0
    BY DEF NoTick
  <2>4. MatchedRowIsLocked'
    BY <1>0, <1>6, <2>1, <2>2, <2>3 DEF MatchedRowIsLocked, TickHoldsRow, MayOpen, MayClose
  <2>5. 0 <= clock
    BY DEF LInv, TypeOK
  <2> QED
    BY <1>0, <1>6, <2>1, <2>2, <2>3, <2>4, <2>5 DEF TicksInOrder, CronPC
<1>7. CASE CommitTick(c)
  <2>1. ASSUME NEW d \in Crons \ {c}, tick[d].open \/ tick[d].close
        PROVE  UNCHANGED <<status, startTime, endTime>>
    <3>1. lock = d /\ ~ tick[c].open /\ ~ tick[c].close
      BY <1>0, <2>1 DEF MatchedRowIsLocked, TickHoldsRow
    <3> QED
      BY <1>7, <3>1 DEF CommitTick, StatusAfter
  <2> QED
    BY <1>6, <1>7, <2>1 DEF CommitTick
<1>8. CASE FailTick(c)
  BY <1>6, <1>8 DEF FailTick, eventVars
<1> QED
  BY <1>1, <1>2, <1>3, <1>4, <1>5, <1>7, <1>8 DEF SyncCtfStatus

(* The others change the row only when no tick has matched it. *)
LEMMA OthersKeepLocks ==
  ASSUME LInv, Others
  PROVE  MatchedRowIsLocked' /\ TicksInOrder'
<1> USE LifecycleAssumption
<1>0. /\ MatchedRowIsLocked /\ TicksInOrder
      /\ clock \in 0..(MaxTime + 1) /\ \A c \in Crons : tick[c] \in Tick
  BY DEF LInv, TypeOK
<1>1. ASSUME UNCHANGED <<cronVars, clock>>,
             UNCHANGED eventVars \/ lock = NoCron \/ ~ Exists
      PROVE  MatchedRowIsLocked' /\ TicksInOrder'
  <2>1. TicksInOrder'
    BY <1>0, <1>1 DEF TicksInOrder, cronVars
  <2>2. CASE UNCHANGED eventVars
    BY <1>0, <1>1, <2>1, <2>2 DEF MatchedRowIsLocked, TickHoldsRow, MayOpen, MayClose, cronVars, eventVars
  <2>3. CASE lock = NoCron \/ ~ Exists
    <3>1. \A c \in Crons : ~ tick[c].open /\ ~ tick[c].close
      BY <1>0, <2>3 DEF MatchedRowIsLocked, TickHoldsRow, MayOpen, MayClose, Exists, Statuses
    <3> QED
      BY <1>0, <1>1, <2>1, <3>1 DEF MatchedRowIsLocked, TickHoldsRow, cronVars
  <2> QED
    BY <1>1, <2>2, <2>3
<1>2. ASSUME NEW isOpen \in BOOLEAN, NEW start \in Times, NEW end \in Times,
             CreateEvent(isOpen, start, end)
      PROVE  UNCHANGED <<cronVars, clock>> /\ ~ Exists
  BY <1>2 DEF CreateEvent, Exists, Statuses
<1>3. ASSUME NEW o \in Organizers, Organize(o)
      PROVE  UNCHANGED <<cronVars, clock>> /\ (UNCHANGED eventVars \/ lock = NoCron)
  BY <1>3 DEF Organize, EnsureEventOwnership, RefuseRequest, StartEvent, StopEvent, UpdateEvent,
       DeleteParticipations, DeleteOrganizers, DeleteChatRooms, DeleteCtf, RowFree
<1>4. ASSUME NEW u \in Users, ChangeParticipants(u) \/ DeleteUser(u)
      PROVE  UNCHANGED <<cronVars, clock, eventVars>>
  BY <1>4 DEF ChangeParticipants, DeleteUser
<1>5. CASE Crash
  <2>1. /\ \A c \in Crons : tick'[c] = NoTick /\ pc'[c] = "idle"
        /\ lock' = NoCron /\ clock' = clock
    BY <1>5 DEF Crash
  <2> QED
    BY <1>0, <2>1 DEF MatchedRowIsLocked, TickHoldsRow, TicksInOrder, NoTick
<1>6. CASE Pass
  <2>1. UNCHANGED <<cronVars, eventVars>> /\ clock' = clock + 1
    BY <1>6 DEF Pass
  <2>2. \A c \in Crons : tick[c].now \in Int
    BY <1>0 DEF Tick
  <2> QED
    BY <1>0, <2>1, <2>2 DEF MatchedRowIsLocked, TickHoldsRow, TicksInOrder, MayOpen, MayClose, cronVars, eventVars
<1> QED
  BY <1>1, <1>2, <1>3, <1>4, <1>5, <1>6 DEF Others
-----------------------------------------------------------------------------
(* An unpublished notification is left for every one a tick has yet to     *)
(* publish: CreateNotification adds one, CommitTick takes its own away.    *)
LEMMA CreatedStayUnpublished ==
  ASSUME LInv, CreatedAreUnpublished, [Next]_vars
  PROVE  CreatedAreUnpublished'
<1> USE LifecycleAssumption
<1>0. /\ tick \in [Crons -> Tick] /\ unpublished \in [Kinds -> Nat] /\ TicksInOrder
  BY DEF LInv, TypeOK
<1>1. \A k \in Kinds : IsFiniteSet(Creators(k)) /\ Cardinality(Creators(k)) \in Nat
  BY FS_Subset, FS_CardinalityType DEF Creators
<1>2. ASSUME NEW S, NEW k \in Kinds, S \subseteq Creators(k)
      PROVE  Cardinality(S) <= Cardinality(Creators(k)) /\ Cardinality(S) \in Nat
  BY <1>1, <1>2, FS_Subset, FS_CardinalityType
<1>3. ASSUME UNCHANGED unpublished,
             \A c \in Crons : tick'[c].created \subseteq tick[c].created
      PROVE  CreatedAreUnpublished'
  <2>1. \A k \in Kinds : Creators(k)' \subseteq Creators(k)
    BY <1>3 DEF Creators
  <2> QED
    BY <1>0, <1>1, <1>2, <1>3, <2>1 DEF CreatedAreUnpublished
<1>4. ASSUME NEW c \in Crons, EndTick(c)
      PROVE  \A d \in Crons : IF d = c THEN tick'[d].created = {}
                                      ELSE tick'[d].created = tick[d].created
  BY <1>0, <1>4 DEF EndTick, NoTick
<1>5. ASSUME NEW c \in Crons, SyncCtfStatus(c) \/ FailTick(c)
      PROVE  CreatedAreUnpublished'
  <2>1. CASE SelectStarting(c)
    <3>1. \A d \in Crons : tick'[d].created = tick[d].created
      BY <1>0, <2>1 DEF SelectStarting, Tick
    <3> QED
      BY <1>3, <2>1, <3>1 DEF SelectStarting, noteVars
  <2>2. CASE SelectEnding(c)
    <3>1. \A d \in Crons : tick'[d].created = tick[d].created
      BY <1>0, <2>2 DEF SelectEnding, Tick
    <3> QED
      BY <1>3, <2>2, <3>1 DEF SelectEnding, noteVars
  <2>3. CASE UpdateActive(c)
    <3>1. \A d \in Crons : tick'[d].created = tick[d].created
      BY <1>0, <2>3 DEF UpdateActive, Tick
    <3> QED
      BY <1>3, <2>3, <3>1 DEF UpdateActive, noteVars
  <2>4. CASE UpdateEnded(c)
    <3>1. \A d \in Crons : tick'[d].created = tick[d].created
      BY <1>0, <2>4 DEF UpdateEnded, Tick
    <3> QED
      BY <1>3, <2>4, <3>1 DEF UpdateEnded, noteVars
  <2>5. ASSUME NEW k \in Kinds, CreateNotification(c, k) PROVE CreatedAreUnpublished'
    <3>1. \A d \in Crons : tick'[d].created =
                            IF d = c THEN tick[d].created \cup {k} ELSE tick[d].created
      BY <1>0, <2>5 DEF CreateNotification, Tick
    <3>2. \A j \in Kinds : Creators(j)' = IF j = k THEN Creators(j) \cup {c} ELSE Creators(j)
      BY <3>1 DEF Creators
    <3>3. /\ Cardinality(Creators(k) \cup {c}) \in Nat
          /\ Cardinality(Creators(k) \cup {c}) <= Cardinality(Creators(k)) + 1
      <4>1. Cardinality(Creators(k) \cup {c}) =
              IF c \in Creators(k) THEN Cardinality(Creators(k)) ELSE Cardinality(Creators(k)) + 1
        BY <1>1, FS_AddElement
      <4> QED
        BY <1>1, <4>1
    <3>4. unpublished' = [unpublished EXCEPT ![k] = @ + 1]
      BY <2>5 DEF CreateNotification
    <3>5. ASSUME NEW j \in Kinds PROVE Cardinality(Creators(j)') <= unpublished'[j]
      <4>1. CASE j = k
        <5>1. Creators(j)' = Creators(k) \cup {c} /\ unpublished'[j] = unpublished[k] + 1
          BY <1>0, <3>2, <3>4, <4>1
        <5>2. Cardinality(Creators(k)) <= unpublished[k]
          BY DEF CreatedAreUnpublished
        <5> QED
          BY <1>0, <1>1, <3>3, <5>1, <5>2
      <4>2. CASE j # k
        BY <1>0, <3>2, <3>4, <4>2 DEF CreatedAreUnpublished
      <4> QED
        BY <4>1, <4>2
    <3> QED
      BY <3>5 DEF CreatedAreUnpublished
  <2>6. CASE CommitTick(c)
    <3>1. \A j \in Kinds : Creators(j)' = Creators(j) \ {c}
      BY <1>4, <2>6 DEF CommitTick, Creators
    <3>2. \A j \in Kinds : unpublished'[j] = unpublished[j] - IF c \in Creators(j) THEN 1 ELSE 0
      BY <1>0, <2>6 DEF CommitTick, Creators
    <3>3. ASSUME NEW j \in Kinds PROVE Cardinality(Creators(j)') <= unpublished'[j]
      <4>1. Cardinality(Creators(j)) <= unpublished[j]
        BY DEF CreatedAreUnpublished
      <4>2. CASE c \in Creators(j)
        <5>1. Cardinality(Creators(j) \ {c}) = Cardinality(Creators(j)) - 1
          BY <1>1, <4>2, FS_RemoveElement
        <5>2. Creators(j)' = Creators(j) \ {c} /\ unpublished'[j] = unpublished[j] - 1
          BY <3>1, <3>2, <4>2
        <5> QED
          BY <1>0, <1>1, <4>1, <5>1, <5>2
      <4>3. CASE c \notin Creators(j)
        <5>1. Creators(j) \ {c} = Creators(j)
          BY <4>3
        <5> QED
          BY <1>0, <1>1, <3>1, <3>2, <4>1, <4>3, <5>1
      <4> QED
        BY <4>2, <4>3
    <3> QED
      BY <3>3 DEF CreatedAreUnpublished
  <2>7. CASE FailTick(c)
    BY <1>3, <1>4, <2>7 DEF FailTick, noteVars
  <2> QED
    BY <1>5, <2>1, <2>2, <2>3, <2>4, <2>5, <2>6, <2>7 DEF SyncCtfStatus
<1>6. CASE Others \/ UNCHANGED vars
  <2>1. UNCHANGED unpublished /\ (UNCHANGED tick \/ tick' = [c \in Crons |-> NoTick])
    <3>1. CASE \E o \in Organizers : Organize(o)
      BY <3>1 DEF Organize, EnsureEventOwnership, RefuseRequest, StartEvent, StopEvent, UpdateEvent,
         DeleteParticipations, DeleteOrganizers, DeleteChatRooms, DeleteCtf, noteVars, cronVars
    <3>2. CASE Crash
      BY <3>2 DEF Crash, noteVars
    <3> QED
      BY <1>6, <3>1, <3>2 DEF Others, CreateEvent, ChangeParticipants, DeleteUser, Pass,
         vars, noteVars, cronVars
  <2> QED
    BY <1>3, <2>1 DEF NoTick
<1> QED
  BY <1>5, <1>6 DEF Next, Others

(* A commit opens only a published event and ends only an active one. *)
LEMMA MovesStayBacked ==
  ASSUME LInv, MovesAreBacked, [Next]_vars
  PROVE  MovesAreBacked'
<1> USE LifecycleAssumption DEF MovesAreBacked
<1>0. /\ moves \in MoveTypes /\ MatchedRowIsLocked
      /\ {moves.published, moves.started, moves.opened, moves.closed} \subseteq Nat
  BY DEF LInv, TypeOK, MoveTypes
<1>1. ASSUME NEW c \in Crons, CommitTick(c) PROVE MovesAreBacked'
  <2>1. /\ tick[c].open => status = "published"
        /\ tick[c].close => status = "active" \/ tick[c].open
        /\ status' = IF tick[c].close THEN "ended" ELSE IF tick[c].open THEN "active" ELSE status
    BY <1>0, <1>1 DEF MatchedRowIsLocked, TickHoldsRow, MayOpen, MayClose, CommitTick, StatusAfter
  <2>2. /\ moves'.opened = moves.opened + IF tick[c].open THEN 1 ELSE 0
        /\ moves'.closed = moves.closed + IF tick[c].close THEN 1 ELSE 0
        /\ moves'.published = moves.published /\ moves'.started = moves.started
    BY <1>0, <1>1 DEF CommitTick, MoveTypes
  <2>3. CASE tick[c].open /\ tick[c].close
    BY <1>0, <2>1, <2>2, <2>3
  <2>4. CASE tick[c].open /\ ~ tick[c].close
    BY <1>0, <2>1, <2>2, <2>4
  <2>5. CASE ~ tick[c].open /\ tick[c].close
    BY <1>0, <2>1, <2>2, <2>5
  <2>6. CASE ~ tick[c].open /\ ~ tick[c].close
    BY <1>0, <2>1, <2>2, <2>6
  <2> QED
    BY <2>3, <2>4, <2>5, <2>6
<1>2. ASSUME NEW o \in Organizers, Organize(o) PROVE MovesAreBacked'
  <2>1. CASE StartEvent(o)
    <3>1. /\ moves'.started = moves.started + 1 /\ moves'.published = moves.published
          /\ moves'.opened = moves.opened /\ moves'.closed = moves.closed
          /\ status' = "active"
      BY <1>0, <2>1 DEF StartEvent, MoveTypes
    <3> QED
      BY <1>0, <3>1
  <2>2. CASE StopEvent(o)
    BY <1>0, <2>2 DEF StopEvent
  <2>3. ASSUME NEW s \in Statuses, NEW start \in Times, NEW end \in Times,
               UpdateEvent(o, s, start, end)
        PROVE  MovesAreBacked'
    <3>1. /\ moves'.published = moves.published + IF s = "published" /\ status # s THEN 1 ELSE 0
          /\ moves'.started = moves.started + IF s = "active" /\ status # s THEN 1 ELSE 0
          /\ moves'.opened = moves.opened /\ moves'.closed = moves.closed
          /\ status' = s
      BY <1>0, <2>3 DEF UpdateEvent, MoveTypes
    <3>2. CASE s = "published"
      BY <1>0, <3>1, <3>2
    <3>3. CASE s = "active"
      BY <1>0, <3>1, <3>3
    <3>4. CASE s \notin {"published", "active"}
      BY <1>0, <3>1, <3>4
    <3> QED
      BY <3>2, <3>3, <3>4
  <2>4. CASE DeleteCtf(o)
    BY <1>0, <2>4 DEF DeleteCtf
  <2>5. CASE UNCHANGED <<status, moves>>
    BY <2>5
  <2> QED
    BY <1>2, <2>1, <2>2, <2>3, <2>4, <2>5 DEF Organize, EnsureEventOwnership, RefuseRequest,
       DeleteParticipations, DeleteOrganizers, DeleteChatRooms, eventVars
<1>3. ASSUME NEW isOpen \in BOOLEAN, NEW start \in Times, NEW end \in Times,
             CreateEvent(isOpen, start, end)
      PROVE  MovesAreBacked'
  <2>1. /\ moves'.published = moves.published + IF isOpen THEN 1 ELSE 0
        /\ moves'.started = moves.started
        /\ moves'.opened = moves.opened /\ moves'.closed = moves.closed
        /\ status' = IF isOpen THEN "published" ELSE "draft"
    BY <1>0, <1>3 DEF CreateEvent, MoveTypes
  <2>2. CASE isOpen
    BY <1>0, <2>1, <2>2
  <2>3. CASE ~ isOpen
    BY <1>0, <2>1, <2>3
  <2> QED
    BY <2>2, <2>3
<1>4. CASE UNCHANGED <<status, moves>>
  BY <1>4
<1>5. ASSUME NEW c \in Crons, SyncCtfStatus(c) \/ FailTick(c)
      PROVE  CommitTick(c) \/ UNCHANGED <<status, moves>>
  BY <1>5 DEF SyncCtfStatus, SelectStarting, SelectEnding, UpdateActive, UpdateEnded,
     CreateNotification, FailTick, eventVars
<1>6. ASSUME NEW u \in Users, ChangeParticipants(u) \/ DeleteUser(u)
      PROVE  UNCHANGED <<status, moves>>
  BY <1>6 DEF ChangeParticipants, DeleteUser, eventVars
<1> QED
  BY <1>1, <1>2, <1>3, <1>4, <1>5, <1>6 DEF Next, Crash, Pass, vars, eventVars

LEMMA StepKeepsEInv == EInv /\ [Next]_vars => EInv'
<1> SUFFICES ASSUME EInv, [Next]_vars PROVE EInv'
  OBVIOUS
<1>0. LInv /\ TypeOK /\ CreatedAreUnpublished /\ MovesAreBacked
  BY DEF EInv, LInv
<1>1. LInv'
  <2>1. ASSUME NEW c \in Crons, SyncCtfStatus(c) \/ FailTick(c) PROVE LInv'
    BY <1>0, <2>1, TickKeepsTypes, TickKeepsLocks DEF LInv
  <2>2. CASE Others
    BY <1>0, <2>2, OthersKeepTypes, OthersKeepLocks DEF LInv
  <2>3. CASE UNCHANGED vars
    BY <1>0, <2>3 DEF LInv, TypeOK, MatchedRowIsLocked, TickHoldsRow, TicksInOrder, MayOpen, MayClose,
       vars, eventVars, ownVars, userVars, noteVars, cronVars, countVars
  <2> QED
    BY <2>1, <2>2, <2>3 DEF Next, Others
<1>2. CreatedAreUnpublished' /\ MovesAreBacked'
  BY <1>0, CreatedStayUnpublished, MovesStayBacked
<1> QED
  BY <1>1, <1>2 DEF EInv
-----------------------------------------------------------------------------
(* Every variable keeps its type, and no notification is published that    *)
(* was not created (SyncCtfStatus, and the organizers' handlers).          *)
THEOREM TypeCorrect == Spec => []TypeOK
<1>1. Spec => []EInv
  BY InitEstablishes, StepKeepsEInv, PTL DEF Spec
<1>2. EInv => TypeOK
  BY DEF EInv, LInv
<1> QED
  BY <1>1, <1>2, PTL

(* For any number of cron jobs and organizers: the row a tick has matched  *)
(* is locked by it, and what its WHERE clauses found is still true.        *)
THEOREM MatchedRowStays == Spec => []MatchedRowIsLocked
<1>1. Spec => []EInv
  BY InitEstablishes, StepKeepsEInv, PTL DEF Spec
<1>2. EInv => MatchedRowIsLocked
  BY DEF EInv, LInv
<1> QED
  BY <1>1, <1>2, PTL

(* For any number of cron jobs: together they open an event at most once   *)
(* per publication, and end it at most once per activation.                *)
THEOREM MovesFollow == Spec => []MovesFollowEdits
<1>1. Spec => []EInv
  BY InitEstablishes, StepKeepsEInv, PTL DEF Spec
<1>2. EInv => MovesFollowEdits
  <2> SUFFICES ASSUME EInv PROVE MovesFollowEdits
    OBVIOUS
  <2>1. {moves.published, moves.started, moves.opened, moves.closed} \subseteq Nat
    BY DEF EInv, LInv, TypeOK
  <2>2. MovesAreBacked
    BY DEF EInv
  <2> QED
    BY <2>1, <2>2 DEF MovesAreBacked, MovesFollowEdits
<1> QED
  BY <1>1, <1>2, PTL

(* For any number of cron jobs and organizers: a cron job moves an event   *)
(* only forward, and only when its time has come.                          *)
THEOREM OnlyForward == Spec => CronOnlyForward
<1> DEFINE Forward ==
      \A c \in Crons :
        CommitTick(c) =>
          \/ status' = status
          \/ status' = "active" /\ MayOpen(clock)
          \/ status' = "ended" /\ endTime < clock /\ (MayClose(clock) \/ MayOpen(clock))
<1>1. Spec => []EInv
  BY InitEstablishes, StepKeepsEInv, PTL DEF Spec
<1>2. EInv => Forward
  <2> SUFFICES ASSUME EInv, NEW c \in Crons, CommitTick(c)
               PROVE  \/ status' = status
                      \/ status' = "active" /\ MayOpen(clock)
                      \/ status' = "ended" /\ endTime < clock
                                          /\ (MayClose(clock) \/ MayOpen(clock))
    OBVIOUS
  <2>1. /\ tick[c].now \in Int /\ clock \in Int /\ startTime \in Int /\ endTime \in Int
        /\ tick[c].now <= clock /\ MatchedRowIsLocked
    BY LifecycleAssumption DEF EInv, LInv, TypeOK, TicksInOrder, Tick
  <2>2. status' = StatusAfter(c)
    BY DEF CommitTick
  <2> QED
    BY <2>1, <2>2 DEF StatusAfter, MatchedRowIsLocked, TickHoldsRow, MayOpen, MayClose
<1> QED
  BY <1>1, <1>2, PTL DEF CronOnlyForward, Spec
-----------------------------------------------------------------------------
(* What a cron job has told and is about to tell: between its SELECT and   *)
(* its UPDATE the event is as the SELECT found it, or it was moved or      *)
(* changed by hand, and that pays for the announcement.                    *)

Started == moves.opened + Interventions
Ended   == moves.closed + Interventions

StartsTold(c) ==
  \A u \in Users :
    /\ inbox[c][u]["start"] <= Started
    /\ u \in tick[c].to["start"] =>
         \/ pc[c] \in {"starting", "ending"} /\ MayOpen(tick[c].now)
         \/ tick[c].open
         \/ inbox[c][u]["start"] < Started

EndsTold(c) ==
  \A u \in Users :
    /\ inbox[c][u]["end"] <= Ended
    /\ u \in tick[c].to["end"] =>
         \/ pc[c] \in {"ending", "opened"} /\ MayClose(tick[c].now)
         \/ tick[c].close
         \/ inbox[c][u]["end"] < Ended

NobodyYet(c) ==
  /\ pc[c] = "idle" => tick[c].to["start"] = {}
  /\ pc[c] \in {"idle", "starting"} => tick[c].to["end"] = {}

Told(c) == StartsTold(c) /\ EndsTold(c) /\ NobodyYet(c)

NoticesInv == \A c \in Crons : Told(c)

LEMMA NoticesInit == Init => NoticesInv
<1> SUFFICES ASSUME Init, NEW c \in Crons PROVE Told(c)
  BY DEF NoticesInv
<1>1. tick[c].to["start"] = {} /\ tick[c].to["end"] = {}
  BY DEF Init, NoTick, Kinds
<1>2. Started = 0 /\ Ended = 0
  BY DEF Init, Started, Ended, Interventions
<1>3. \A u \in Users : inbox[c][u]["start"] = 0 /\ inbox[c][u]["end"] = 0
  BY DEF Init, Kinds
<1> QED
  BY <1>1, <1>2, <1>3 DEF Told, StartsTold, EndsTold, NobodyYet

(* The changes of the event that the announcements of the other ticks bear. *)
PaidFor ==
  /\ Started' >= Started /\ Ended' >= Ended
  /\ status = "published" => \/ status' = "published" /\ startTime' = startTime
                             \/ Started' > Started
  /\ status = "active" => \/ status' = "active" /\ endTime' = endTime
                          \/ Ended' > Ended

LEMMA CountsAreNat ==
  ASSUME TypeOK
  PROVE  /\ Started \in Nat /\ Ended \in Nat /\ Interventions \in Nat
         /\ \A c \in Crons, u \in Users :
              inbox[c][u]["start"] \in Nat /\ inbox[c][u]["end"] \in Nat
<1>1. moves.opened \in Nat /\ moves.closed \in Nat /\ edits \in Nat
  BY DEF TypeOK
<1>2. \A c \in Crons, u \in Users :
        inbox[c][u]["start"] \in Nat /\ inbox[c][u]["end"] \in Nat
  BY DEF TypeOK, Kinds
<1> QED
  BY <1>1, <1>2 DEF Started, Ended, Interventions

(* A tick that takes no part in a step keeps what it has to tell. *)
LEMMA StillTold ==
  ASSUME TypeOK, TypeOK', PaidFor, NEW c \in Crons, Told(c),
         tick'[c] = tick[c], pc'[c] = pc[c],
         \A u \in Users : /\ inbox'[c][u]["start"] <= inbox[c][u]["start"]
                          /\ inbox'[c][u]["end"] <= inbox[c][u]["end"]
  PROVE  Told(c)'
<1>1. /\ Started \in Nat /\ Ended \in Nat /\ Started' \in Nat /\ Ended' \in Nat
      /\ \A u \in Users : /\ inbox[c][u]["start"] \in Nat /\ inbox[c][u]["end"] \in Nat
                          /\ inbox'[c][u]["start"] \in Nat /\ inbox'[c][u]["end"] \in Nat
  <2>1. Started' \in Nat /\ Ended' \in Nat
    <3>1. moves'.opened \in Nat /\ moves'.closed \in Nat /\ edits' \in Nat
      BY DEF TypeOK
    <3> QED
      BY <3>1 DEF Started, Ended, Interventions
  <2>2. \A u \in Users : inbox'[c][u]["start"] \in Nat /\ inbox'[c][u]["end"] \in Nat
    BY DEF TypeOK, Kinds
  <2> QED
    BY <2>1, <2>2, CountsAreNat
<1>2. ASSUME MayOpen(tick[c].now) PROVE MayOpen(tick[c].now)' \/ Started' > Started
  BY <1>2 DEF MayOpen, PaidFor
<1>3. ASSUME MayClose(tick[c].now) PROVE MayClose(tick[c].now)' \/ Ended' > Ended
  BY <1>3 DEF MayClose, PaidFor
<1>4. StartsTold(c)'
  BY <1>1, <1>2 DEF Told, StartsTold, PaidFor
<1>5. EndsTold(c)'
  BY <1>1, <1>3 DEF Told, EndsTold, PaidFor
<1> QED
  BY <1>4, <1>5 DEF Told, NobodyYet

(* A step that changes neither the event nor the counts. *)
LEMMA NothingToPay ==
  ASSUME TypeOK, UNCHANGED <<eventVars, moves, edits>>
  PROVE  PaidFor /\ Started' = Started /\ Ended' = Ended
<1>1. Started' = Started /\ Ended' = Ended
  BY DEF Started, Ended, Interventions, eventVars
<1> QED
  BY <1>1, CountsAreNat DEF PaidFor, eventVars

(* A tick that is over has told its last. *)
LEMMA OverIsTold ==
  ASSUME TypeOK, NEW c \in Crons, tick'[c] = NoTick,
         \A u \in Users : /\ inbox'[c][u]["start"] <= Started'
                          /\ inbox'[c][u]["end"] <= Ended'
  PROVE  Told(c)'
BY DEF Told, StartsTold, EndsTold, NobodyYet, NoTick, Kinds

(* The statements of a tick before its last. *)
LEMMA StatementsTell ==
  ASSUME EInv, NoticesInv, NEW c \in Crons,
         \/ SelectStarting(c) \/ SelectEnding(c) \/ UpdateActive(c) \/ UpdateEnded(c)
         \/ \E k \in Kinds : CreateNotification(c, k)
  PROVE  NoticesInv'
<1>1. /\ tick \in [Crons -> Tick] /\ tick[c] \in Tick /\ pc \in [Crons -> CronPC]
      /\ Told(c) /\ TypeOK /\ TypeOK'
  <2>1. TypeOK'
    BY TickKeepsTypes DEF EInv, LInv, SyncCtfStatus
  <2> QED
    BY <2>1 DEF EInv, LInv, TypeOK, NoticesInv
<1>2. "start" \in Kinds /\ "end" \in Kinds /\ "start" # "end" /\ tick[c].to \in [Kinds -> SUBSET Users]
  BY <1>1 DEF Kinds, Tick
<1>3. UNCHANGED <<eventVars, inbox, moves, edits>>
  BY DEF SelectStarting, SelectEnding, UpdateActive, UpdateEnded, CreateNotification, noteVars,
     countVars
<1>4. PaidFor /\ Started' = Started /\ Ended' = Ended
  BY <1>1, <1>3, NothingToPay
<1>5. /\ Started \in Nat /\ Ended \in Nat
      /\ \A d \in Crons, u \in Users :
           inbox[d][u]["start"] \in Nat /\ inbox[d][u]["end"] \in Nat
  BY <1>1, CountsAreNat
<1>6. ASSUME NEW d \in Crons, d # c PROVE Told(d)'
  <2>1. tick'[d] = tick[d] /\ pc'[d] = pc[d]
    BY <1>1, <1>6 DEF SelectStarting, SelectEnding, UpdateActive, UpdateEnded, CreateNotification
  <2>2. Told(d)
    BY DEF NoticesInv
  <2> QED
    BY <1>1, <1>3, <1>4, <1>5, <2>1, <2>2, StillTold
<1> SUFFICES Told(c)'
  BY <1>6 DEF NoticesInv
<1>7. CASE SelectStarting(c)
  <2>1. /\ pc[c] = "idle" /\ pc'[c] = "starting" /\ tick'[c].now = clock
        /\ tick'[c].to["start"] = IF MayOpen(clock) THEN participants ELSE {}
        /\ tick'[c].to["end"] = tick[c].to["end"]
    <3>1. /\ pc[c] = "idle" /\ pc'[c] = "starting"
          /\ tick' = [tick EXCEPT ![c].now = clock,
                                  ![c].to["start"] = IF MayOpen(clock) THEN participants ELSE {}]
      BY <1>1, <1>7 DEF SelectStarting
    <3> QED
      BY <1>1, <1>2, <3>1 DEF Tick
  <2>2. tick[c].to["end"] = {}
    BY <1>1, <2>1 DEF Told, NobodyYet
  <2>3. StartsTold(c)'
    BY <1>1, <1>3, <1>4, <2>1 DEF Told, StartsTold, MayOpen, eventVars
  <2>4. EndsTold(c)'
    BY <1>1, <1>3, <1>4, <2>1, <2>2 DEF Told, EndsTold
  <2> QED
    BY <2>1, <2>2, <2>3, <2>4 DEF Told, NobodyYet
<1>8. CASE SelectEnding(c)
  <2>1. /\ pc[c] = "starting" /\ pc'[c] = "ending"
        /\ tick'[c].now = tick[c].now /\ tick'[c].open = tick[c].open
        /\ tick'[c].to["end"] = IF MayClose(tick[c].now) THEN participants ELSE {}
        /\ tick'[c].to["start"] = tick[c].to["start"]
    <3>1. /\ pc[c] = "starting" /\ pc'[c] = "ending"
          /\ tick' = [tick EXCEPT ![c].to["end"] = IF MayClose(tick[c].now) THEN participants ELSE {}]
      BY <1>1, <1>8 DEF SelectEnding
    <3> QED
      BY <1>1, <1>2, <3>1 DEF Tick
  <2>3. StartsTold(c)'
    BY <1>1, <1>3, <1>4, <2>1 DEF Told, StartsTold, MayOpen, eventVars
  <2>4. EndsTold(c)'
    BY <1>1, <1>3, <1>4, <2>1 DEF Told, EndsTold, MayClose, eventVars
  <2> QED
    BY <2>1, <2>3, <2>4 DEF Told, NobodyYet
<1>9. CASE UpdateActive(c)
  <2>1. /\ pc[c] = "ending" /\ pc'[c] = "opened"
        /\ tick'[c].to = tick[c].to /\ tick'[c].now = tick[c].now
        /\ tick'[c].open = MayOpen(tick[c].now) /\ tick'[c].close = tick[c].close
    BY <1>1, <1>9 DEF UpdateActive, Tick
  <2>2. ~ tick[c].open
    BY <2>1 DEF EInv, LInv, TicksInOrder
  <2>3. StartsTold(c)'
    BY <1>1, <1>3, <1>4, <2>1, <2>2 DEF Told, StartsTold
  <2>4. EndsTold(c)'
    BY <1>1, <1>3, <1>4, <2>1 DEF Told, EndsTold, MayClose, eventVars
  <2> QED
    BY <2>1, <2>3, <2>4 DEF Told, NobodyYet
<1>10. CASE UpdateEnded(c)
  <2>1. /\ pc[c] = "opened" /\ pc'[c] = "closed"
        /\ tick'[c].to = tick[c].to /\ tick'[c].now = tick[c].now
        /\ tick'[c].open = tick[c].open
        /\ tick'[c].close = (MayClose(tick[c].now) \/ (tick[c].open /\ endTime < tick[c].now))
    BY <1>1, <1>10 DEF UpdateEnded, Tick
  <2>2. ~ tick[c].close
    BY <2>1 DEF EInv, LInv, TicksInOrder
  <2>3. StartsTold(c)'
    BY <1>1, <1>3, <1>4, <2>1 DEF Told, StartsTold
  <2>4. EndsTold(c)'
    BY <1>1, <1>3, <1>4, <2>1, <2>2 DEF Told, EndsTold
  <2> QED
    BY <2>1, <2>3, <2>4 DEF Told, NobodyYet
<1>11. ASSUME NEW k \in Kinds, CreateNotification(c, k) PROVE Told(c)'
  <2>1. /\ pc[c] = "closed" /\ pc'[c] = "closed"
        /\ tick'[c].to = tick[c].to
        /\ tick'[c].open = tick[c].open /\ tick'[c].close = tick[c].close
    BY <1>1, <1>11 DEF CreateNotification, Tick
  <2>2. StartsTold(c)' /\ EndsTold(c)'
    BY <1>1, <1>3, <1>4, <2>1 DEF Told, StartsTold, EndsTold
  <2> QED
    BY <2>1, <2>2 DEF Told, NobodyYet
<1> QED
  BY <1>7, <1>8, <1>9, <1>10, <1>11

(* The commit pays for what it tells: to whom the tick tells of a start,   *)
(* either it opened the event or somebody else did.                        *)
LEMMA CommitTells ==
  ASSUME EInv, NoticesInv, NEW c \in Crons, CommitTick(c)
  PROVE  NoticesInv'
<1>1. /\ tick[c] \in Tick /\ pc \in [Crons -> CronPC] /\ tick \in [Crons -> Tick]
      /\ Told(c) /\ TypeOK /\ TypeOK' /\ pc[c] = "closed" /\ EndTick(c) /\ TickHoldsRow(c)
  <2>1. TypeOK'
    BY TickKeepsTypes DEF EInv, LInv, SyncCtfStatus
  <2> QED
    BY <2>1 DEF EInv, LInv, TypeOK, NoticesInv, CommitTick, MatchedRowIsLocked
<1>2. tick[c].open \in BOOLEAN /\ tick[c].close \in BOOLEAN
  BY <1>1 DEF Tick
<1>3. /\ moves.opened \in Nat /\ moves.closed \in Nat /\ edits \in Nat
      /\ moves'.opened = moves.opened + IF tick[c].open THEN 1 ELSE 0
      /\ moves'.closed = moves.closed + IF tick[c].close THEN 1 ELSE 0
      /\ UNCHANGED <<edits, startTime, endTime>>
  BY <1>1 DEF CommitTick, TypeOK, countVars
<1>4. status' = StatusAfter(c)
  BY DEF CommitTick
<1>5. Interventions' = Interventions /\ Interventions \in Nat
  BY <1>1, <1>3, <1>4, CountsAreNat
     DEF Interventions, StatusAfter, TickHoldsRow, MayOpen, MayClose
<1>6. /\ Started' = Started + IF tick[c].open THEN 1 ELSE 0
      /\ Ended' = Ended + IF tick[c].close THEN 1 ELSE 0
      /\ Started \in Nat /\ Ended \in Nat
  BY <1>3, <1>5 DEF Started, Ended
<1>7. PaidFor
  BY <1>1, <1>2, <1>3, <1>4, <1>6 DEF PaidFor, StatusAfter, TickHoldsRow, MayOpen, MayClose
<1>8. /\ inbox' = [inbox EXCEPT ![c] = [u \in Users |-> [k \in Kinds |->
                     inbox[c][u][k] + IF u \in tick[c].to[k] THEN 1 ELSE 0]]]
      /\ DOMAIN inbox = Crons
  BY <1>1 DEF CommitTick, TypeOK
<1>9. ASSUME NEW d \in Crons, d # c PROVE Told(d)'
  <2>1. tick'[d] = tick[d] /\ pc'[d] = pc[d] /\ inbox'[d] = inbox[d]
    BY <1>1, <1>8, <1>9 DEF EndTick
  <2>2. Told(d)
    BY DEF NoticesInv
  <2>3. \A u \in Users : inbox[d][u]["start"] \in Nat /\ inbox[d][u]["end"] \in Nat
    BY <1>1, CountsAreNat
  <2> QED
    BY <1>1, <1>7, <2>1, <2>2, <2>3, StillTold
<1>10. Told(c)'
  <2>1. ASSUME NEW u \in Users
        PROVE  inbox'[c][u]["start"] <= Started' /\ inbox'[c][u]["end"] <= Ended'
    <3>1. /\ inbox'[c][u]["start"] = inbox[c][u]["start"] + (IF u \in tick[c].to["start"] THEN 1 ELSE 0)
          /\ inbox'[c][u]["end"] = inbox[c][u]["end"] + (IF u \in tick[c].to["end"] THEN 1 ELSE 0)
      BY <1>8 DEF Kinds
    <3>2. inbox[c][u]["start"] \in Nat /\ inbox[c][u]["end"] \in Nat
      BY <1>1, CountsAreNat
    <3>3. /\ inbox[c][u]["start"] <= Started
          /\ u \in tick[c].to["start"] => tick[c].open \/ inbox[c][u]["start"] < Started
      BY <1>1 DEF Told, StartsTold
    <3>4. /\ inbox[c][u]["end"] <= Ended
          /\ u \in tick[c].to["end"] => tick[c].close \/ inbox[c][u]["end"] < Ended
      BY <1>1 DEF Told, EndsTold
    <3> QED
      BY <1>2, <1>6, <3>1, <3>2, <3>3, <3>4
  <2>2. tick'[c] = NoTick
    BY <1>1 DEF EndTick
  <2> QED
    BY <1>1, <2>1, <2>2, OverIsTold
<1> QED
  BY <1>9, <1>10 DEF NoticesInv

(* A request that changes the event pays for it, whatever it writes. *)
LEMMA RequestsPay ==
  ASSUME TypeOK, NEW o \in Organizers, Organize(o)
  PROVE  PaidFor /\ UNCHANGED <<inbox, cronVars>>
<1>1. /\ moves \in MoveTypes /\ edits \in Nat /\ moves.opened \in Nat /\ moves.closed \in Nat
      /\ Started \in Nat /\ Ended \in Nat
  BY CountsAreNat DEF TypeOK, MoveTypes
<1>2. UNCHANGED <<inbox, cronVars>>
  BY DEF Organize, EnsureEventOwnership, RefuseRequest, StartEvent, StopEvent, UpdateEvent,
     DeleteParticipations, DeleteOrganizers, DeleteChatRooms, DeleteCtf, noteVars
<1>3. CASE UNCHANGED <<eventVars, moves, edits>>
  BY <1>2, <1>3, NothingToPay
<1>4. CASE /\ edits' = edits + 1 /\ status # "deleted" /\ status' \in Statuses
           /\ moves'.opened = moves.opened /\ moves'.closed = moves.closed
  <2>1. Started' = Started + 1 /\ Ended' = Ended + 1
    BY <1>1, <1>4 DEF Started, Ended, Interventions, Statuses
  <2> QED
    BY <1>1, <1>2, <2>1 DEF PaidFor
<1>5. CASE DeleteCtf(o)
  <2>1. /\ status' = "deleted" /\ UNCHANGED <<moves, edits>>
    BY <1>5 DEF DeleteCtf, countVars
  <2>2. CASE status = "deleted"
    BY <1>1, <1>2, <2>1, <2>2 DEF PaidFor, Started, Ended, Interventions
  <2>3. CASE status # "deleted"
    BY <1>1, <1>2, <2>1, <2>3 DEF PaidFor, Started, Ended, Interventions
  <2> QED
    BY <2>2, <2>3
<1>6. ASSUME StartEvent(o) \/ StopEvent(o)
             \/ \E s \in Statuses, start, end \in Times : UpdateEvent(o, s, start, end)
      PROVE  /\ edits' = edits + 1 /\ status # "deleted" /\ status' \in Statuses
             /\ moves'.opened = moves.opened /\ moves'.closed = moves.closed
  BY <1>1, <1>6 DEF StartEvent, StopEvent, UpdateEvent, Answer, Exists, Statuses, MoveTypes
<1> QED
  BY <1>3, <1>4, <1>5, <1>6 DEF Organize, EnsureEventOwnership, RefuseRequest,
     DeleteParticipations, DeleteOrganizers, DeleteChatRooms, countVars

LEMMA NoticesStep == EInv /\ NoticesInv /\ [Next]_vars => NoticesInv'
<1> SUFFICES ASSUME EInv, NoticesInv, [Next]_vars PROVE NoticesInv'
  OBVIOUS
<1>1. /\ TypeOK /\ TypeOK' /\ pc \in [Crons -> CronPC] /\ tick \in [Crons -> Tick]
      /\ \A c \in Crons : Told(c)
      /\ \A c \in Crons, u \in Users :
           /\ inbox[c][u]["start"] \in Nat /\ inbox[c][u]["start"] <= Started
           /\ inbox[c][u]["end"] \in Nat /\ inbox[c][u]["end"] <= Ended
  <2>1. TypeOK /\ TypeOK' /\ \A c \in Crons : Told(c)
    BY StepKeepsEInv DEF EInv, LInv, NoticesInv
  <2> QED
    BY <2>1, CountsAreNat DEF TypeOK, Told, StartsTold, EndsTold
<1>2. CASE PaidFor /\ UNCHANGED <<inbox, cronVars>>
  <2>1. \A c \in Crons : tick'[c] = tick[c] /\ pc'[c] = pc[c] /\ inbox'[c] = inbox[c]
    BY <1>2 DEF cronVars
  <2> QED
    BY <1>1, <1>2, <2>1, StillTold DEF NoticesInv
<1>3. ASSUME NEW c \in Crons, FailTick(c) PROVE NoticesInv'
  <2>1. PaidFor /\ Started' = Started /\ Ended' = Ended /\ inbox' = inbox
    BY <1>1, <1>3, NothingToPay DEF FailTick, noteVars
  <2>2. tick'[c] = NoTick /\ \A d \in Crons \ {c} : tick'[d] = tick[d] /\ pc'[d] = pc[d]
    BY <1>1, <1>3 DEF FailTick, EndTick
  <2>3. Told(c)'
    BY <1>1, <2>1, <2>2, OverIsTold
  <2>4. \A d \in Crons \ {c} : Told(d)'
    BY <1>1, <2>1, <2>2, StillTold
  <2> QED
    BY <2>3, <2>4 DEF NoticesInv
<1>4. ASSUME NEW isOpen \in BOOLEAN, NEW start \in Times, NEW end \in Times,
             CreateEvent(isOpen, start, end)
      PROVE  PaidFor /\ UNCHANGED <<inbox, cronVars>>
  <2>1. /\ status = "absent" /\ status' \in {"draft", "published"} /\ edits' = edits
        /\ moves'.opened = moves.opened /\ moves'.closed = moves.closed
        /\ UNCHANGED <<inbox, cronVars>>
    BY <1>1, <1>4 DEF CreateEvent, TypeOK, countVars, noteVars
  <2>2. Started' = Started /\ Ended' = Ended /\ Started \in Nat /\ Ended \in Nat
    BY <1>1, <2>1, CountsAreNat DEF Started, Ended, Interventions
  <2> QED
    BY <2>1, <2>2 DEF PaidFor
<1>5. ASSUME NEW u \in Users, ChangeParticipants(u) \/ DeleteUser(u) PROVE NoticesInv'
  <2>1. UNCHANGED <<eventVars, moves, edits, cronVars>>
    BY <1>5 DEF ChangeParticipants, DeleteUser, countVars
  <2>2. ASSUME NEW c \in Crons, NEW v \in Users
        PROVE  /\ inbox'[c][v]["start"] <= inbox[c][v]["start"]
               /\ inbox'[c][v]["end"] <= inbox[c][v]["end"]
    <3>1. inbox' = inbox \/ inbox' = [d \in Crons |-> [inbox[d] EXCEPT ![u] = [k \in Kinds |-> 0]]]
      BY <1>5 DEF ChangeParticipants, DeleteUser, noteVars
    <3>2. inbox[c] \in [Users -> [Kinds -> Nat]]
      BY <1>1 DEF TypeOK
    <3> QED
      BY <1>1, <3>1, <3>2 DEF Kinds
  <2>3. PaidFor
    BY <1>1, <2>1, NothingToPay
  <2>4. \A c \in Crons : tick'[c] = tick[c] /\ pc'[c] = pc[c]
    BY <2>1 DEF cronVars
  <2> QED
    BY <1>1, <2>2, <2>3, <2>4, StillTold DEF NoticesInv
<1>6. CASE Crash
  <2>1. Started' = Started /\ Ended' = Ended /\ inbox' = inbox
    BY <1>1, <1>6, NothingToPay DEF Crash, noteVars
  <2>2. \A c \in Crons : tick'[c] = NoTick
    BY <1>6 DEF Crash
  <2> QED
    BY <1>1, <2>1, <2>2, OverIsTold DEF NoticesInv
<1>7. ASSUME Pass \/ UNCHANGED vars PROVE PaidFor /\ UNCHANGED <<inbox, cronVars>>
  BY <1>1, <1>7, NothingToPay DEF Pass, vars, noteVars, countVars
<1>8. ASSUME NEW o \in Organizers, Organize(o) PROVE PaidFor /\ UNCHANGED <<inbox, cronVars>>
  BY <1>1, <1>8, RequestsPay
<1> QED
  BY <1>2, <1>3, <1>4, <1>5, <1>6, <1>7, <1>8, StatementsTell, CommitTells DEF Next, SyncCtfStatus

(* However many cron jobs overlap, fail, die and are restarted, and        *)
(* whatever organizers do between the statements of a tick: one job tells  *)
(* a user of a start or an end no more often than the jobs moved the event *)
(* or somebody changed or deleted it by hand (SyncCtfStatus).              *)
THEOREM NoticesFollow == Spec => []NoticesBounded
<1>1. Spec => []EInv
  BY InitEstablishes, StepKeepsEInv, PTL DEF Spec
<1>2. Spec => []NoticesInv
  BY <1>1, NoticesInit, NoticesStep, PTL DEF Spec
<1>3. NoticesInv => NoticesBounded
  BY DEF NoticesInv, Told, StartsTold, EndsTold, Started, Ended, NoticesBounded
<1> QED
  BY <1>2, <1>3, PTL
=============================================================================
