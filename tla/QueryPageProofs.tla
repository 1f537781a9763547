--------------------------- MODULE QueryPageProofs ---------------------------
(***************************************************************************)
(* What one step of a page does to each part of its state, whatever the     *)
(* page: these facts hold in every section that is an instance of QueryPage. *)
(***************************************************************************)
EXTENDS QueryPage, TLAPS

(* A list of sets of queries. *)
Listed(s) == DOMAIN s = 1 .. Len(s) /\ Len(s) \in Nat

LEMMA ShortLists ==
  ASSUME NEW a, NEW b
  PROVE  /\ Listed(<<>>) /\ DOMAIN <<>> = {} /\ Len(<<>>) = 0
         /\ Listed(<<a>>) /\ DOMAIN <<a>> = {1} /\ <<a>>[1] = a /\ Len(<<a>>) = 1
         /\ Listed(<<a, b>>) /\ DOMAIN <<a, b>> = {1, 2} /\ <<a, b>>[1] = a /\ <<a, b>>[2] = b
  BY DEF Listed

(* The functions of the page keep their domains; a request for data is of    *)
(* one of four kinds, an answer that was read has a value, and a mutation    *)
(* that settles says which of its sets it waits for.                         *)
Shaped ==
  /\ data = [q \in Queries |-> data[q]]
  /\ fetch = [q \in Queries |-> fetch[q]]
  /\ pending = [o \in Ops |-> pending[o]]
  /\ \A q \in Queries : /\ fetch[q].at = "read" => {"at", "val"} \subseteq DOMAIN fetch[q]
                        /\ fetch[q] \in {Idle, Sent} \/ fetch[q].at \in {"read", "error"}
  /\ \A o \in Ops : pending[o].at = "settling" => pending[o].k \in Nat

(* A mutation that was accepted has still to invalidate a query. *)
ToCome(o, q) ==
  \E k \in DOMAIN Invalidates(ui, o) :
    /\ q \in Invalidates(ui, o)[k]
    /\ \/ pending[o].at = "ok"
       \/ pending[o].at = "settling" /\ pending[o].k < k

(* The page asks for a query or has an answer with its own changes, or the   *)
(* last request failed, or the query is not displayed; or the page will ask. *)
AtHand(q) ==
  \/ fetch[q].at \in {"sent", "error"}
  \/ fetch[q].at = "read" /\ fetch[q].own
  \/ fetch[q] = Idle /\ (q \in failed \/ ~ Active(ui, q))
Coming(q) == AtHand(q) \/ \E o \in Ops : ToCome(o, q)
Due(D) == \A q \in D \cap owed : Coming(q)

(* The service has accepted a change that a query shows and its mutation    *)
(* does not invalidate, while the page displays the query or has an answer. *)
Missed(q) ==
  \E o \in Ops :
    /\ pending[o].at = "sent"
    /\ ui' = ui /\ pending' = [pending EXCEPT ![o] = [at |-> "ok"]]
    /\ \E e \in Effects(db, o, pending[o].arg) :
          e.ok /\ db' = e.db /\ Shows(e.db, q) # Shows(db, q)
    /\ \A k \in DOMAIN Invalidates(ui, o) : q \notin Invalidates(ui, o)[k]
    /\ Active(ui, q) \/ fetch[q].at = "read"

(* A function keeps its domain when it is changed at a point. *)
LEMMA ChangedAt ==
  ASSUME NEW Q, NEW f, f = [q \in Q |-> f[q]], NEW p \in Q, NEW v
  PROVE  /\ [f EXCEPT ![p] = v] = [q \in Q |-> [f EXCEPT ![p] = v][q]]
         /\ [f EXCEPT ![p] = v][p] = v
         /\ \A q \in Q \ {p} : [f EXCEPT ![p] = v][q] = f[q]
  OBVIOUS

(* Where the data of the services comes from. *)
LEMMA DbStep ==
  ASSUME Next
  PROVE  \/ db' = db
         \/ db' \in Others(db)
         \/ \E o \in Ops : /\ pending[o].at = "sent"
                           /\ \E e \in Effects(db, o, pending[o].arg) : db' = e.db
<1>1. ASSUME NEW q \in Queries, ServeFetch(q) \/ TakeData(q) \/ TakeError(q) PROVE db' = db
  BY <1>1 DEF ServeFetch, TakeData, TakeError
<1>2. ASSUME NEW o \in Ops, ServeMutation(o)
      PROVE  \/ db' = db
             \/ pending[o].at = "sent" /\ \E e \in Effects(db, o, pending[o].arg) : db' = e.db
  BY <1>2 DEF ServeMutation
<1>3. ASSUME NEW o \in Ops, TakeMutation(o) \/ Settle(o) \/ Click(o) PROVE db' = db
  BY <1>3 DEF TakeMutation, Settle, Click
<1>4. ASSUME Focus \/ Turn \/ \E q \in Polls : Poll(q) PROVE db' = db
  BY <1>4 DEF Focus, Turn, Poll
<1>5. CASE Other
  BY <1>5 DEF Other
<1> QED
  BY <1>1, <1>2, <1>3, <1>4, <1>5 DEF Next, Answers

(* How the components and the data they show change. *)
LEMMA UiStep ==
  ASSUME Next
  PROVE  \/ data' = data /\ ui' = ui
         \/ \E q \in Queries : /\ fetch[q].at = "read"
                               /\ data' = [data EXCEPT ![q] = fetch[q].val]
                               /\ ui' = Sync(ui, data, data', q)
         \/ \E q \in Queries : /\ \E v \in Left(data, q) : data' = [data EXCEPT ![q] = v]
                               /\ ui' = OnError(ui, q)
         \/ /\ data' = data
            /\ \E o \in Ops : ui' \in {After(ui, o, "click"), After(ui, o, "ok"),
                                       After(ui, o, "done"), After(After(ui, o, "ok"), o, "done")}
         \/ data' = data /\ ui' \in Turns(ui, data, pending)
<1>1. ASSUME NEW q \in Queries, TakeData(q)
      PROVE  /\ fetch[q].at = "read"
             /\ data' = [data EXCEPT ![q] = fetch[q].val]
             /\ ui' = Sync(ui, data, data', q)
  BY <1>1 DEF TakeData
<1>2. ASSUME NEW q \in Queries, TakeError(q)
      PROVE  /\ \E v \in Left(data, q) : data' = [data EXCEPT ![q] = v]
             /\ ui' = OnError(ui, q)
  BY <1>2 DEF TakeError
<1>3. ASSUME \/ \E q \in Queries : ServeFetch(q)
             \/ \E o \in Ops : ServeMutation(o)
             \/ Focus \/ Other \/ \E q \in Polls : Poll(q)
      PROVE  data' = data /\ ui' = ui
  BY <1>3 DEF ServeFetch, ServeMutation, Focus, Other, Poll
<1>4. ASSUME NEW o \in Ops, NEW k, Settling(o, k)
      PROVE  ui' \in {ui, After(ui, o, "ok"), After(ui, o, "done"), After(After(ui, o, "ok"), o, "done")}
  BY <1>4 DEF Settling
<1>5. ASSUME NEW o \in Ops, TakeMutation(o) \/ Settle(o) \/ Click(o)
      PROVE  /\ data' = data
             /\ ui' \in {ui, After(ui, o, "click"), After(ui, o, "ok"), After(ui, o, "done"),
                         After(After(ui, o, "ok"), o, "done")}
  BY <1>4, <1>5 DEF TakeMutation, Settle, Click
<1>6. ASSUME Turn PROVE data' = data /\ ui' \in Turns(ui, data, pending)
  BY <1>6 DEF Turn
<1> QED
  BY <1>1, <1>2, <1>3, <1>5, <1>6 DEF Next, Answers

(* A request of a mutation carries what the click that sent it made of the  *)
(* page at that moment.                                                     *)
LEMMA PendingStep ==
  ASSUME Next, Shaped
  PROVE  /\ pending' = [o \in Ops |-> pending'[o]]
         /\ \A o \in Ops : pending'[o].at = "sent" =>
              \/ pending'[o] = pending[o]
              \/ Offered(ui, data, failed, pending, o) /\ pending'[o].arg = Arg(ui, data, o)
<1>0. pending = [o \in Ops |-> pending[o]]
  BY DEF Shaped
<1>1. CASE UNCHANGED pending
  BY <1>0, <1>1
<1>2. ASSUME NEW o \in Ops, NEW s, pending' = [pending EXCEPT ![o] = s],
             s.at # "sent" \/ (Offered(ui, data, failed, pending, o) /\ s.arg = Arg(ui, data, o))
      PROVE  /\ pending' = [p \in Ops |-> pending'[p]]
             /\ \A p \in Ops : pending'[p].at = "sent" =>
                  \/ pending'[p] = pending[p]
                  \/ Offered(ui, data, failed, pending, p) /\ pending'[p].arg = Arg(ui, data, p)
  <2>1. /\ pending' = [p \in Ops |-> pending'[p]] /\ pending'[o] = s
        /\ \A p \in Ops \ {o} : pending'[p] = pending[p]
    BY <1>0, <1>2, ChangedAt, Zenon
  <2> QED
    BY <1>2, <2>1
<1>3. ASSUME NEW o \in Ops, Click(o)
      PROVE  \E s : /\ pending' = [pending EXCEPT ![o] = s]
                    /\ Offered(ui, data, failed, pending, o) /\ s.arg = Arg(ui, data, o)
  <2> DEFINE s == [at |-> "sent", arg |-> Arg(ui, data, o)]
  <2>1. s.arg = Arg(ui, data, o)
    OBVIOUS
  <2>2. pending' = [pending EXCEPT ![o] = s] /\ Offered(ui, data, failed, pending, o)
    BY <1>3 DEF Click
  <2> HIDE DEF s
  <2> QED
    BY <2>1, <2>2
<1>4. ASSUME NEW o \in Ops, ServeMutation(o)
      PROVE  \E s : pending' = [pending EXCEPT ![o] = s] /\ s.at # "sent"
  <2>1. PICK ok \in BOOLEAN :
          pending' = [pending EXCEPT ![o] = [at |-> IF ok THEN "ok" ELSE "refused"]]
    <3>1. PICK e : pending' = [pending EXCEPT ![o] = [at |-> IF e.ok THEN "ok" ELSE "refused"]]
      BY <1>4 DEF ServeMutation
    <3>2. CASE e.ok
      <4>1. pending' = [pending EXCEPT ![o] = [at |-> IF TRUE THEN "ok" ELSE "refused"]]
        BY <3>1, <3>2
      <4> QED
        BY <4>1
    <3>3. CASE ~ e.ok
      <4>1. pending' = [pending EXCEPT ![o] = [at |-> IF FALSE THEN "ok" ELSE "refused"]]
        BY <3>1, <3>3
      <4> QED
        BY <4>1
    <3> QED
      BY <3>2, <3>3
  <2> DEFINE s == [at |-> IF ok THEN "ok" ELSE "refused"]
  <2>2. s.at # "sent"
    OBVIOUS
  <2> QED
    BY <2>1, <2>2
<1>5. ASSUME NEW o \in Ops, NEW k, Settling(o, k)
      PROVE  \E s : pending' = [pending EXCEPT ![o] = s] /\ s.at # "sent"
  <2> DEFINE t == [at |-> "settling", k |-> k]
  <2>1. pending' = [pending EXCEPT ![o] = None] \/ pending' = [pending EXCEPT ![o] = t]
    BY <1>5 DEF Settling
  <2>2. None.at # "sent" /\ t.at # "sent"
    BY DEF None
  <2> HIDE DEF t
  <2> QED
    BY <2>1, <2>2
<1>6. ASSUME NEW o \in Ops, TakeMutation(o) \/ Settle(o)
      PROVE  \E s : pending' = [pending EXCEPT ![o] = s] /\ s.at # "sent"
  <2>1. \/ \E k : Settling(o, k)
        \/ pending' = [pending EXCEPT ![o] = None]
    BY <1>6 DEF TakeMutation, Settle
  <2>2. None.at # "sent"
    BY DEF None
  <2> QED
    BY <1>5, <2>1, <2>2
<1>7. ASSUME \/ \E q \in Queries : ServeFetch(q) \/ TakeData(q) \/ TakeError(q)
             \/ Focus \/ Other \/ Turn \/ \E q \in Polls : Poll(q)
      PROVE  UNCHANGED pending
  BY <1>7 DEF ServeFetch, TakeData, TakeError, Focus, Other, Turn, Poll
<1> QED
  BY <1>1, <1>2, <1>3, <1>4, <1>6, <1>7 DEF Next, Answers

(* An answer that has been overtaken. *)
LEMMA OwnLost ==
  ASSUME NEW r, {"at", "val"} \subseteq DOMAIN r
  PROVE  /\ {"at", "val"} \subseteq DOMAIN [r EXCEPT !.own = FALSE]
         /\ [r EXCEPT !.own = FALSE].val = r.val /\ [r EXCEPT !.own = FALSE].at = r.at
  OBVIOUS

(* An answer under way when a mutation is served is kept, overtaken or not. *)
LEMMA OvertakenAnswers ==
  ASSUME NEW o \in Ops, ServeMutation(o)
  PROVE  \E seen : fetch' = [q \in Queries |->
                               IF q \in seen /\ fetch[q].at = "read"
                               THEN [fetch[q] EXCEPT !.own = FALSE] ELSE fetch[q]]
<1>1. PICK e : LET seen == IF e.ok THEN {q \in Queries : Shows(e.db, q) # Shows(db, q)} ELSE {}
               IN fetch' = [q \in Queries |->
                              IF q \in seen /\ fetch[q].at = "read"
                              THEN [fetch[q] EXCEPT !.own = FALSE] ELSE fetch[q]]
  BY DEF ServeMutation
<1> DEFINE seen == IF e.ok THEN {q \in Queries : Shows(e.db, q) # Shows(db, q)} ELSE {}
<1>2. fetch' = [q \in Queries |-> IF q \in seen /\ fetch[q].at = "read"
                                  THEN [fetch[q] EXCEPT !.own = FALSE] ELSE fetch[q]]
  BY <1>1
<1> HIDE DEF seen
<1> QED
  BY <1>2

(* An answer was read from the services at one moment, and stays as it was. *)
LEMMA AnswerStep ==
  ASSUME Next, Shaped
  PROVE  /\ fetch' = [q \in Queries |-> fetch'[q]]
         /\ \A q \in Queries : fetch'[q].at = "read" =>
              /\ {"at", "val"} \subseteq DOMAIN fetch'[q]
              /\ \/ fetch[q].at = "read" /\ fetch'[q].val = fetch[q].val
                 \/ fetch'[q].val \in Shows(db, q)
<1> DEFINE Kept(f, q) == f[q].at = "read" => f[q] = fetch[q]
<1>0. /\ fetch = [q \in Queries |-> fetch[q]]
      /\ \A q \in Queries : fetch[q].at = "read" => {"at", "val"} \subseteq DOMAIN fetch[q]
  BY DEF Shaped
<1>1. ASSUME fetch' = [q \in Queries |-> fetch'[q]], \A q \in Queries : Kept(fetch', q)
      PROVE  /\ fetch' = [q \in Queries |-> fetch'[q]]
             /\ \A q \in Queries : fetch'[q].at = "read" =>
                  /\ {"at", "val"} \subseteq DOMAIN fetch'[q]
                  /\ fetch[q].at = "read" /\ fetch'[q].val = fetch[q].val
  BY <1>0, <1>1
<1>2. ASSUME NEW f, NEW R
      PROVE  /\ Start(f, R) = [q \in Queries |-> Start(f, R)[q]]
             /\ Restart(f, R) = [q \in Queries |-> Restart(f, R)[q]]
             /\ \A q \in Queries : /\ Start(f, R)[q] \in {f[q], Sent}
                                   /\ Restart(f, R)[q] \in {f[q], Sent}
  BY DEF Start, Restart
<1>3. Sent.at # "read" /\ Idle.at # "read"
  BY DEF Sent, Idle
<1> HIDE DEF Kept
<1>4. ASSUME NEW f, NEW R, f = fetch \/ f = Restart(fetch, R), NEW S, fetch' = Start(f, S)
      PROVE  fetch' = [q \in Queries |-> fetch'[q]] /\ \A q \in Queries : Kept(fetch', q)
  BY <1>2, <1>3, <1>4 DEF Kept
<1>5. ASSUME NEW p \in Queries, NEW S, fetch' = Start([fetch EXCEPT ![p] = Idle], S)
      PROVE  fetch' = [q \in Queries |-> fetch'[q]] /\ \A q \in Queries : Kept(fetch', q)
  <2>1. /\ [fetch EXCEPT ![p] = Idle][p] = Idle
        /\ \A q \in Queries \ {p} : [fetch EXCEPT ![p] = Idle][q] = fetch[q]
    BY <1>0, ChangedAt, Zenon
  <2>2. \A q \in Queries : [fetch EXCEPT ![p] = Idle][q] \in {fetch[q], Idle}
    BY <2>1
  <2> QED
    <3> DEFINE g == [fetch EXCEPT ![p] = Idle]
    <3>1. fetch' = Start(g, S) /\ \A q \in Queries : g[q] \in {fetch[q], Idle}
      BY <1>5, <2>2
    <3> HIDE DEF g
    <3>2. /\ Start(g, S) = [q \in Queries |-> Start(g, S)[q]]
          /\ \A q \in Queries : Start(g, S)[q] \in {g[q], Sent}
      BY <1>2
    <3> QED
      BY <1>3, <3>1, <3>2 DEF Kept
<1>6. ASSUME NEW q \in Queries, ServeFetch(q)
      PROVE  \/ \E v \in Shows(db, q) :
                  fetch' = [fetch EXCEPT ![q] = [at |-> "read", val |-> v, own |-> TRUE]]
             \/ fetch' = [fetch EXCEPT ![q] = [at |-> "error"]]
  BY <1>6 DEF ServeFetch
<1>7. ASSUME NEW o \in Ops, TakeMutation(o) \/ Settle(o)
      PROVE  \/ fetch' = fetch
             \/ \E R, S : fetch' = Start(Restart(fetch, R), S)
  BY <1>7 DEF TakeMutation, Settle, Settling
<1>8. CASE UNCHANGED fetch
  <2>1. \A q \in Queries : Kept(fetch', q)
    BY <1>8 DEF Kept
  <2> QED
    BY <1>0, <1>1, <1>8, <2>1
<1>9. ASSUME NEW q \in Queries, ServeFetch(q)
       PROVE  /\ fetch' = [p \in Queries |-> fetch'[p]]
              /\ \A p \in Queries : fetch'[p].at = "read" =>
                   /\ {"at", "val"} \subseteq DOMAIN fetch'[p]
                   /\ \/ fetch[p].at = "read" /\ fetch'[p].val = fetch[p].val
                      \/ fetch'[p].val \in Shows(db, p)
  <2>1. PICK s : /\ fetch' = [fetch EXCEPT ![q] = s]
                 /\ s.at = "read" => /\ {"at", "val"} \subseteq DOMAIN s
                                     /\ s.val \in Shows(db, q)
    <3>1. CASE fetch' = [fetch EXCEPT ![q] = [at |-> "error"]]
      <4> DEFINE s == [at |-> "error"]
      <4>1. s.at # "read"
        OBVIOUS
      <4> HIDE DEF s
      <4>2. fetch' = [fetch EXCEPT ![q] = s]
        BY <3>1 DEF s
      <4> QED
        BY <4>1, <4>2
    <3>2. ASSUME NEW v \in Shows(db, q), fetch' = [fetch EXCEPT ![q] = [at |-> "read", val |-> v, own |-> TRUE]]
          PROVE  \E s : /\ fetch' = [fetch EXCEPT ![q] = s]
                        /\ s.at = "read" => /\ {"at", "val"} \subseteq DOMAIN s
                                            /\ s.val \in Shows(db, q)
      <4> DEFINE s == [at |-> "read", val |-> v, own |-> TRUE]
      <4>1. {"at", "val"} \subseteq DOMAIN s /\ s.val \in Shows(db, q)
        OBVIOUS
      <4>2. fetch' = [fetch EXCEPT ![q] = s]
        BY <3>2
      <4> HIDE DEF s
      <4> QED
        BY <4>1, <4>2
    <3> QED
      BY <1>6, <1>9, <3>1, <3>2
  <2>2. /\ fetch' = [p \in Queries |-> fetch'[p]] /\ fetch'[q] = s
        /\ \A p \in Queries \ {q} : fetch'[p] = fetch[p]
    BY <1>0, <2>1, ChangedAt, Zenon
  <2> QED
    BY <1>0, <2>1, <2>2
<1>10. ASSUME NEW q \in Queries, TakeData(q) \/ TakeError(q)
       PROVE  fetch' = [p \in Queries |-> fetch'[p]] /\ \A p \in Queries : Kept(fetch', p)
  BY <1>5, <1>10 DEF TakeData, TakeError
<1>11. ASSUME NEW o \in Ops, ServeMutation(o)
       PROVE  /\ fetch' = [p \in Queries |-> fetch'[p]]
              /\ \A p \in Queries : fetch'[p].at = "read" =>
                   /\ {"at", "val"} \subseteq DOMAIN fetch'[p]
                   /\ fetch[p].at = "read" /\ fetch'[p].val = fetch[p].val
  <2>1. PICK seen : fetch' = [q \in Queries |->
                                IF q \in seen /\ fetch[q].at = "read"
                                THEN [fetch[q] EXCEPT !.own = FALSE] ELSE fetch[q]]
    BY <1>11, OvertakenAnswers
  <2>2. ASSUME NEW p \in Queries, fetch[p].at = "read"
        PROVE  {"at", "val"} \subseteq DOMAIN [fetch[p] EXCEPT !.own = FALSE]
               /\ [fetch[p] EXCEPT !.own = FALSE].val = fetch[p].val
    BY <1>0, <2>2, OwnLost
  <2> QED
    BY <1>0, <2>1, <2>2
<1>12. ASSUME NEW o \in Ops, TakeMutation(o) \/ Settle(o)
       PROVE  fetch' = [p \in Queries |-> fetch'[p]] /\ \A p \in Queries : Kept(fetch', p)
  <2>1. CASE fetch' = fetch
    BY <1>0, <2>1 DEF Kept
  <2>2. ASSUME NEW R, NEW S, fetch' = Start(Restart(fetch, R), S)
        PROVE  fetch' = [p \in Queries |-> fetch'[p]] /\ \A p \in Queries : Kept(fetch', p)
    BY <1>4, <2>2
  <2> QED
    BY <1>7, <1>12, <2>1, <2>2
<1>13. ASSUME Focus \/ Turn \/ \E q \in Polls : Poll(q)
       PROVE  fetch' = [p \in Queries |-> fetch'[p]] /\ \A p \in Queries : Kept(fetch', p)
  <2>1. \E S : fetch' = Start(fetch, S)
    BY <1>13 DEF Focus, Turn, Poll
  <2> QED
    BY <1>4, <2>1
<1>14. ASSUME \/ Other \/ \E o \in Ops : Click(o) PROVE UNCHANGED fetch
  BY <1>14 DEF Other, Click
<1> QED
  BY <1>1, <1>8, <1>9, <1>10, <1>11, <1>12, <1>13, <1>14 DEF Next, Answers

(* A page that is opened has the shape, and no answer yet. *)
LEMMA ShapedInit ==
  ASSUME NEW dbs, NEW uis, NEW d, d = [q \in Queries |-> d[q]],
         InitPage(dbs, uis, d) \/ InitLoaded(dbs, uis, d)
  PROVE  Shaped /\ \A q \in Queries : fetch[q].at # "read"
<1>1. Sent.at # "read" /\ Idle.at # "read" /\ None.at # "settling"
  BY DEF Sent, Idle, None
<1>2. data = [q \in Queries |-> data[q]] /\ pending = [o \in Ops |-> None]
  BY DEF InitPage, InitLoaded
<1>3. /\ fetch = [q \in Queries |-> fetch[q]]
      /\ \A q \in Queries : fetch[q] \in {Idle, Sent}
  BY DEF InitPage, InitLoaded
<1> QED
  BY <1>1, <1>2, <1>3 DEF Shaped

(* A page that has loaded shows what the services answered, or what it had  *)
(* where the query is not mounted or failed.                                *)
LEMMA LoadedData ==
  ASSUME NEW dbs, NEW uis, NEW d, InitLoaded(dbs, uis, d), NEW q \in Queries
  PROVE  /\ db \in dbs /\ ui \in uis
         /\ IF Active(ui, q) /\ Shows(db, q) # {} THEN data[q] \in Shows(db, q)
                                                ELSE data[q] = d[q]
<1>1. db \in dbs /\ ui \in uis
  BY DEF InitLoaded
<1>2. data[q] = IF Active(ui, q) /\ Shows(db, q) # {}
               THEN CHOOSE v \in Shows(db, q) : TRUE ELSE d[q]
  BY DEF InitLoaded
<1>3. Shows(db, q) # {} => (CHOOSE v \in Shows(db, q) : TRUE) \in Shows(db, q)
  OBVIOUS
<1> QED
  BY <1>1, <1>2, <1>3

(* The parts of a request that is started, or started again. *)
LEMMA Starting ==
  ASSUME NEW f, NEW S, NEW q \in Queries
  PROVE  /\ Start(f, S)[q] = IF q \in S /\ f[q] = Idle THEN Sent ELSE f[q]
         /\ Restart(f, S)[q] = IF q \in S THEN Sent ELSE f[q]
  BY DEF Start, Restart

(* A step of the requests of one query leaves those of the others. *)
LEMMA OneFetch ==
  ASSUME Shaped, NEW p \in Queries, NEW s, NEW q \in Queries
  PROVE  [fetch EXCEPT ![p] = s][q] = IF q = p THEN s ELSE fetch[q]
<1>1. fetch = [r \in Queries |-> fetch[r]]
  BY DEF Shaped
<1>2. /\ [fetch EXCEPT ![p] = s][p] = s
      /\ \A r \in Queries \ {p} : [fetch EXCEPT ![p] = s][r] = fetch[r]
  BY <1>1, ChangedAt, Zenon
<1> QED
  BY <1>2

LEMMA OnePending ==
  ASSUME Shaped, NEW p \in Ops, NEW s, NEW o \in Ops
  PROVE  [pending EXCEPT ![p] = s][o] = IF o = p THEN s ELSE pending[o]
<1>1. pending = [r \in Ops |-> pending[r]]
  BY DEF Shaped
<1>2. /\ [pending EXCEPT ![p] = s][p] = s
      /\ \A r \in Ops \ {p} : [pending EXCEPT ![p] = s][r] = pending[r]
  BY <1>1, ChangedAt, Zenon
<1> QED
  BY <1>2

(* Every step keeps the kinds of the requests. *)
LEMMA KindStep ==
  ASSUME Next, Shaped
  PROVE  /\ \A q \in Queries : fetch'[q] \in {Idle, Sent} \/ fetch'[q].at \in {"read", "error"}
         /\ \A o \in Ops : pending'[o].at = "settling" => pending'[o].k \in Nat
<1> DEFINE Kind(r) == r \in {Idle, Sent} \/ r.at \in {"read", "error"}
           Mark(r) == r.at = "settling" => r.k \in Nat
<1>0. /\ \A q \in Queries : Kind(fetch[q])
      /\ \A o \in Ops : Mark(pending[o])
  BY DEF Shaped
<1>1. Kind(Idle) /\ Kind(Sent) /\ Mark(None)
  BY DEF None
<1> HIDE DEF Kind, Mark
<1>2. ASSUME NEW f, \A q \in Queries : Kind(f[q]), NEW S, NEW T
      PROVE  \A q \in Queries : Kind(Start(f, S)[q]) /\ Kind(Start(Restart(f, T), S)[q])
  <2> SUFFICES ASSUME NEW q \in Queries
               PROVE  Kind(Start(f, S)[q]) /\ Kind(Start(Restart(f, T), S)[q])
    OBVIOUS
  <2>1. /\ Start(f, S)[q] \in {f[q], Sent}
        /\ Restart(f, T)[q] \in {f[q], Sent}
        /\ Start(Restart(f, T), S)[q] \in {Restart(f, T)[q], Sent}
    BY Starting
  <2> QED
    BY <1>1, <1>2, <2>1
<1>3. ASSUME NEW p \in Queries, NEW s, Kind(s)
      PROVE  \A q \in Queries : Kind([fetch EXCEPT ![p] = s][q])
  <2>1. \A q \in Queries : [fetch EXCEPT ![p] = s][q] \in {s, fetch[q]}
    BY OneFetch
  <2> QED
    BY <1>0, <1>3, <2>1
<1>4. ASSUME NEW p \in Ops, NEW s, Mark(s)
      PROVE  \A o \in Ops : Mark([pending EXCEPT ![p] = s][o])
  <2>1. \A o \in Ops : [pending EXCEPT ![p] = s][o] \in {s, pending[o]}
    BY OnePending
  <2> QED
    BY <1>0, <1>4, <2>1
<1>5. ASSUME NEW o \in Ops, NEW k \in Nat, Settling(o, k)
      PROVE  (\A q \in Queries : Kind(fetch'[q])) /\ (\A p \in Ops : Mark(pending'[p]))
  <2>1. Mark([at |-> "settling", k |-> k])
    BY DEF Mark
  <2>2. \/ pending' = [pending EXCEPT ![o] = None]
        \/ pending' = [pending EXCEPT ![o] = [at |-> "settling", k |-> k]]
    BY <1>5 DEF Settling
  <2>3. \E S, T : fetch' = Start(Restart(fetch, T), S)
    BY <1>5 DEF Settling
  <2> QED
    BY <1>0, <1>1, <1>2, <1>4, <2>1, <2>2, <2>3
<1>6. ASSUME NEW q \in Queries, ServeFetch(q)
      PROVE  (\A p \in Queries : Kind(fetch'[p])) /\ pending' = pending
  <2>1. \A v : Kind([at |-> "read", val |-> v, own |-> TRUE])
    BY DEF Kind
  <2>2. Kind([at |-> "error"])
    BY DEF Kind
  <2>3. /\ pending' = pending
        /\ \/ \E v : fetch' = [fetch EXCEPT ![q] = [at |-> "read", val |-> v, own |-> TRUE]]
           \/ fetch' = [fetch EXCEPT ![q] = [at |-> "error"]]
    BY <1>6 DEF ServeFetch
  <2> QED
    BY <1>3, <2>1, <2>2, <2>3
<1>7. ASSUME NEW q \in Queries, TakeData(q) \/ TakeError(q)
      PROVE  (\A p \in Queries : Kind(fetch'[p])) /\ pending' = pending
  <2>1. /\ pending' = pending
        /\ \E S : fetch' = Start([fetch EXCEPT ![q] = Idle], S)
    BY <1>7 DEF TakeData, TakeError
  <2> QED
    BY <1>1, <1>2, <1>3, <2>1
<1>8. ASSUME Focus \/ Turn \/ \E q \in Polls : Poll(q)
      PROVE  (\A p \in Queries : Kind(fetch'[p])) /\ pending' = pending
  <2>1. pending' = pending /\ \E S : fetch' = Start(fetch, S)
    BY <1>8 DEF Focus, Turn, Poll
  <2> QED
    BY <1>0, <1>2, <2>1
<1>9. ASSUME Other PROVE fetch' = fetch /\ pending' = pending
  BY <1>9 DEF Other
<1>10. ASSUME NEW o \in Ops, Click(o)
       PROVE  fetch' = fetch /\ \A p \in Ops : Mark(pending'[p])
  <2>1. \A a : Mark([at |-> "sent", arg |-> a])
    BY DEF Mark
  <2>2. /\ fetch' = fetch
        /\ \E a : pending' = [pending EXCEPT ![o] = [at |-> "sent", arg |-> a]]
    BY <1>10 DEF Click
  <2> QED
    BY <1>4, <2>1, <2>2
<1>11. ASSUME NEW o \in Ops, ServeMutation(o)
       PROVE  (\A q \in Queries : Kind(fetch'[q])) /\ (\A p \in Ops : Mark(pending'[p]))
  <2>1. \A a : a # "settling" => Mark([at |-> a])
    BY DEF Mark
  <2>2. \E a : a # "settling" /\ pending' = [pending EXCEPT ![o] = [at |-> a]]
    <3>1. PICK e : pending' = [pending EXCEPT ![o] = [at |-> IF e.ok THEN "ok" ELSE "refused"]]
      BY <1>11 DEF ServeMutation
    <3> DEFINE a == IF e.ok THEN "ok" ELSE "refused"
    <3>2. a # "settling" /\ pending' = [pending EXCEPT ![o] = [at |-> a]]
      BY <3>1
    <3> HIDE DEF a
    <3> QED
      BY <3>2
  <2>3. ASSUME NEW q \in Queries PROVE Kind(fetch'[q])
    <3> DEFINE late == [fetch[q] EXCEPT !.own = FALSE]
    <3>1. fetch'[q] = fetch[q] \/ (fetch[q].at = "read" /\ fetch'[q] = late)
      <4>1. PICK seen : fetch' = [p \in Queries |->
                                    IF p \in seen /\ fetch[p].at = "read"
                                    THEN [fetch[p] EXCEPT !.own = FALSE] ELSE fetch[p]]
        BY <1>11, OvertakenAnswers
      <4>2. fetch'[q] = IF q \in seen /\ fetch[q].at = "read" THEN late ELSE fetch[q]
        BY <4>1
      <4> HIDE DEF late
      <4>3. CASE q \in seen /\ fetch[q].at = "read"
        BY <4>2, <4>3
      <4>4. CASE ~ (q \in seen /\ fetch[q].at = "read")
        BY <4>2, <4>4
      <4> QED
        BY <4>3, <4>4
    <3>2. fetch[q].at = "read" => late.at = "read"
      BY OwnLost DEF Shaped
    <3> HIDE DEF late
    <3> QED
      BY <1>0, <3>1, <3>2 DEF Kind
  <2> QED
    BY <1>4, <2>1, <2>2, <2>3
<1>12. ASSUME NEW o \in Ops, TakeMutation(o) \/ Settle(o)
       PROVE  (\A q \in Queries : Kind(fetch'[q])) /\ (\A p \in Ops : Mark(pending'[p]))
  <2>1. CASE fetch' = fetch /\ pending' = [pending EXCEPT ![o] = None]
    BY <1>0, <1>1, <1>4, <2>1
  <2>2. \/ fetch' = fetch /\ pending' = [pending EXCEPT ![o] = None]
        \/ Settling(o, 1)
        \/ pending[o].at = "settling" /\ Settling(o, pending[o].k + 1)
    BY <1>12 DEF TakeMutation, Settle
  <2>3. pending[o].at = "settling" => pending[o].k + 1 \in Nat
    BY DEF Shaped
  <2> QED
    BY <1>5, <2>1, <2>2, <2>3
<1>13. (\A q \in Queries : Kind(fetch'[q])) /\ (\A o \in Ops : Mark(pending'[o]))
  BY <1>0, <1>6, <1>7, <1>8, <1>9, <1>10, <1>11, <1>12 DEF Next, Answers
<1> QED
  BY <1>13 DEF Kind, Mark

(* Every step keeps the shape. *)
LEMMA ShapedStep ==
  ASSUME Next, Shaped
  PROVE  Shaped'
<1>1. data = [q \in Queries |-> data[q]]
  BY DEF Shaped
<1>2. data' = data \/ \E q \in Queries : \E v : data' = [data EXCEPT ![q] = v]
  BY UiStep
<1>3. data' = [q \in Queries |-> data'[q]]
  BY <1>1, <1>2
<1>4. /\ fetch' = [q \in Queries |-> fetch'[q]]
      /\ \A q \in Queries : fetch'[q].at = "read" => {"at", "val"} \subseteq DOMAIN fetch'[q]
  BY AnswerStep
<1>5. pending' = [o \in Ops |-> pending'[o]]
  BY PendingStep
<1> QED
  BY <1>3, <1>4, <1>5, KindStep DEF Shaped

(* A request that is not touched stays at hand: a page that begins to        *)
(* display its query sends it.                                               *)
LEMMA StaysAtHand ==
  ASSUME NEW q \in Queries, AtHand(q), NEW f, f[q] = fetch[q],
         fetch' = Start(f, Mounted(ui, ui')),
         q \in failed => q \in failed'
  PROVE  AtHand(q)'
<1>1. fetch'[q] = IF q \in Mounted(ui, ui') /\ fetch[q] = Idle THEN Sent ELSE fetch[q]
  BY Starting
<1>2. Sent.at = "sent" /\ Idle.at = "idle"
  BY DEF Sent, Idle
<1>3. CASE fetch[q].at \in {"sent", "error"} \/ (fetch[q].at = "read" /\ fetch[q].own)
  BY <1>1, <1>2, <1>3 DEF AtHand
<1>4. CASE fetch[q] = Idle /\ (q \in failed \/ ~ Active(ui, q))
  <2>1. CASE q \in Mounted(ui, ui')
    BY <1>1, <1>2, <1>4, <2>1 DEF AtHand
  <2>2. CASE q \notin Mounted(ui, ui')
    <3>1. fetch'[q] = Idle
      BY <1>1, <1>4, <2>2
    <3>2. ~ Active(ui, q) => ~ Active(ui', q)
      BY <2>2 DEF Mounted, ActiveIn
    <3> QED
      BY <1>4, <3>1, <3>2 DEF AtHand
  <2> QED
    BY <2>1, <2>2
<1> QED
  BY <1>3, <1>4 DEF AtHand

(* What a mutation has still to invalidate does not depend on the other      *)
(* requests of the page.                                                     *)
LEMMA StillToCome ==
  ASSUME NEW o \in Ops, NEW q, ToCome(o, q),
         pending'[o] = pending[o], Invalidates(ui', o) = Invalidates(ui, o)
  PROVE  ToCome(o, q)'
  BY DEF ToCome

(* A query is displayed, or its request is not touched, while a mutation     *)
(* settles: then the query comes as before.                                  *)
LEMMA SettlingComes ==
  ASSUME Shaped, NEW q \in Queries, Coming(q), NEW o \in Ops, NEW k \in Nat, Settling(o, k),
         \/ pending[o].at = "ok" /\ k = 1
         \/ pending[o].at = "settling" /\ k = pending[o].k + 1,
         q \in owed', failed' = failed,
         Listed(Invalidates(ui, o)),
         \A p \in Ops : Invalidates(ui', p) = Invalidates(ui, p)
  PROVE  Coming(q)'
<1> DEFINE sets == Invalidates(ui, o)
           over == k > Len(sets)
           hit  == IF over THEN {} ELSE sets[k]
           next == [at |-> "settling", k |-> k]
           again == Restart(fetch, hit \cap ActiveIn(ui))
<1>0. \A s : [pending EXCEPT ![o] = s][o] = s
  BY ChangedAt, Zenon DEF Shaped
<1>1. /\ pending' = [pending EXCEPT ![o] = IF over THEN None ELSE next]
      /\ fetch' = Start(again, Mounted(ui, ui'))
      /\ q \notin hit \/ Active(ui, q) \/ ~ Late(q)
  BY DEF Settling
<1>2. /\ again[q] = IF q \in hit \cap ActiveIn(ui) THEN Sent ELSE fetch[q]
      /\ fetch'[q] = IF q \in Mounted(ui, ui') /\ again[q] = Idle THEN Sent ELSE again[q]
  BY <1>1, Starting
<1>3. CASE q \in hit /\ Active(ui, q)
  <2>1. fetch'[q] = Sent
    BY <1>2, <1>3 DEF ActiveIn
  <2> QED
    BY <2>1 DEF Coming, AtHand, Sent
<1>4. ~ (q \in hit /\ Active(ui, q)) => again[q] = fetch[q]
  BY <1>2 DEF ActiveIn
<1>5. ASSUME again[q] = fetch[q], AtHand(q) PROVE Coming(q)'
  <2> HIDE DEF again
  <2>1. AtHand(q)'
    BY <1>1, <1>5, StaysAtHand
  <2> QED
    BY <2>1 DEF Coming
<1>6. CASE q \in hit /\ ~ Active(ui, q)
  <2>1. AtHand(q)
    BY <1>1, <1>6 DEF Shaped, AtHand, Late, Sent
  <2> QED
    BY <1>4, <1>5, <1>6, <2>1
<1>7. CASE q \notin hit
  <2>1. PICK p \in Ops : AtHand(q) \/ ToCome(p, q)
    BY DEF Coming
  <2>2. CASE AtHand(q)
    BY <1>4, <1>5, <1>7, <2>2
  <2>3. CASE ToCome(p, q) /\ p # o
    <3>1. pending'[p] = pending[p]
      BY <1>1, <2>3, OnePending
    <3> QED
      BY <2>3, <3>1, StillToCome DEF Coming
  <2>4. CASE ToCome(p, q) /\ p = o
    <3>0. DOMAIN sets = 1 .. Len(sets) /\ Len(sets) \in Nat
      BY DEF Listed
    <3>1. PICK j \in 1 .. Len(sets) :
            /\ q \in sets[j]
            /\ pending[o].at = "ok" \/ (pending[o].at = "settling" /\ pending[o].k < j)
      BY <2>4, <3>0 DEF ToCome
    <3>2. k <= j /\ j <= Len(sets)
      BY <3>0, <3>1 DEF Shaped
    <3>3. ~ over /\ k < j
      BY <1>7, <3>0, <3>1, <3>2
    <3>4. pending'[o] = next
      <4>1. pending' = [pending EXCEPT ![o] = next]
        BY <1>1, <3>3
      <4> HIDE DEF next
      <4> QED
        BY <4>1, <1>0
    <3>5. pending'[o].at = "settling" /\ pending'[o].k < j
      BY <3>3, <3>4
    <3>6. j \in DOMAIN Invalidates(ui', o) /\ q \in Invalidates(ui', o)[j]
      BY <3>0, <3>1
    <3> QED
      BY <3>5, <3>6 DEF Coming, ToCome
  <2> QED
    BY <2>1, <2>2, <2>3, <2>4
<1> QED
  BY <1>3, <1>6, <1>7

(* The service answers a mutation: what it changed will be invalidated, or    *)
(* was missed.                                                               *)
LEMMA ServedComes ==
  ASSUME Shaped, NEW q \in Queries, q \in owed => Coming(q), NEW o \in Ops, ServeMutation(o),
         Invalidates(ui', o) = Invalidates(ui, o), q \in owed'
  PROVE  Coming(q)' \/ Missed(q)
<1>1. PICK e \in Effects(db, o, pending[o].arg) \cup {[db |-> db, ok |-> FALSE]} :
        LET seen == IF e.ok THEN {p \in Queries : Shows(e.db, p) # Shows(db, p)} ELSE {}
        IN /\ db' = e.db
           /\ pending' = [pending EXCEPT ![o] = [at |-> IF e.ok THEN "ok" ELSE "refused"]]
           /\ owed' = owed \cup seen
           /\ fetch' = [p \in Queries |->
                          IF p \in seen /\ fetch[p].at = "read"
                          THEN [fetch[p] EXCEPT !.own = FALSE] ELSE fetch[p]]
  BY DEF ServeMutation
<1>2. pending[o].at = "sent" /\ ui' = ui /\ failed' = failed
  BY DEF ServeMutation
<1> DEFINE seen == IF e.ok THEN {p \in Queries : Shows(e.db, p) # Shows(db, p)} ELSE {}
           served == [at |-> IF e.ok THEN "ok" ELSE "refused"]
<1>3. /\ q \in owed \/ q \in seen
      /\ ~ (q \in seen /\ fetch[q].at = "read") => fetch'[q] = fetch[q]
  BY <1>1
<1>4. /\ pending'[o] = served
      /\ \A p \in Ops \ {o} : pending'[p] = pending[p]
  <2>1. pending' = [pending EXCEPT ![o] = served]
    BY <1>1
  <2> HIDE DEF served
  <2> QED
    BY <2>1, ChangedAt, Zenon DEF Shaped
<1>5. ASSUME fetch'[q] = fetch[q], AtHand(q) PROVE Coming(q)'
  BY <1>2, <1>5 DEF Coming, AtHand
<1>6. CASE q \in seen
  <2>0. e.ok /\ Shows(e.db, q) # Shows(db, q)
    BY <1>6
  <2>1. /\ pending' = [pending EXCEPT ![o] = [at |-> "ok"]]
        /\ pending'[o].at = "ok"
    <3>1. served = [at |-> "ok"] /\ served.at = "ok"
      BY <2>0
    <3>2. pending' = [pending EXCEPT ![o] = served]
      BY <1>1
    <3> HIDE DEF served
    <3> QED
      BY <1>4, <3>1, <3>2
  <2>2. e \in Effects(db, o, pending[o].arg)
    BY <2>0
  <2>3. CASE \E k \in DOMAIN Invalidates(ui, o) : q \in Invalidates(ui, o)[k]
    BY <2>1, <2>3 DEF Coming, ToCome
  <2>4. CASE ~ (\E k \in DOMAIN Invalidates(ui, o) : q \in Invalidates(ui, o)[k])
    <3>1. CASE Active(ui, q) \/ fetch[q].at = "read"
      BY <1>1, <1>2, <2>0, <2>1, <2>2, <2>4, <3>1 DEF Missed
    <3>2. CASE ~ Active(ui, q) /\ fetch[q].at # "read"
      <4>1. AtHand(q)
        BY <3>2 DEF Shaped, AtHand, Sent
      <4> QED
        BY <1>3, <1>5, <3>2, <4>1
    <3> QED
      BY <3>1, <3>2
  <2> QED
    BY <2>3, <2>4
<1>7. CASE q \notin seen
  <2>1. fetch'[q] = fetch[q] /\ Coming(q)
    BY <1>3, <1>7
  <2>2. ASSUME NEW p \in Ops, ToCome(p, q) PROVE Coming(q)'
    <3>1. p # o
      BY <1>2, <2>2 DEF ToCome
    <3>2. ToCome(p, q)'
      BY <1>2, <1>4, <2>2, <3>1, StillToCome
    <3> QED
      BY <3>2 DEF Coming
  <2> QED
    BY <1>5, <2>1, <2>2 DEF Coming
<1> QED
  BY <1>6, <1>7

(* Every step of a page keeps what it owes coming, unless it is missed.      *)
LEMMA ComingStep ==
  ASSUME Next, Shaped, NEW q \in Queries, q \in owed => Coming(q), q \in owed',
         \A o \in Ops : /\ Listed(Invalidates(ui, o))
                        /\ Invalidates(ui', o) = Invalidates(ui, o)
                        /\ Active(After(ui, o, "click"), q) => Active(ui, q)
  PROVE  Coming(q)' \/ Missed(q)
<1>0. Idle.at = "idle" /\ Sent.at = "sent" /\ None.at = "none"
  BY DEF Idle, Sent, None
<1>1. ASSUME Coming(q), pending' = pending, AtHand(q) => AtHand(q)' PROVE Coming(q)'
  <2>1. \A o \in Ops : ToCome(o, q) => ToCome(o, q)'
    BY <1>1 DEF ToCome
  <2> QED
    BY <1>1, <2>1 DEF Coming
<1>2. ASSUME NEW p \in Queries, ServeFetch(p) PROVE Coming(q)'
  <2>1. /\ ui' = ui /\ failed' = failed /\ pending' = pending /\ owed' = owed
        /\ \/ \E v : fetch' = [fetch EXCEPT ![p] = [at |-> "read", val |-> v, own |-> TRUE]]
           \/ fetch' = [fetch EXCEPT ![p] = [at |-> "error"]]
    BY <1>2 DEF ServeFetch
  <2>2. CASE p = q
    <3>0. \A s : [fetch EXCEPT ![q] = s][q] = s
      BY ChangedAt, Zenon DEF Shaped
    <3>1. \E s : /\ fetch' = [fetch EXCEPT ![q] = s]
                 /\ s.at = "error" \/ (s.at = "read" /\ s.own)
      <4>1. /\ [at |-> "error"].at = "error"
            /\ \A v : /\ [at |-> "read", val |-> v, own |-> TRUE].at = "read"
                      /\ [at |-> "read", val |-> v, own |-> TRUE].own
        OBVIOUS
      <4> QED
        BY <2>1, <2>2, <4>1, Zenon
    <3> QED
      BY <3>0, <3>1 DEF Coming, AtHand
  <2>3. CASE p # q
    <3>1. fetch'[q] = fetch[q]
      BY <2>1, <2>3 DEF Shaped
    <3> QED
      BY <1>1, <2>1, <3>1 DEF AtHand
  <2> QED
    BY <2>2, <2>3
<1>3. ASSUME NEW p \in Queries, TakeData(p) PROVE Coming(q)'
  <2>1. /\ fetch[p].at = "read" /\ pending' = pending
        /\ owed' = IF fetch[p].own THEN owed \ {p} ELSE owed
        /\ failed' = failed \ {p}
        /\ fetch' = Start([fetch EXCEPT ![p] = Idle], Mounted(ui, ui'))
    BY <1>3 DEF TakeData
  <2>2. CASE p = q
    <3>1. q \in owed /\ ~ AtHand(q)
      BY <1>0, <2>1, <2>2 DEF AtHand
    <3> QED
      BY <1>1, <2>1, <3>1
  <2>3. CASE p # q
    <3>1. [fetch EXCEPT ![p] = Idle][q] = fetch[q]
      BY <2>3, OneFetch
    <3>2. AtHand(q) => AtHand(q)'
      BY <2>1, <2>3, <3>1, StaysAtHand
    <3> QED
      BY <1>1, <2>1, <3>2
  <2> QED
    BY <2>2, <2>3
<1>4. ASSUME NEW p \in Queries, TakeError(p) PROVE Coming(q)'
  <2>1. /\ pending' = pending /\ owed' = owed /\ failed' = failed \cup {p}
        /\ fetch' = Start([fetch EXCEPT ![p] = Idle], Mounted(ui, ui'))
    BY <1>4 DEF TakeError
  <2>2. CASE p = q
    <3>1. [fetch EXCEPT ![p] = Idle][q] = Idle
      BY <2>2, ChangedAt, Zenon DEF Shaped
    <3>2. fetch'[q] \in {Idle, Sent}
      <4> DEFINE f == [fetch EXCEPT ![p] = Idle]
      <4>1. f[q] = Idle /\ fetch' = Start(f, Mounted(ui, ui'))
        BY <2>1, <3>1
      <4> HIDE DEF f
      <4> QED
        BY <4>1, Starting
    <3> QED
      BY <1>0, <2>1, <2>2, <3>2 DEF Coming, AtHand
  <2>3. CASE p # q
    <3>1. [fetch EXCEPT ![p] = Idle][q] = fetch[q]
      BY <2>3, OneFetch
    <3>2. AtHand(q) => AtHand(q)'
      BY <2>1, <3>1, StaysAtHand
    <3> QED
      BY <1>1, <2>1, <3>2
  <2> QED
    BY <2>2, <2>3
<1>5. ASSUME Focus \/ Other \/ \E p \in Polls : Poll(p) PROVE Coming(q)'
  <2>1. /\ ui' = ui /\ failed' = failed /\ pending' = pending /\ owed' = owed
        /\ fetch' = fetch \/ \E S : fetch' = Start(fetch, S)
    BY <1>5 DEF Focus, Other, Poll
  <2>2. fetch'[q] \in {fetch[q], Sent}
    BY <2>1, Starting
  <2>3. AtHand(q) => AtHand(q)'
    BY <1>0, <2>1, <2>2 DEF AtHand
  <2> QED
    BY <1>1, <2>1, <2>3
<1>6. ASSUME Turn PROVE Coming(q)'
  <2>1. /\ pending' = pending /\ owed' = owed /\ failed' = failed
        /\ fetch' = Start(fetch, Mounted(ui, ui'))
    BY <1>6 DEF Turn
  <2>2. AtHand(q) => AtHand(q)'
    BY <2>1, StaysAtHand
  <2> QED
    BY <1>1, <2>1, <2>2
<1>7. ASSUME NEW o \in Ops, Click(o) PROVE Coming(q)'
  <2>1. /\ pending[o] = None /\ ui' = After(ui, o, "click")
        /\ fetch' = fetch /\ failed' = failed /\ owed' = owed
        /\ \E s : pending' = [pending EXCEPT ![o] = s]
    BY <1>7 DEF Click
  <2>2. \A p \in Ops \ {o} : pending'[p] = pending[p]
    BY <2>1, OnePending
  <2>3. CASE AtHand(q)
    BY <2>1, <2>3 DEF Coming, AtHand
  <2>4. ASSUME NEW p \in Ops, ToCome(p, q) PROVE Coming(q)'
    <3>1. p # o
      BY <1>0, <2>1, <2>4 DEF ToCome
    <3>2. ToCome(p, q)'
      BY <2>2, <2>4, <3>1, StillToCome
    <3> QED
      BY <3>2 DEF Coming
  <2> QED
    BY <2>1, <2>3, <2>4 DEF Coming
<1>8. ASSUME NEW o \in Ops, ServeMutation(o) PROVE Coming(q)' \/ Missed(q)
  BY <1>8, ServedComes
<1>9. ASSUME NEW o \in Ops, TakeMutation(o) \/ Settle(o) PROVE Coming(q)'
  <2>0. failed' = failed
    BY <1>9 DEF TakeMutation, Settle
  <2>1. CASE pending[o].at = "refused" /\ ui' = ui /\ fetch' = fetch /\ owed' = owed
             /\ pending' = [pending EXCEPT ![o] = None]
    <3>1. \A p \in Ops \ {o} : pending'[p] = pending[p]
      BY <2>1, OnePending
    <3>2. AtHand(q) => AtHand(q)'
      BY <2>0, <2>1 DEF AtHand
    <3>3. \A p \in Ops : ToCome(p, q) => ToCome(p, q)'
      BY <2>1, <3>1 DEF ToCome
    <3> QED
      BY <2>1, <3>2, <3>3 DEF Coming
  <2>2. ASSUME NEW k \in Nat, Settling(o, k),
               \/ pending[o].at = "ok" /\ k = 1
               \/ pending[o].at = "settling" /\ k = pending[o].k + 1
        PROVE  Coming(q)'
    <3>1. q \in owed
      BY <2>2 DEF Settling
    <3> QED
      BY <2>0, <2>2, <3>1, SettlingComes
  <2>3. \/ /\ pending[o].at = "refused" /\ ui' = ui /\ fetch' = fetch /\ owed' = owed
           /\ pending' = [pending EXCEPT ![o] = None]
        \/ pending[o].at = "ok" /\ Settling(o, 1)
        \/ pending[o].at = "settling" /\ Settling(o, pending[o].k + 1)
    BY <1>9 DEF TakeMutation, Settle
  <2>4. pending[o].at = "settling" => pending[o].k + 1 \in Nat
    BY DEF Shaped
  <2> QED
    BY <2>1, <2>2, <2>3, <2>4
<1> QED
  BY <1>2, <1>3, <1>4, <1>5, <1>6, <1>7, <1>8, <1>9 DEF Next, Answers

(* How one mutation goes on: clicked, served, taken, settled.                *)
LEMMA MutationStep ==
  ASSUME Next, Shaped, NEW o \in Ops
  PROVE  \/ pending'[o] = pending[o]
         \/ /\ pending[o] = None /\ pending'[o].at = "sent" /\ db' = db
            /\ Offered(ui, data, failed, pending, o) /\ ui' = After(ui, o, "click")
         \/ /\ pending[o].at = "sent" /\ pending'[o].at \in {"ok", "refused"} /\ ui' = ui
            /\ pending'[o].at = "ok" =>
                 \E e \in Effects(db, o, pending[o].arg) : e.ok /\ db' = e.db
         \/ pending[o].at = "refused" /\ pending'[o] = None /\ ui' = ui
         \/ pending[o].at = "ok" /\ Settling(o, 1) /\ db' = db
         \/ pending[o].at = "settling" /\ Settling(o, pending[o].k + 1) /\ db' = db
<1>1. ASSUME NEW p \in Ops, NEW s, pending' = [pending EXCEPT ![p] = s]
      PROVE  pending'[o] = IF o = p THEN s ELSE pending[o]
  BY <1>1, OnePending
<1>2. ASSUME UNCHANGED pending \/ \E p \in Ops \ {o} : \E s : pending' = [pending EXCEPT ![p] = s]
      PROVE  pending'[o] = pending[o]
  BY <1>1, <1>2
<1>3. ASSUME NEW p \in Ops, Click(p) \/ ServeMutation(p) \/ TakeMutation(p) \/ Settle(p)
      PROVE  \E s : pending' = [pending EXCEPT ![p] = s]
  BY <1>3 DEF Click, ServeMutation, TakeMutation, Settle, Settling
<1>4. CASE Click(o)
  <2> DEFINE s == [at |-> "sent", arg |-> Arg(ui, data, o)]
  <2>1. /\ pending[o] = None /\ Offered(ui, data, failed, pending, o)
        /\ ui' = After(ui, o, "click") /\ pending' = [pending EXCEPT ![o] = s] /\ db' = db
    BY <1>4 DEF Click
  <2>2. s.at = "sent"
    OBVIOUS
  <2> HIDE DEF s
  <2> QED
    BY <1>1, <2>1, <2>2
<1>5. CASE ServeMutation(o)
  <2>1. PICK e \in Effects(db, o, pending[o].arg) \cup {[db |-> db, ok |-> FALSE]} :
          /\ db' = e.db
          /\ pending' = [pending EXCEPT ![o] = [at |-> IF e.ok THEN "ok" ELSE "refused"]]
    BY <1>5 DEF ServeMutation
  <2> DEFINE s == [at |-> IF e.ok THEN "ok" ELSE "refused"]
  <2>2. s.at \in {"ok", "refused"} /\ (s.at = "ok" => e.ok)
    OBVIOUS
  <2>3. pending'[o] = s
    <3>1. pending' = [pending EXCEPT ![o] = s]
      BY <2>1
    <3> HIDE DEF s
    <3> QED
      BY <1>1, <3>1
  <2>4. pending[o].at = "sent" /\ ui' = ui
    BY <1>5 DEF ServeMutation
  <2>5. e.ok => e \in Effects(db, o, pending[o].arg)
    OBVIOUS
  <2> HIDE DEF s
  <2> QED
    BY <2>1, <2>2, <2>3, <2>4, <2>5
<1>6. CASE TakeMutation(o) \/ Settle(o)
  BY <1>1, <1>6 DEF TakeMutation, Settle
<1>7. ASSUME \/ \E q \in Queries : ServeFetch(q) \/ TakeData(q) \/ TakeError(q)
             \/ Focus \/ Other \/ Turn \/ \E q \in Polls : Poll(q)
      PROVE  UNCHANGED pending
  BY <1>7 DEF ServeFetch, TakeData, TakeError, Focus, Other, Turn, Poll
<1>8. ASSUME NEW p \in Ops, Click(p) \/ ServeMutation(p) \/ TakeMutation(p) \/ Settle(p), p # o
      PROVE  pending'[o] = pending[o]
  BY <1>2, <1>3, <1>8
<1> QED
  BY <1>2, <1>4, <1>5, <1>6, <1>7, <1>8 DEF Next, Answers

(* What settling one set does to the mutation and to the components.         *)
LEMMA SettlingStep ==
  ASSUME Shaped, NEW o \in Ops, NEW k, Settling(o, k)
  PROVE  IF k > Len(Invalidates(ui, o))
         THEN /\ pending'[o] = None
              /\ \E u \in {ui, After(ui, o, "ok")} :
                   ui' = After(u, o, "done") /\ (k = 1 => u = After(ui, o, "ok"))
         ELSE /\ pending'[o] = [at |-> "settling", k |-> k]
              /\ ui' = IF k = 1 THEN After(ui, o, "ok") ELSE ui
<1> DEFINE then == [at |-> "settling", k |-> k]
<1>0. \A s : [pending EXCEPT ![o] = s][o] = s
  BY ChangedAt, Zenon DEF Shaped
<1>1. pending' = [pending EXCEPT ![o] = IF k > Len(Invalidates(ui, o)) THEN None ELSE then]
  BY DEF Settling
<1>2. pending'[o] = IF k > Len(Invalidates(ui, o)) THEN None ELSE then
  <2> HIDE DEF then
  <2> QED
    BY <1>0, <1>1
<1>3. ui' = IF k > Len(Invalidates(ui, o))
            THEN After(IF k = 1 THEN After(ui, o, "ok") ELSE ui, o, "done")
            ELSE IF k = 1 THEN After(ui, o, "ok") ELSE ui
  BY DEF Settling
<1> QED
  BY <1>2, <1>3

(* What changes the components of a page: data, an error, a gesture, or a     *)
(* mutation that is clicked, taken, or over.                                  *)
LEMMA PageStep ==
  ASSUME Next, Shaped
  PROVE  \/ ui' = ui
         \/ \E q \in Queries : ui' = Sync(ui, data, data', q)
         \/ \E q \in Queries : ui' = OnError(ui, q)
         \/ ui' \in Turns(ui, data, pending)
         \/ \E o \in Ops : ui' = After(ui, o, "click")
         \/ \E o \in Ops : /\ pending[o].at \in {"ok", "settling"} /\ db' = db
                           /\ \/ ui' = After(ui, o, "ok")
                              \/ /\ pending'[o] = None
                                 /\ \E u \in {ui, After(ui, o, "ok")} : ui' = After(u, o, "done")
<1>1. ASSUME \E q \in Queries : ServeFetch(q) \/ TakeData(q) \/ TakeError(q)
      PROVE  \/ ui' = ui
             \/ \E q \in Queries : ui' = Sync(ui, data, data', q)
             \/ \E q \in Queries : ui' = OnError(ui, q)
  BY <1>1 DEF ServeFetch, TakeData, TakeError
<1>2. ASSUME \/ Focus \/ Other \/ Turn \/ \E q \in Polls : Poll(q)
             \/ \E o \in Ops : ServeMutation(o) \/ Click(o)
      PROVE  \/ ui' = ui \/ ui' \in Turns(ui, data, pending)
             \/ \E o \in Ops : ui' = After(ui, o, "click")
  BY <1>2 DEF Focus, Other, Turn, Poll, ServeMutation, Click
<1>3. ASSUME NEW o \in Ops, TakeMutation(o) \/ Settle(o)
      PROVE  \/ ui' = ui
             \/ /\ pending[o].at \in {"ok", "settling"} /\ db' = db
                /\ \E k : Settling(o, k)
  BY <1>3 DEF TakeMutation, Settle
<1>4. ASSUME NEW o \in Ops, NEW k, Settling(o, k)
      PROVE  \/ ui' = ui
             \/ ui' = After(ui, o, "ok")
             \/ pending'[o] = None /\ \E u \in {ui, After(ui, o, "ok")} : ui' = After(u, o, "done")
  BY <1>4, SettlingStep
<1> QED
  BY <1>1, <1>2, <1>3, <1>4 DEF Next, Answers

(* A query that is displayed when a mutation is over is fetched.              *)
LEMMA NowFetched ==
  ASSUME Shaped, NEW o \in Ops, NEW k, Settling(o, k), NEW q \in Queries,
         fetch[q] = Idle, ~ Active(ui, q), Active(ui', q)
  PROVE  fetch'[q] = Sent
<1>1. \E S : fetch' = Start(Restart(fetch, S \cap ActiveIn(ui)), Mounted(ui, ui'))
  BY DEF Settling
<1>2. q \in Mounted(ui, ui') /\ q \notin ActiveIn(ui)
  BY DEF Mounted, ActiveIn
<1>3. \A S : Restart(fetch, S \cap ActiveIn(ui))[q] = Idle
  BY <1>2, Starting
<1> QED
  BY <1>1, <1>2, <1>3, Starting

(* A query that is not displayed is not fetched.                              *)
LEMMA StaysIdle ==
  ASSUME Next, Shaped, NEW q \in Queries, fetch[q] = Idle, ~ Active(ui, q), ~ Active(ui', q)
  PROVE  fetch'[q] = Idle
<1>0. Idle # Sent /\ Idle.at = "idle"
  BY DEF Idle, Sent
<1>1. q \notin Mounted(ui, ui') /\ q \notin ActiveIn(ui)
  BY DEF Mounted, ActiveIn
<1>2. ASSUME NEW f, f[q] = Idle, fetch' = Start(f, Mounted(ui, ui')) \/ fetch' = Start(f, ActiveIn(ui))
      PROVE  fetch'[q] = Idle
  BY <1>1, <1>2, Starting
<1>3. ASSUME NEW p \in Queries, ServeFetch(p) PROVE fetch'[q] = Idle
  <2>1. p # q /\ \E s : fetch' = [fetch EXCEPT ![p] = s]
    BY <1>0, <1>3 DEF ServeFetch
  <2> QED
    BY <2>1, OneFetch
<1>4. ASSUME NEW p \in Queries, TakeData(p) \/ TakeError(p) PROVE fetch'[q] = Idle
  <2>1. fetch' = Start([fetch EXCEPT ![p] = Idle], Mounted(ui, ui'))
    BY <1>4 DEF TakeData, TakeError
  <2>2. [fetch EXCEPT ![p] = Idle][q] = Idle
    BY ChangedAt, Zenon DEF Shaped
  <2> QED
    BY <1>2, <2>1, <2>2
<1>5. CASE Focus \/ Turn
  BY <1>2, <1>5 DEF Focus, Turn
<1>6. ASSUME NEW p \in Polls, Poll(p) PROVE fetch'[q] = Idle
  <2>1. p # q /\ fetch' = Start(fetch, {p})
    BY <1>6 DEF Poll
  <2> QED
    BY <2>1, Starting
<1>7. CASE Other \/ \E o \in Ops : Click(o)
  BY <1>7 DEF Other, Click
<1>8. ASSUME NEW o \in Ops, ServeMutation(o) PROVE fetch'[q] = Idle
  <2>1. PICK seen : fetch' = [p \in Queries |->
                                IF p \in seen /\ fetch[p].at = "read"
                                THEN [fetch[p] EXCEPT !.own = FALSE] ELSE fetch[p]]
    BY <1>8, OvertakenAnswers
  <2> QED
    BY <1>0, <2>1
<1>9. ASSUME NEW o \in Ops, TakeMutation(o) \/ Settle(o) PROVE fetch'[q] = Idle
  <2>1. ASSUME NEW k, Settling(o, k) PROVE fetch'[q] = Idle
    <3>1. \E S : fetch' = Start(Restart(fetch, S \cap ActiveIn(ui)), Mounted(ui, ui'))
      BY <2>1 DEF Settling
    <3>2. \A S : Restart(fetch, S \cap ActiveIn(ui))[q] = Idle
      BY <1>1, Starting
    <3> QED
      BY <1>2, <3>1, <3>2
  <2> QED
    BY <1>9, <2>1 DEF TakeMutation, Settle
<1> QED
  BY <1>3, <1>4, <1>5, <1>6, <1>7, <1>8, <1>9 DEF Next, Answers

(* At rest, a query that is displayed and due has failed.                     *)
LEMMA RestingDue ==
  ASSUME NEW D, Quiet, \A q \in D : Active(ui, q) /\ q \in owed => Coming(q)
  PROVE  NothingOwed(D)
<1> SUFFICES ASSUME NEW q \in D, q \in owed, q \in Queries, Active(ui, q), ~ (q \in failed)
             PROVE  FALSE
  BY DEF NothingOwed, ActiveIn
<1>1. Idle.at = "idle" /\ None.at = "none"
  BY DEF Idle, None
<1>2. fetch[q] = Idle /\ \A o \in Ops : pending[o] = None
  BY DEF Quiet
<1> QED
  BY <1>1, <1>2 DEF Coming, AtHand, ToCome
==============================================================================
