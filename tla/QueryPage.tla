----------------------------- MODULE QueryPage -----------------------------
(***************************************************************************)
(* A page of the web application over the services, as the library it uses  *)
(* for requests (TanStack Query) runs it.  The page says which queries are   *)
(* mounted, what the services answer, which buttons it offers, what a click  *)
(* changes and which queries its success invalidates; those are parameters.  *)
(*                                                                           *)
(* Every request is two steps, the service answering and the page taking the *)
(* answer, so that other people change the data in between.  Nothing here    *)
(* ever goes stale by itself: staleTime is 0, a query fetches when it is     *)
(* mounted or enabled, and retry is off.                                     *)
(***************************************************************************)
EXTENDS Naturals, Sequences

CONSTANTS
    Queries, Ops,          \* the queries of the page, its mutations
    Active(_, _),          \* ui, query: mounted and enabled
    Shows(_, _),           \* db, query: what the service may answer, {}: an error
    Left(_, _),            \* data, query: what the page may have after an error
    Offered(_, _, _, _, _),  \* ui, data, failed, pending, op: an enabled button
    Arg(_, _, _),          \* ui, data, op: what the click sends
    Effects(_, _, _),      \* db, op, arg: outcomes [db, ok] at the service
    Invalidates(_, _),     \* ui, op: the queries invalidated, one set after another
    After(_, _, _),        \* ui, op, "click" | "ok" | "done": the state of the page
    Sync(_, _, _, _),      \* ui, old and new data, query: effects of new data
    OnError(_, _),         \* ui, query: the same for an error
    Turns(_, _, _),        \* ui, data, pending: states one gesture or timer away
    Others(_),             \* db: what everybody else does
    Polls,                 \* queries with a refetchInterval
    MaxSteps               \* bound: clicks, failures, steps of the others

VARIABLES
    db,        \* what the services keep
    ui,        \* the state of the components, ui.page is the route
    data,      \* per query: the last answer taken
    fetch,     \* per query: its request
    failed,    \* queries whose last request failed (isError)
    pending,   \* per mutation: its request, and the refetches it waits for
    owed,      \* queries that have to bring an accepted change of this page
    steps

vars == <<db, ui, data, fetch, failed, pending, owed, steps>>

Idle == [at |-> "idle"]
Sent == [at |-> "sent"]
None == [at |-> "none"]

ActiveIn(u) == {q \in Queries : Active(u, q)}
Mounted(u, v) == IF u.page = v.page THEN ActiveIn(v) \ ActiveIn(u) ELSE ActiveIn(v)

\* A query that is fetching is left alone, or cancelled and fetched again.
Start(f, Q)   == [q \in Queries |-> IF q \in Q /\ f[q] = Idle THEN Sent ELSE f[q]]
Restart(f, Q) == [q \in Queries |-> IF q \in Q THEN Sent ELSE f[q]]

InitPage(dbs, uis, d) ==
    /\ db \in dbs /\ ui \in uis /\ data = d
    /\ fetch = [q \in Queries |-> IF Active(ui, q) THEN Sent ELSE Idle]
    /\ failed = {} /\ owed = {}
    /\ pending = [o \in Ops |-> None]
    /\ steps = 0

\* The page has loaded.
InitLoaded(dbs, uis, d) ==
    /\ db \in dbs /\ ui \in uis
    /\ data = [q \in Queries |-> IF Active(ui, q) /\ Shows(db, q) # {}
                                THEN CHOOSE v \in Shows(db, q) : TRUE ELSE d[q]]
    /\ failed = {q \in ActiveIn(ui) : Shows(db, q) = {}}
    /\ fetch = [q \in Queries |-> Idle]
    /\ owed = {} /\ steps = 0
    /\ pending = [o \in Ops |-> None]

Step == steps < MaxSteps /\ steps' = steps + 1

-----------------------------------------------------------------------------
ServeFetch(q) ==
    /\ fetch[q] = Sent
    /\ \/ /\ \E v \in Shows(db, q) :
                fetch' = [fetch EXCEPT ![q] = [at |-> "read", val |-> v, own |-> TRUE]]
          /\ UNCHANGED steps
       \/ /\ fetch' = [fetch EXCEPT ![q] = [at |-> "error"]]
          /\ IF Shows(db, q) = {} THEN UNCHANGED steps ELSE Step
    /\ UNCHANGED <<db, ui, data, failed, pending, owed>>

TakeData(q) ==
    /\ fetch[q].at = "read"
    /\ data' = [data EXCEPT ![q] = fetch[q].val]
    /\ owed' = IF fetch[q].own THEN owed \ {q} ELSE owed
    /\ failed' = failed \ {q}
    /\ ui' = Sync(ui, data, data', q)
    /\ fetch' = Start([fetch EXCEPT ![q] = Idle], Mounted(ui, ui'))
    /\ UNCHANGED <<db, pending, steps>>

TakeError(q) ==
    /\ fetch[q].at = "error"
    /\ \E v \in Left(data, q) : data' = [data EXCEPT ![q] = v]
    /\ failed' = failed \cup {q}
    /\ ui' = OnError(ui, q)
    /\ fetch' = Start([fetch EXCEPT ![q] = Idle], Mounted(ui, ui'))
    /\ UNCHANGED <<db, pending, owed, steps>>

\* The window gets the focus: mounted queries fetch.
Focus ==
    /\ Step
    /\ fetch' = Start(fetch, ActiveIn(ui))
    /\ UNCHANGED <<db, ui, data, failed, pending, owed>>

Poll(q) ==
    /\ Active(ui, q) /\ fetch[q] = Idle
    /\ fetch' = Start(fetch, {q})
    /\ UNCHANGED <<db, ui, data, failed, pending, owed, steps>>

-----------------------------------------------------------------------------
Click(o) ==
    /\ Step
    /\ pending[o] = None /\ Offered(ui, data, failed, pending, o)
    /\ pending' = [pending EXCEPT ![o] = [at |-> "sent", arg |-> Arg(ui, data, o)]]
    /\ ui' = After(ui, o, "click")
    /\ UNCHANGED <<db, data, fetch, failed, owed>>

\* The service answers.  A change it accepts is owed by every query it shows in,
\* and an answer already on its way does not have it.
ServeMutation(o) ==
    /\ pending[o].at = "sent"
    /\ \E e \in Effects(db, o, pending[o].arg) \cup {[db |-> db, ok |-> FALSE]} :
         LET seen == IF e.ok THEN {q \in Queries : Shows(e.db, q) # Shows(db, q)} ELSE {}
         IN /\ db' = e.db
            /\ pending' = [pending EXCEPT ![o] = [at |-> IF e.ok THEN "ok" ELSE "refused"]]
            /\ owed' = owed \cup seen
            /\ fetch' = [q \in Queries |->
                           IF q \in seen /\ fetch[q].at = "read"
                           THEN [fetch[q] EXCEPT !.own = FALSE] ELSE fetch[q]]
    /\ UNCHANGED <<ui, data, failed, steps>>

\* The k-th set is invalidated: its mounted queries fetch again.  One that is not
\* mounted and has an old answer on its way is not fetched again, and its
\* answer, when it comes, passes for new; it owes nothing.  After the last set
\* the mutation is over.
Late(q) == fetch[q].at = "read" /\ ~fetch[q].own
Settling(o, k) ==
    LET sets == Invalidates(ui, o)
        over == k > Len(sets)
        hit  == IF over THEN {} ELSE sets[k]
        begun == IF k = 1 THEN After(ui, o, "ok") ELSE ui
    IN /\ ui' = IF over THEN After(begun, o, "done") ELSE begun
       /\ pending' = [pending EXCEPT ![o] = IF over THEN None ELSE [at |-> "settling", k |-> k]]
       /\ fetch' = Start(Restart(fetch, hit \cap ActiveIn(ui)), Mounted(ui, ui'))
       /\ owed' = owed \ {q \in hit : ~Active(ui, q) /\ Late(q)}

TakeMutation(o) ==
    /\ \/ pending[o].at = "ok" /\ Settling(o, 1)
       \/ /\ pending[o].at = "refused"
          /\ pending' = [pending EXCEPT ![o] = None]
          /\ UNCHANGED <<ui, fetch, owed>>
    /\ UNCHANGED <<db, data, failed, steps>>

\* The refetches of one set have ended, or another mutation has cancelled them.
Settle(o) ==
    /\ pending[o].at = "settling"
    /\ \/ \A q \in Invalidates(ui, o)[pending[o].k] \cap ActiveIn(ui) : fetch[q] = Idle
       \/ \E p \in Ops \ {o} : pending[p].at = "settling"
    /\ Settling(o, pending[o].k + 1)
    /\ UNCHANGED <<db, data, failed, steps>>

Turn ==
    /\ \E u \in Turns(ui, data, pending) :
         ui' = u /\ fetch' = Start(fetch, Mounted(ui, u))
    /\ UNCHANGED <<db, data, failed, pending, owed, steps>>

Other ==
    /\ Step
    /\ db' \in Others(db)
    /\ UNCHANGED <<ui, data, fetch, failed, pending, owed>>

Answers == \/ \E q \in Queries : ServeFetch(q) \/ TakeData(q) \/ TakeError(q)
           \/ \E o \in Ops : ServeMutation(o) \/ TakeMutation(o) \/ Settle(o)

Next ==
    \/ Answers \/ Focus \/ Turn \/ Other
    \/ \E q \in Polls : Poll(q)
    \/ \E o \in Ops : Click(o)

-----------------------------------------------------------------------------
Quiet == (\A q \in Queries : fetch[q] = Idle) /\ (\A o \in Ops : pending[o] = None)

\* Of the queries of D, none still shows what it had before a change of this page.
NothingOwed(D) ==
    Quiet => \A q \in D \cap owed \cap ActiveIn(ui) : q \in failed \/ data[q] \in Shows(db, q)

\* The data of the page is what the service has.
Current == \A q \in ActiveIn(ui) :
              IF Shows(db, q) = {} THEN q \in failed ELSE data[q] \in Shows(db, q) /\ q \notin failed
=============================================================================
