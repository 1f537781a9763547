----------------------------- MODULE EventPages -----------------------------
(***************************************************************************)
(* One event on the pages of a user: the list of events with the form of a *)
(* new one, the page of the event where a captain registers and an         *)
(* organizer edits or deletes it, the leaderboard that polls.  The services *)
(* behind them are those of modules Scoring, EventLifecycle and Teams.     *)
(***************************************************************************)
EXTENDS Naturals, FiniteSets

CONSTANT MaxSteps
VARIABLES db, ui, data, fetch, failed, pending, owed, steps

\* name stands for the fields of the form but the times; whole, whether the times of the
\* event are whole minutes; captain, whether the user is one.
Event == [status |-> "published", joined |-> FALSE, full |-> FALSE, captain |-> TRUE,
          name |-> 0, whole |-> TRUE, score |-> 0]
InitialEvents == {Event, [Event EXCEPT !.whole = FALSE], [Event EXCEPT !.joined = TRUE],
                  [Event EXCEPT !.status = "active"], [Event EXCEPT !.status = "none"]}

Exists(d) == d.status \notin {"none", "gone"}
Moves(d) == CASE d.status = "published" -> {[d EXCEPT !.status = "active"]}
              [] d.status = "active"    -> {[d EXCEPT !.status = "ended"], [d EXCEPT !.score = 1 - @]}
              [] OTHER                  -> {}
\* Others: the cron, players, the captain before or after this one, a second
\* organizer.
Others(d) ==
    IF ~Exists(d) THEN {}
    ELSE Moves(d) \cup {[d EXCEPT !.full = ~@], [d EXCEPT !.captain = ~@], [d EXCEPT !.joined = ~@],
                        [d EXCEPT !.name = 1 - @]}
         \cup (IF d.status = "active" THEN {} ELSE {[d EXCEPT !.status = "gone"]})
-----------------------------------------------------------------------------
\* What the services answer.
GetEvent(d) ==
    IF Exists(d)
    THEN {[status |-> d.status, joined |-> d.joined, name |-> d.name, whole |-> d.whole]} ELSE {}
ListEvents(d) == {IF Exists(d) THEN {d.status} ELSE {}}
GetLeaderboard(d) == IF d.status \in {"active", "ended"} THEN {{d.score}} ELSE {}
TeamMe(d) == {d.captain}

Shows(d, q) ==
    CASE q \in {"event", "form"} -> GetEvent(d)
      [] q = "team"        -> TeamMe(d)
      [] q = "events"      -> ListEvents(d)
      [] q = "leaderboard" -> GetLeaderboard(d)

\* When the database fails, the leaderboard is answered all the same, and is empty.
Left(d, q) == {d[q]} \cup IF q = "leaderboard" THEN {{}} ELSE {}
Queries == {"event", "form", "team", "events", "leaderboard"}
NoEvent == [status |-> "none", joined |-> FALSE, name |-> 0, whole |-> TRUE]
Empty == [q \in Queries |->
            CASE q \in {"event", "form"} -> NoEvent [] q = "team" -> FALSE [] OTHER -> {}]
-----------------------------------------------------------------------------
\* The pages; dialog is the open one; draft and touched belong to the form.
Fresh(page, role) ==
    [page |-> page, role |-> role, dialog |-> "none",
     draft |-> 0, touched |-> FALSE]
InitialPages == {Fresh("event", "player"), Fresh("event", "admin"), Fresh("events", "admin"),
                 Fresh("board", "player")}

\* The form of an existing event has a query of its own; that of a new one none.
FormQueries(u)  == IF u.dialog = "edit" THEN {"form"} ELSE {}
EventQueries(u) == {"event", "team"} \cup FormQueries(u)
EventsQueries   == {"events"}
BoardQueries    == {"event", "leaderboard"}
Active(u, q) ==
    q \in CASE u.page = "event"  -> EventQueries(u)
            [] u.page = "events" -> EventsQueries
            [] u.page = "board"  -> BoardQueries

\* Mutant: the leaderboard is fetched once.
Polls_None == {}

\* refetchInterval: 5000
Polls == {"leaderboard"}

Ops == {"join", "leave", "delete", "update", "create"}

Disabled(p) == \E o \in {"join", "leave", "delete"} : p[o].at # "none"
Registration(d) == d["event"].status = "published" /\ d["team"]

JoinButton(u, d, p)   == u.role = "player" /\ Registration(d) /\ ~d["event"].joined /\ ~Disabled(p)
LeaveDialog(u, d, p)  == u.dialog = "leave" /\ ~Disabled(p)
DeleteDialog(u, d, p) == u.dialog = "delete" /\ ~Disabled(p)
EventForm(u, d, p)    == u.dialog = "edit" /\ d["form"] # NoEvent
CreateForm(u, d, p)   == u.dialog = "create" /\ p["create"].at = "none"

Offered(u, d, f, p, o) ==
    CASE u.page = "events" -> o = "create" /\ CreateForm(u, d, p)
      [] u.page = "board"  -> FALSE
      [] u.page = "event"  ->
           /\ "event" \notin f
           /\ CASE o = "join"   -> JoinButton(u, d, p)
                [] o = "leave"  -> LeaveDialog(u, d, p)
                [] o = "delete" -> DeleteDialog(u, d, p)
                [] o = "update" -> EventForm(u, d, p)
                [] OTHER        -> FALSE

\* The form shows the times in minutes, which differ from times with seconds.
Diff(u, d) ==
    (IF u.draft # d["form"].name THEN {"name"} ELSE {})
    \cup IF d["form"].whole THEN {} ELSE {"times"}
Arg(u, d, o) ==
    IF o = "update" THEN [fields |-> Diff(u, d), draft |-> u.draft, touched |-> u.touched] ELSE "event"

JoinEvent(d)  == IF d.status \in {"published", "active"} /\ d.captain /\ ~d.joined /\ ~d.full
                 THEN {[d EXCEPT !.joined = TRUE]} ELSE {}
LeaveEvent(d) == IF d.status \in {"published", "active"} /\ d.captain /\ d.joined
                 THEN {[d EXCEPT !.joined = FALSE]} ELSE {}
DeleteEvent(d) == IF d.status \in {"published", "ended"} THEN {[d EXCEPT !.status = "gone"]} ELSE {}
UpdateEvent(d, a) ==
    IF a.fields = {} \/ ~Exists(d) THEN {}
    ELSE {[d EXCEPT !.name = IF "name" \in a.fields THEN a.draft ELSE @, !.whole = TRUE]}
CreateEvent(d) == IF d.status = "none" THEN {Event} ELSE {}     \* bound: one event

Effects(d, o, a) ==
    {[db |-> e, ok |-> TRUE] :
        e \in CASE o = "join"   -> JoinEvent(d)
                [] o = "leave"  -> LeaveEvent(d)
                [] o = "delete" -> DeleteEvent(d)
                [] o = "update" -> UpdateEvent(d, a)
                [] o = "create" -> CreateEvent(d)}

\* ["event"] and ["event", { event_id }] are prefixes of the keys of the page of
\* the event and of its form, the first one of that of the leaderboard too.
RegistrationInvalidates == <<{"event", "form"}>>
UpdateInvalidates       == <<{"event", "form"}>>
DeleteInvalidates       == <<{"events"}>>
Invalidates(u, o) ==
    CASE o \in {"join", "leave"} -> RegistrationInvalidates
      [] o = "update" -> UpdateInvalidates
      [] o = "delete" -> DeleteInvalidates
      [] o = "create" -> <<>>

Closed(u) == [u EXCEPT !.dialog = "none", !.draft = 0, !.touched = FALSE]

\* An update closes the form at once, the end of a registration its dialog; a
\* new event is shown, a deleted one left.
AfterCreate(u) == Fresh("event", u.role)
After(u, o, when) ==
    CASE o = "update" /\ when = "ok"   -> Closed(u)
      [] o = "leave"  /\ when = "done" -> Closed(u)
      [] o = "delete" /\ when = "done" -> Fresh("events", u.role)
      [] o = "create" /\ when = "done" -> AfterCreate(u)
      [] OTHER -> u

SetForm(u, d) == [u EXCEPT !.draft = d["form"].name, !.touched = FALSE]

\* Every answer of its query sets the form again.
Sync(u, old, new, q) == IF q = "form" /\ u.dialog = "edit" THEN SetForm(u, new) ELSE u

\* A dialog opens, a field is edited, the dialog is closed.
AdminButtons(u, d, p) == IF Disabled(p) \/ d["event"] = NoEvent \/ u.role # "admin" THEN {}
                         ELSE {"edit", "delete"}
Unregister(u, d, p)   == IF Disabled(p) \/ u.role # "player" THEN {}
                         ELSE IF Registration(d) /\ d["event"].joined THEN {"leave"} ELSE {}
EventsButtons         == {"create"}
Openings(u, d, p) ==
    CASE u.page = "event"  -> AdminButtons(u, d, p) \cup Unregister(u, d, p)
      [] u.page = "events" -> EventsButtons
      [] u.page = "board"  -> {}
Opened(u, d, x) == IF x = "edit" THEN [SetForm(u, d) EXCEPT !.dialog = x] ELSE [u EXCEPT !.dialog = x]
Edits(u) == IF u.dialog = "edit" THEN {[u EXCEPT !.draft = 1 - @, !.touched = TRUE]} ELSE {}
Turns(u, d, p) ==
    IF u.dialog = "none" THEN {Opened(u, d, x) : x \in Openings(u, d, p)}
    ELSE Edits(u) \cup {Closed(u)}
OnError(u, q) == u

P == INSTANCE QueryPageProofs

Init == /\ P!InitLoaded(InitialEvents, InitialPages, Empty)
        /\ Exists(db) <=> ui.page # "events"
        /\ ui.page = "board" => db.status = "active"
Next == P!Next
-----------------------------------------------------------------------------
OwnChangesShown == P!NothingOwed({"event", "events"})

\* What the page offers although the service refuses it: a registration when the
\* event is full, a deletion while it runs, and dialogs that were opened before
\* the event ended or the captaincy was lost.
NotGuarded(o) ==
    \/ o = "join" /\ db.full
    \/ o = "delete" /\ db.status = "active"
    \/ o = "leave" /\ ~(Registration(data) /\ data["event"].joined)
    \/ o = "create" /\ db.status # "none"
    \/ o = "update" /\ Diff(ui, data) = {}
OffersAreAccepted ==
    P!Quiet /\ P!Current =>
        \A o \in Ops : Offered(ui, data, failed, pending, o) =>
            NotGuarded(o) \/ Effects(db, o, Arg(ui, data, o)) # {}

\* An edit of the event sends what was edited.  The exception are times with
\* seconds: the form has them in whole minutes, and sends them back so.
SaveKeepsTheRest ==
    LET save == pending["update"]
    IN save.at = "sent" /\ "name" \in save.arg.fields => save.arg.touched

\* The leaderboard shows the scores of the moment while there is an event.  The
\* exception is a page whose last request for the event itself failed: it says
\* that the event was not found, and asks again when the window gets the focus.
BoardCurrent ==
    ui.page = "board" /\ Exists(db) /\ "event" \notin failed =>
        "leaderboard" \notin failed /\ data["leaderboard"] \in GetLeaderboard(db)
=============================================================================
