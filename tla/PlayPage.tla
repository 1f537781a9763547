------------------------------ MODULE PlayPage ------------------------------
(***************************************************************************)
(* The page a registered player solves challenges on: the challenges and    *)
(* the status of the team, the dialog of one challenge with its flag.  Team *)
(* mates solve too, the captain can withdraw the team, the event ends; the   *)
(* page leaves for the one of the event when it has no business any more.   *)
(***************************************************************************)
EXTENDS Naturals, FiniteSets

CONSTANT MaxSteps
VARIABLES db, ui, data, fetch, failed, pending, owed, steps

Challenges == {"web", "pwn"}

\* solved: by the team of the player.
Running == [status |-> "active", joined |-> TRUE, solved |-> {}]
Others(d) ==
    {[d EXCEPT !.solved = @ \cup {c}] : c \in IF d.status = "active" /\ d.joined THEN Challenges ELSE {}}
    \cup (IF d.status = "active" THEN {[d EXCEPT !.status = "ended"], [d EXCEPT !.joined = ~@]} ELSE {})

\* EnsureEventAccess
Access(d) == d.status = "active" /\ d.joined

GetEvent(d)           == {[status |-> d.status, joined |-> d.joined]}
ListCtfsChallenges(d) == IF Access(d) THEN {d.solved} ELSE {}
StatusEvent(d)        == {Cardinality(d.solved)}
SubmitFlag(d, c)      == IF Access(d) /\ c \notin d.solved
                         THEN {[d EXCEPT !.solved = @ \cup {c}]} ELSE {}

Shows(d, q) ==
    CASE q = "event"      -> GetEvent(d)
      [] q = "challenges" -> ListCtfsChallenges(d)
      [] q = "status"     -> StatusEvent(d)

Queries == {"event", "challenges", "status"}
Left(d, q) == {d[q]}
Empty == [q \in Queries |-> CASE q = "event" -> [status |-> "active", joined |-> TRUE]
                              [] q = "challenges" -> {} [] q = "status" -> 0]
-----------------------------------------------------------------------------
\* open: the challenge of the dialog, as the list had it.
Fresh == [page |-> "play", open |-> "none", solved |-> FALSE]
Gone  == [page |-> "event", open |-> "none", solved |-> FALSE]

Active(u, q) == u.page = "play"
Polls == {}

Ops == Challenges     \* the flag of one of them

\* The dialog keeps the challenge as it was when it was opened; a form that has
\* been sent can be sent again.
FlagSubmitForm(u) == IF u.open = "none" \/ u.solved THEN {} ELSE {u.open}
Offered(u, d, f, p, o) == u.page = "play" /\ o \in FlagSubmitForm(u)
Arg(u, d, o) == "flag"

Effects(d, o, a) == {[db |-> e, ok |-> TRUE] : e \in SubmitFlag(d, o)}

Invalidates(u, o) == <<{"challenges", "status"}>>

\* A success closes the dialog, whichever challenge it is of by then.
After(u, o, when) == IF when = "ok" THEN [u EXCEPT !.open = "none", !.solved = FALSE] ELSE u

\* The page leaves when the event is not active, or the team not in it.
Sync(u, old, new, q) ==
    IF q = "event" /\ (new["event"].status # "active" \/ ~new["event"].joined) THEN Gone ELSE u
OnError(u, q) == IF q = "event" THEN Gone ELSE u

Turns(u, d, p) ==
    IF u.page # "play" THEN {}
    ELSE IF u.open # "none" THEN {Fresh}
    ELSE {[u EXCEPT !.open = c, !.solved = c \in d["challenges"]] : c \in Challenges}

P == INSTANCE QueryPageProofs

Init == P!InitLoaded({Running}, {Fresh}, Empty)
Next == P!Next
-----------------------------------------------------------------------------
\* A solve of the player is shown with its points.
OwnChangesShown == P!NothingOwed({"challenges", "status"})

\* A team mate may have solved the challenge of the dialog.
OffersAreAccepted ==
    P!Quiet /\ P!Current =>
        \A o \in Ops : Offered(ui, data, failed, pending, o) =>
            o \in db.solved \/ Effects(db, o, Arg(ui, data, o)) # {}
=============================================================================
