--------------------------- MODULE ChallengePages ---------------------------
(***************************************************************************)
(* The challenges of the site on the page of an administrator, with the     *)
(* dialog that creates or edits one and the dialog that deletes one, over   *)
(* the handlers of the challenge service.  Another administrator uses the   *)
(* same page.                                                               *)
(***************************************************************************)
EXTENDS Naturals

CONSTANT MaxSteps
VARIABLES db, ui, data, fetch, failed, pending, owed, steps

Ids == {"web", "pwn"}

\* The table challenges: text stands for the fields an edit always sends when
\* they differ.
Row == [text |-> 0, pub |-> FALSE]
None == [text |-> 2, pub |-> FALSE]      \* no such challenge
Only(S) == [c \in Ids |-> IF c \in S THEN Row ELSE None]
Exists(d, c) == d[c] # None

RouteChallengesList(d)      == {d}
RouteChallengeDelete(d, c)  == IF Exists(d, c) THEN {[d EXCEPT ![c] = None]} ELSE {}
RouteChallengeCreate(d, c, row) == IF Exists(d, c) THEN {} ELSE {[d EXCEPT ![c] = row]}
RouteChallengeUpdate(d, c, fields, row) ==
    IF Exists(d, c)
    THEN {[d EXCEPT ![c] = [f \in {"text", "pub"} |-> IF f \in fields THEN row[f] ELSE d[c][f]]]}
    ELSE {}

Others(d) == UNION {RouteChallengeDelete(d, c) \cup RouteChallengeCreate(d, c, Row)
                    \cup RouteChallengeUpdate(d, c, {"text"}, [Row EXCEPT !.text = 1])
                    \cup RouteChallengeUpdate(d, c, {"pub"}, [Row EXCEPT !.pub = TRUE]) : c \in Ids}
               \ {d}

Queries == {"challenges"}
Shows(d, q)  == RouteChallengesList(d)
Left(d, q)   == {d[q]}
Active(u, q) == TRUE
Polls == {}
-----------------------------------------------------------------------------
\* form: the dialog of a challenge, target: the one the other dialog deletes;
\* of: the challenge as the list had it when its dialog was opened.
Closed == [page |-> "challenges", form |-> "none", id |-> "web", of |-> None, draft |-> Row,
           touched |-> {}, target |-> "none"]

Ops == {"delete", "create", "update"}

\* The creation does not wait for the list it invalidates.
IsPending(p) == p["create"].at \in {"sent", "ok", "refused"} \/ p["update"].at # "none"
FormButton(u, p)   == IF IsPending(p) THEN {} ELSE {u.form}
DeleteButton(u, p) == IF u.target = "none" \/ p["delete"].at # "none" THEN {} ELSE {"delete"}
Offered(u, d, f, p, o) == o \in FormButton(u, p) \cup DeleteButton(u, p)

\* What the form changes of the challenge it was opened with.
Diff(u) == {f \in {"text", "pub"} : u.draft[f] # u.of[f]}
Arg(u, d, o) ==
    CASE o = "delete" -> u.target
      [] o = "create" -> u.draft
      [] o = "update" -> [id |-> u.id, fields |-> Diff(u), draft |-> u.draft, touched |-> u.touched]

Effects(d, o, a) ==
    {[db |-> e, ok |-> TRUE] :
        e \in CASE o = "delete" -> RouteChallengeDelete(d, a)
                [] o = "create" -> UNION {RouteChallengeCreate(d, c, a) : c \in Ids}
                [] o = "update" -> RouteChallengeUpdate(d, a.id, a.fields, a.draft)}

DeleteInvalidates == <<{"challenges"}>>
FormInvalidates   == <<{"challenges"}>>
Invalidates(u, o) == IF o = "delete" THEN DeleteInvalidates ELSE FormInvalidates

\* A creation closes the form at once, an update when the list is there.  The
\* form that is open by then may be of another challenge; it closes too.
CloseForm(u) == [Closed EXCEPT !.target = u.target]
After(u, o, when) ==
    CASE o = "create" /\ when = "ok"   -> CloseForm(u)
      [] o = "update" /\ when = "done" -> CloseForm(u)
      [] o = "delete" /\ when = "done" -> [u EXCEPT !.target = "none"]
      [] OTHER -> u

Sync(u, old, new, q) == u

OpenForm(d) == {[Closed EXCEPT !.form = "create"]} \cup
               {[Closed EXCEPT !.form = "update", !.id = c, !.of = d["challenges"][c],
                               !.draft = d["challenges"][c]] :
                    c \in {x \in Ids : Exists(d["challenges"], x)}}
OpenDelete(d) == {[Closed EXCEPT !.target = c] : c \in {x \in Ids : Exists(d["challenges"], x)}}
Edits(u) == {[u EXCEPT !.draft.text = 1 - @, !.touched = @ \cup {"text"}],
             [u EXCEPT !.draft.pub = ~@, !.touched = @ \cup {"pub"}]}
Turns(u, d, p) ==
    IF u = Closed THEN OpenForm(d) \cup OpenDelete(d)
    ELSE (IF u.form # "none" THEN Edits(u) ELSE {}) \cup {Closed}
OnError(u, q) == u

P == INSTANCE QueryPageProofs

Init == P!InitLoaded({Only({"web"}), Only(Ids)}, {Closed}, [q \in Queries |-> Only({})])
Next == P!Next
-----------------------------------------------------------------------------
OwnChangesShown == P!NothingOwed(Queries)

\* An update of a challenge sends what was edited in its form.
SaveKeepsTheRest ==
    pending["update"].at = "sent" =>
        pending["update"].arg.fields \subseteq pending["update"].arg.touched
=============================================================================
