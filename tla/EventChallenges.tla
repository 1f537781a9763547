--------------------------- MODULE EventChallenges ---------------------------
(***************************************************************************)
(* The dialog of an event page in which an organizer links challenges to    *)
(* the event, edits the links in a table of drafts and unlinks them, over   *)
(* the handlers of the event service.  Another organizer does the same.     *)
(***************************************************************************)
EXTENDS Naturals

CONSTANT MaxSteps
VARIABLES db, ui, data, fetch, failed, pending, owed, steps

Challenges == {"web", "pwn"}     \* the published ones

\* The rows of ctfs_challenges of the event; reward stands for the three fields
\* of a row that are edited.
NoLinks == [linked |-> {}, reward |-> [c \in Challenges |-> 0]]
Linked(S) == [NoLinks EXCEPT !.linked = S]

LinkChallenge(d, c) ==
    IF c \in d.linked THEN {}
    ELSE {[linked |-> d.linked \cup {c}, reward |-> [d.reward EXCEPT ![c] = 0]]}
UnlinkChallenge(d, c) ==
    IF c \notin d.linked THEN {}
    ELSE {[linked |-> d.linked \ {c}, reward |-> [d.reward EXCEPT ![c] = 0]]}
UpdateChallenge(d, c, r) == IF c \in d.linked THEN {[d EXCEPT !.reward[c] = r]} ELSE {}

Others(d) == UNION {LinkChallenge(d, c) \cup UnlinkChallenge(d, c)
                    \cup UpdateChallenge(d, c, 1 - d.reward[c]) : c \in Challenges}

Left(d, q) == {d[q]}
Queries == {"linked"}
ListCtfsChallengesAdmin(d) == {d}
Shows(d, q) == ListCtfsChallengesAdmin(d)
Active(u, q) == TRUE     \* the dialog is mounted with the page
Polls == {}
-----------------------------------------------------------------------------
\* drafts: the rows of the table; touched: those edited since it was last set.
Drafts(rows) == [page |-> "challenges", drafts |-> rows, touched |-> {}]

Ops == {"link", "unlink", "save"} \X Challenges

Disabled(p) == \E o \in Ops : p[o].at # "none"

\* Save and Unlink stay enabled while requests are under way; a row without a
\* change is not sent.
SearchRow(d, p, c) == c \notin d["linked"].linked /\ ~Disabled(p)
DraftRow(u, c)     == c \in u.drafts.linked
Changed(u, d, c)   == c \in d["linked"].linked /\ u.drafts.reward[c] # d["linked"].reward[c]

Offered(u, d, f, p, o) ==
    /\ p[o].at = "none"
    /\ CASE o[1] = "link"   -> SearchRow(d, p, o[2])
         [] o[1] = "unlink" -> DraftRow(u, o[2])
         [] o[1] = "save"   -> DraftRow(u, o[2]) /\ Changed(u, d, o[2])

Arg(u, d, o) == [reward |-> u.drafts.reward[o[2]], touched |-> o[2] \in u.touched]

Effects(d, o, a) ==
    {[db |-> e, ok |-> TRUE] :
        e \in CASE o[1] = "link"   -> LinkChallenge(d, o[2])
                [] o[1] = "unlink" -> UnlinkChallenge(d, o[2])
                [] o[1] = "save"   -> UpdateChallenge(d, o[2], a.reward)}

\* ["challenges-linked"], and after it the published challenges of the search.
Invalidates(u, o) == <<{"linked"}>>
After(u, o, when) == u

\* Other rows set every draft again, edited ones too; equal rows keep them.
Sync(u, old, new, q) == IF new["linked"] = old["linked"] THEN u ELSE Drafts(new["linked"])

Turns(u, d, p) ==
    IF Disabled(p) THEN {}
    ELSE {[u EXCEPT !.drafts.reward[c] = 1 - @, !.touched = @ \cup {c}] : c \in u.drafts.linked}
OnError(u, q) == u

P == INSTANCE QueryPageProofs

\* The key of the query does not have the event: the page begins with the rows
\* of the event that was managed before, and fetches.
Init == \E rows \in {NoLinks, Linked({"web"})} :
            P!InitPage({NoLinks, Linked({"web"}), Linked(Challenges)}, {Drafts(rows)},
                       [q \in Queries |-> rows])
Next == P!Next
-----------------------------------------------------------------------------
OwnChangesShown == P!NothingOwed(Queries)

OffersAreAccepted ==
    P!Quiet /\ P!Current =>
        \A o \in Ops : Offered(ui, data, failed, pending, o) =>
            Effects(db, o, Arg(ui, data, o)) # {}

\* A row is saved with what was edited in it.
SaveKeepsTheRest ==
    \A c \in Challenges :
        LET save == pending[<<"save", c>>]
        IN save.at = "sent" => save.arg.touched
=============================================================================
