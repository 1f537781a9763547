----------------------------- MODULE TeamPages -----------------------------
(***************************************************************************)
(* One team on the pages of a user, Me: the page of the own team with its  *)
(* settings, the list of teams, the page of the team for visitors.  The    *)
(* handlers of the user service are those of module Teams, each in one     *)
(* step; You, another user, goes from asking to captain and back, and Me   *)
(* has a second window.                                                    *)
(***************************************************************************)
EXTENDS Naturals, FiniteSets

CONSTANT MaxSteps
VARIABLES db, ui, data, fetch, failed, pending, owed, steps

Users == {"Me", "You"}

\* The row of the team, its members and who asks to join; text, the description:
\* none, as a new team has it (NULL), the empty one, 0, or words, 1.
NoText == 2
NoTeam == [captain |-> "nobody", members |-> {}, asked |-> {}, locked |-> FALSE, text |-> NoText]
Exists(d) == d.captain # "nobody"

InitialTeams ==
    LET led(c, m, a) == [NoTeam EXCEPT !.captain = c, !.members = m, !.asked = a]
    IN {NoTeam, led("You", {"You"}, {}), led("You", Users, {}), led("Me", {"Me"}, {"You"}),
        led("Me", Users, {}), [led("Me", Users, {}) EXCEPT !.text = 0]}

Create(d, u) == [NoTeam EXCEPT !.captain = u, !.members = {u}]
Ask(d, u)    == [d EXCEPT !.asked = @ \cup {u}]
Forget(d, u) == [d EXCEPT !.asked = @ \ {u}]
Accept(d, u) == [Forget(d, u) EXCEPT !.members = @ \cup {u}]
Remove(d, u) == [d EXCEPT !.members = @ \ {u}]

MayAsk(d, u)    == Exists(d) /\ ~d.locked /\ u \notin d.asked /\ u \notin d.members
MayAccept(d, u) == u \in d.asked /\ ~d.locked /\ u \notin d.members

\* What others do: You, and Me in the second window.
Others(d) ==
    {e \in {Ask(d, "You"), Forget(d, "You")} : MayAsk(d, "You") \/ "You" \in d.asked}
    \cup (IF "You" \in d.members /\ d.captain # "You" THEN {Remove(d, "You")} ELSE {})
    \cup (IF d.captain = "You"
          THEN {NoTeam, [d EXCEPT !.locked = ~@]}
               \cup (IF "Me" \in d.members THEN {Remove(d, "Me"), [d EXCEPT !.captain = "Me"]} ELSE {})
               \cup (IF MayAccept(d, "Me") THEN {Accept(d, "Me")} ELSE {})
          ELSE {})
    \cup (IF d.captain = "Me" THEN {[d EXCEPT !.locked = ~@]}
                                     \cup {[d EXCEPT !.text = t] : t \in {0, 1}} ELSE {})
-----------------------------------------------------------------------------
\* What the service answers.
TeamOfUser(d) == {"Me" \in d.members}
Details(d) ==
    IF Exists(d) THEN {[captain |-> d.captain, locked |-> d.locked, text |-> d.text,
                        count |-> Cardinality(d.members)]} ELSE {}
Members(d) == IF Exists(d) THEN {d.members} ELSE {}
JoinRequests(d) == IF d.captain = "Me" THEN {d.asked} ELSE {}
TeamList(d) == {IF Exists(d) THEN {d.locked} ELSE {}}
MyRequests(d) == {d.asked \cap {"Me"}}

Shows(d, q) ==
    CASE q = "user"     -> TeamOfUser(d)
      [] q = "details"  -> Details(d)
      [] q = "members"  -> Members(d)
      [] q = "requests" -> JoinRequests(d)
      [] q = "teams"    -> TeamList(d)
      [] q = "asked"    -> MyRequests(d)

Left(d, q) == {d[q]}
Queries == {"user", "details", "members", "requests", "teams", "asked"}
NoDetails == [captain |-> "nobody", locked |-> FALSE, text |-> NoText, count |-> 0]
Empty == [q \in Queries |-> CASE q = "user" -> FALSE [] q = "details" -> NoDetails [] OTHER -> {}]
-----------------------------------------------------------------------------
\* The pages: known, whether Me is known to have a team, the key of the queries
\* of the own team; open, the settings, with the draft and, for the properties,
\* the fields edited since it was last set; unsaid, also for them, the queries
\* a mutation has changed and does not invalidate.
Fresh(page) == [page |-> page, known |-> FALSE, open |-> FALSE,
                draft |-> [locked |-> FALSE, text |-> 0], touched |-> {}, unsaid |-> {}]
InitialPages == {[Fresh("team") EXCEPT !.known = TRUE], Fresh("teams"), Fresh("visit")}

TeamQueries(u)  == {"user"} \cup (IF u.known THEN {"details", "members", "requests"} ELSE {})
TeamsQueries(u) == {"asked", "teams", "user"}
VisitQueries(u) == {"user", "details", "members", "asked"}

Active(u, q) ==
    q \in CASE u.page = "team"  -> TeamQueries(u)
            [] u.page = "teams" -> TeamsQueries(u)
            [] u.page = "visit" -> VisitQueries(u)

Ops == {"save", "accept", "reject", "kick", "crown", "leave", "delete", "create", "ask", "cancel"}

\* The buttons of a member and of a join request; nothing disables them.
TeamMemberCard(d)  == IF d["details"].captain = "Me" THEN {"kick", "crown"} ELSE {}
JoinRequestCard    == {"accept", "reject"}
MembersTab(d)      == IF "You" \in d["members"] THEN TeamMemberCard(d) ELSE {}
RequestsTab(d)     == IF d["details"].captain = "Me" /\ d["requests"] # {} THEN JoinRequestCard ELSE {}

\* The settings lead to the dialog of the deletion; a captain cannot leave.
SettingsDialog(u, p) ==
    IF ~u.open THEN {} ELSE {"delete"} \cup IF p["save"].at = "none" THEN {"save"} ELSE {}
LeaveDialog(d) == IF d["details"].captain # "Me" THEN {"leave"} ELSE {}

NotFound(d, f) == ~d["user"] \/ "details" \in f     \* the 404 pages
TeamOffers(u, d, f, p) ==
    IF NotFound(d, f) THEN {}
    ELSE MembersTab(d) \cup RequestsTab(d) \cup SettingsDialog(u, p) \cup LeaveDialog(d)

\* A card of the list, and the form of a new team.
TeamCard(d) ==
    IF d["user"] \/ d["teams"] = {} THEN {}
    ELSE IF d["asked"] # {} THEN {"cancel"}
    ELSE IF d["teams"] = {TRUE} THEN {} ELSE {"ask"}
ModalCreateTeam(d) == IF d["user"] THEN {} ELSE {"create"}
TeamsOffers(d) == TeamCard(d) \cup ModalCreateTeam(d)

VisitPending(p) == \E o \in {"ask", "cancel"} : p[o].at # "none"
RenderAction(d, p) ==
    IF d["user"] \/ VisitPending(p) THEN {}
    ELSE IF d["asked"] # {} THEN {"cancel"}
    ELSE IF d["details"].locked THEN {} ELSE {"ask"}
VisitOffers(d, f, p) == IF "details" \in f THEN {} ELSE RenderAction(d, p)

Offered(u, d, f, p, o) ==
    o \in CASE u.page = "team"  -> TeamOffers(u, d, f, p)
            [] u.page = "teams" -> TeamsOffers(d)
            [] u.page = "visit" -> VisitOffers(d, f, p)

\* onSubmitEditSettings: where the draft is not what the details are; the draft
\* of no description is the empty one, and differs.
Payload(u, d) == {f \in {"locked", "text"} : u.draft[f] # d["details"][f]}

Arg(u, d, o) ==
    IF o = "save" THEN [fields |-> Payload(u, d), draft |-> u.draft, touched |-> u.touched,
                        unset |-> d["details"].text = NoText] ELSE "team"

UpdateTeam(d, a) ==
    [d EXCEPT !.locked = IF "locked" \in a.fields THEN a.draft.locked ELSE @,
              !.text = IF "text" \in a.fields THEN a.draft.text ELSE @]

\* What a handler makes of a request; none when it refuses.
Handled(d, o, a) ==
    LET captain == d.captain = "Me" IN
    CASE o = "save"   -> IF a.fields = {} THEN {d} ELSE IF captain THEN {UpdateTeam(d, a)} ELSE {}
      [] o = "accept" -> IF captain /\ MayAccept(d, "You") THEN {Accept(d, "You")} ELSE {}
      [] o = "reject" -> IF captain THEN {Forget(d, "You")} ELSE {}
      [] o = "kick"   -> IF captain /\ "You" \in d.members THEN {Remove(d, "You")} ELSE {}
      [] o = "crown"  -> IF captain /\ "You" \in d.members THEN {[d EXCEPT !.captain = "You"]} ELSE {}
      [] o = "leave"  -> IF "Me" \in d.members /\ ~captain THEN {Remove(d, "Me")} ELSE {}
      [] o = "delete" -> IF captain THEN {NoTeam} ELSE {}
      [] o = "create" -> IF Exists(d) \/ "Me" \in d.members THEN {} ELSE {Create(d, "Me")}
      [] o = "ask"    -> IF MayAsk(d, "Me") THEN {Ask(d, "Me")} ELSE {}
      [] o = "cancel" -> {Forget(d, "Me")}
Effects(d, o, a) == {[db |-> e, ok |-> TRUE] : e \in Handled(d, o, a)}

\* Mutant: the details are forgotten when the captaincy moves.
MemberInvalidates_MembersOnly(o) == <<{"members"}>>

\* What the success of a mutation invalidates; ["teams", { team_name }] is the
\* key of no query.
RequestInvalidates(o) ==
    IF o = "accept" THEN <<{"requests", "members", "details"}>> ELSE <<{"requests"}>>
MemberInvalidates(o) == <<{"members"}, {"details"}>>
SaveInvalidates      == <<{"details"}>>
LeaveInvalidates     == <<{"members"}>>      \* leave, and delete
TeamInvalidates(o) ==
    CASE o = "save" -> SaveInvalidates
      [] o \in {"accept", "reject"} -> RequestInvalidates(o)
      [] o \in {"kick", "crown"}    -> MemberInvalidates(o)
      [] OTHER -> LeaveInvalidates
CreateInvalidates == <<Queries>>
CardInvalidates   == <<{"asked", "teams"}>>
TeamsInvalidates(o) == IF o = "create" THEN CreateInvalidates ELSE CardInvalidates
VisitInvalidates(o) == <<{"asked", "teams"}>>
Invalidates(u, o) ==
    IF u.page = "visit" THEN VisitInvalidates(o)
    ELSE IF o \in {"create", "ask", "cancel"} THEN TeamsInvalidates(o)
    ELSE TeamInvalidates(o)

\* The requests of a team are not refetched when the captaincy has gone, nor is
\* the list of teams when a save or a deletion ends after its page was left.
Unsaid(u, o) == CASE o = "crown" -> {"requests"}
                  [] o \in {"save", "delete"} /\ u.page # "team" -> {"teams"}
                  [] OTHER -> {}

\* The dialog of the deletion replaces the settings; they close when any
\* mutation of the page is done; who has no team any more goes to the list.
After(u, o, when) ==
    CASE when = "click" -> IF u.page = "team" /\ o = "delete" THEN [u EXCEPT !.open = FALSE] ELSE u
      [] when = "ok"    -> [u EXCEPT !.unsaid = @ \cup Unsaid(u, o)]
      [] when = "done"  -> IF u.page # "team" THEN u
                           ELSE IF o \in {"leave", "delete"} THEN Fresh("teams")
                           ELSE [u EXCEPT !.open = FALSE]

\* The draft of a team: its details, with an empty description for none.
Draft(d) == [locked |-> d.locked, text |-> IF d.text = NoText THEN 0 ELSE d.text]

\* Mutant: the form follows the description only.
SyncDraft_TextOnly(u, old, new) ==
    IF old.text = new.text THEN u ELSE [u EXCEPT !.draft = Draft(new), !.touched = {}]

\* The form is set from the details when one of its fields changes.
SyncDraft(u, old, new) ==
    IF old.locked = new.locked /\ old.text = new.text THEN u
    ELSE [u EXCEPT !.draft = Draft(new), !.touched = {}]

Sync(u, old, new, q) ==
    IF u.page # "team" THEN u
    ELSE CASE q = "user"    -> [u EXCEPT !.known = new["user"]]
           [] q = "details" -> SyncDraft(u, old["details"], new["details"])
           [] OTHER         -> u

\* The captain opens the settings, edits, cancels.
SettingsTurns(u, d) ==
    IF ~u.open
    THEN IF d["details"].captain = "Me" THEN {[u EXCEPT !.open = TRUE]} ELSE {}
    ELSE {[u EXCEPT !.draft.locked = ~@, !.touched = @ \cup {"locked"}],
          [u EXCEPT !.draft.text = 1 - @, !.touched = @ \cup {"text"}],
          [u EXCEPT !.open = FALSE, !.touched = {}, !.draft = Draft(d["details"])]}
Turns(u, d, p) == IF u.page = "team" /\ d["user"] THEN SettingsTurns(u, d) \ {u} ELSE {}

Polls == {}
OnError(u, q) == u

P == INSTANCE QueryPageProofs

Init == /\ P!InitLoaded(InitialTeams, InitialPages, Empty)
        /\ ui.known => "Me" \in db.members
Next == P!Next
-----------------------------------------------------------------------------
\* Leaving and deleting invalidate no query of the user: the list of teams fetches
\* it when it is mounted, but keeps to a fetch that was already on its way.
Displayed == {"details", "members", "requests", "teams", "asked"} \ ui.unsaid
OwnChangesShown == P!NothingOwed(Displayed)

\* What the pages offer although the handler refuses it: to accept a request
\* when the team is closed, and to go on in the
\* settings when the captain is somebody else by now.
NotGuarded(o) ==
    \/ o = "accept" /\ ~MayAccept(db, "You")
    \/ o \in {"save", "delete"} /\ db.captain # "Me"
    \/ o = "create" /\ Exists(db)
OffersAreAccepted ==
    P!Quiet /\ P!Current =>
        \A o \in Ops : Offered(ui, data, failed, pending, o) =>
            NotGuarded(o) \/ Effects(db, o, Arg(ui, data, o)) # {}

\* A save sends a field only when it was edited: the other one is not put back
\* to what the page knew.  The exception is the description of a team that has
\* none on the page: every save sends an empty one with it, over whatever another
\* window has written meanwhile.
SaveKeepsTheRest ==
    LET save == pending["save"] IN
    save.at = "sent" =>
        \A f \in save.arg.fields \ save.arg.touched :
            f = "text" /\ save.arg.unset /\ save.arg.draft.text = 0
=============================================================================
