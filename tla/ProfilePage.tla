---------------------------- MODULE ProfilePage ----------------------------
(***************************************************************************)
(* The profile of a user on the page that edits it, and the avatar, a file  *)
(* that the row of the profile names.  The user has a second window; its    *)
(* uploads and deletions of the avatar look at the row and write it in two  *)
(* steps, and a click of this window falls anywhere between them.           *)
(***************************************************************************)
EXTENDS Naturals

CONSTANT MaxSteps
VARIABLES db, ui, data, fetch, failed, pending, owed, steps

Fields == {"bio", "private"}

\* row: the fields of the profile; avatar: the file the row names, 0 for none; files:
\* those in the directory of avatars; next: the name of the next one; look: what
\* a request of the second window has seen.
Profile(avatar) == [row |-> [f \in Fields |-> 0], avatar |-> avatar, files |-> {avatar} \ {0},
                    next |-> 2, look |-> {}]

\* Mutant: the file has the name of the user.
FileName_User(d) == 1

\* formidable stores the file under the time of the upload; two uploads in one
\* millisecond are left out.
FileName(d) == d.next
Upload(d) == [d EXCEPT !.files = @ \cup {FileName(d)}, !.next = @ + 1]

\* The row names the new avatar, or none, and the file it named is removed.
Named(d, new, old) == [d EXCEPT !.avatar = new, !.files = @ \ {old}]

UpdateProfile(d, a) == [d EXCEPT !.row = [f \in Fields |-> IF f \in a.fields THEN a.draft[f] ELSE @[f]]]

\* An image that is not a PNG or a JPEG is refused after it has been stored.
UploadAvatar(d) == {[db |-> Named(Upload(d), FileName(d), d.avatar), ok |-> TRUE],
                    [db |-> Upload(d), ok |-> FALSE]}
DeleteAvatar(d) == IF d.avatar = 0 THEN {} ELSE {[db |-> Named(d, 0, d.avatar), ok |-> TRUE]}

Looks(d) ==
    IF d.look # {} THEN {}
    ELSE {[Upload(d) EXCEPT !.look = {[old |-> d.avatar, new |-> FileName(d)]}]}
         \cup IF d.avatar = 0 THEN {} ELSE {[d EXCEPT !.look = {[old |-> d.avatar, new |-> 0]}]}
Writes(d) == {[Named(d, l.new, l.old) EXCEPT !.look = {}] : l \in d.look}
Others(d) == Looks(d) \cup Writes(d) \cup {[d EXCEPT !.row[f] = 1 - @] : f \in Fields}

Queries == {"profile"}
AuthenticateTokenProfile(d) == {[row |-> d.row, avatar |-> d.avatar]}
Shows(d, q) == AuthenticateTokenProfile(d)
Left(d, q)  == {d[q]}
NoProfile   == [q \in Queries |-> [row |-> [f \in Fields |-> 0], avatar |-> 0]]
-----------------------------------------------------------------------------
\* shown: the profile the page displays; draft: the fields of the form, with
\* those edited since it was last set; edit, the mode; removed: the avatar was
\* deleted here (for the properties).
Fresh(p) == [page |-> "profile", shown |-> p.row, avatar |-> p.avatar, draft |-> p.row,
             touched |-> {}, edit |-> FALSE, removed |-> FALSE]

Active(u, q) == TRUE
Polls == {}
Ops == {"save", "upload", "delete"}

Diff(u) == {f \in Fields : u.draft[f] # u.shown[f]}

AvatarUpload(u, p) ==
    (IF p["upload"].at = "none" THEN {"upload"} ELSE {}) \cup (IF u.avatar = 0 THEN {} ELSE {"delete"})
SectionProfileInfo(u) == IF u.edit /\ Diff(u) # {} THEN {"save"} ELSE {}
Offered(u, d, f, p, o) == o \in AvatarUpload(u, p) \cup SectionProfileInfo(u)
Arg(u, d, o) ==
    IF o = "save" THEN [fields |-> Diff(u), draft |-> u.draft, touched |-> u.touched] ELSE "avatar"

Effects(d, o, a) ==
    CASE o = "save"   -> {[db |-> UpdateProfile(d, a), ok |-> TRUE]}
      [] o = "upload" -> UploadAvatar(d)
      [] o = "delete" -> DeleteAvatar(d)

\* The key that the deletion of the avatar invalidates is that of no query.
SaveInvalidates   == <<Queries>>
AvatarInvalidates(o) == IF o = "upload" THEN <<Queries>> ELSE <<>>
Invalidates(u, o) == IF o = "save" THEN SaveInvalidates ELSE AvatarInvalidates(o)

\* The fields that the page hands to the form are a new object each time it is
\* rendered, and the form is set to them: by an answer, a toast, a dialog.
Rendered(u) == [u EXCEPT !.draft = u.shown, !.touched = {}]

After(u, o, when) ==
    CASE o = "save" /\ when = "ok"     -> [u EXCEPT !.edit = FALSE]
      [] o = "delete" /\ when = "done" -> [Rendered(u) EXCEPT !.avatar = 0, !.removed = TRUE]
      [] OTHER -> u

Sync(u, old, new, q) ==
    Rendered([u EXCEPT !.shown = new["profile"].row, !.avatar = new["profile"].avatar])
OnError(u, q) == Rendered(u)

Cancel(u) == [Rendered(u) EXCEPT !.edit = FALSE]
Edits(u) == {[u EXCEPT !.draft[f] = 1 - @, !.touched = @ \cup {f}] : f \in Fields}
Turns(u, d, p) ==
    {Rendered(u)} \cup IF u.edit THEN Edits(u) \cup {Cancel(u)} ELSE {[u EXCEPT !.edit = TRUE]}

P == INSTANCE QueryPageProofs

Init == \E d \in {Profile(0), Profile(1)} :
            P!InitLoaded({d}, {Fresh(v) : v \in AuthenticateTokenProfile(d)}, NoProfile)
Next == P!Next
-----------------------------------------------------------------------------
\* A page on which the avatar was deleted is excepted: a profile that was on its
\* way shows the deleted one again.
OwnChangesShown == ui.removed \/ P!NothingOwed(Queries)

OffersAreAccepted ==
    P!Quiet /\ P!Current =>
        \A o \in Ops : Offered(ui, data, failed, pending, o) =>
            \E e \in Effects(db, o, Arg(ui, data, o)) : e.ok

\* The form of the profile saves what was edited in it.
SaveKeepsTheRest ==
    pending["save"].at = "sent" =>
        pending["save"].arg.fields \subseteq pending["save"].arg.touched

\* The avatar a profile names is there: no upload or deletion removes the file
\* of another.
AvatarIsThere == db.avatar # 0 => db.avatar \in db.files
=============================================================================
