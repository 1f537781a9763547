----------------------------- MODULE SiteProofs -----------------------------
(***************************************************************************)
(* What the pages of the web application keep, in every section and for any *)
(* number of clicks, failures and steps of others.                          *)
(*                                                                          *)
(* What a step of a page does to the data of the services, to its           *)
(* components, its requests and their answers is proved once, in            *)
(* QueryPageProofs.  A section adds an invariant: the types of what its     *)
(* services keep, of an answer under way, of the form and of the request a  *)
(* save sends, and how the form follows the data (the ...Follows below).    *)
(* Each section has three lemmas: it starts in its invariant, a step keeps  *)
(* it, and in it a page with the data of the moment offers nothing that     *)
(* would be refused.                                                        *)
(*                                                                          *)
(* A second invariant of each section, its ...Due, says of every query that *)
(* owes a change of this page what will bring it: a request for it, or a    *)
(* mutation that has still to invalidate it.  When nothing is under way     *)
(* nothing is owed then.                                                    *)
(***************************************************************************)
EXTENDS Site, Integers, Sequences, TLAPS

(* Two contents of a field. *)
Bits == {0, 1}
-----------------------------------------------------------------------------
(* Friends. *)
FriendsTables == [req  : SUBSET {Friends!Mine, Friends!Yours},
                  fr   : SUBSET {Friends!Mine, Friends!Yours},
                  look : SUBSET {"send", "accept"}]
FriendsForms  == [page : {"friends", "users", "profile"}, tab : Friends!Tabs]

(* The invariant of the pages of friends. *)
FriendsInv == db \in FriendsTables /\ ui \in FriendsForms

LEMMA FriendsStart == ASSUME Friends!Init PROVE FriendsInv
  BY DEF Friends!Init, Friends!P!InitLoaded, Friends!InitialTables, Friends!Tables, FriendsInv,
         FriendsTables, FriendsForms, Friends!InitialPages, Friends!Tabs

(* Every handler of the user service keeps the types of its tables. *)
LEMMA FriendHandlers ==
  ASSUME NEW d \in FriendsTables, NEW r \in {Friends!Mine, Friends!Yours}
  PROVE  {Friends!SendFriendRequest(d, r), Friends!CancelFriendRequest(d, r),
          Friends!RejectFriendRequest(d, r), Friends!AcceptFriendRequest(d, r),
          Friends!RemoveFriend(d)} \subseteq FriendsTables
<1>1. {Friends!SendFriendRequest(d, r), Friends!CancelFriendRequest(d, r),
       Friends!RejectFriendRequest(d, r), Friends!RemoveFriend(d)} \subseteq FriendsTables
  BY DEF FriendsTables, Friends!SendFriendRequest, Friends!CancelFriendRequest,
     Friends!RejectFriendRequest, Friends!RemoveFriend
<1>2. Friends!AcceptFriendRequest(d, r) \in FriendsTables
  <2> DEFINE less == [d EXCEPT !.req = @ \ {r}]
             other == IF r = Friends!Mine THEN Friends!Yours ELSE Friends!Mine
  <2>1. less \in FriendsTables /\ less.fr = d.fr
    BY DEF FriendsTables
  <2>2. Friends!AcceptFriendRequest(d, r) = [less EXCEPT !.fr = @ \cup {other}]
    BY DEF Friends!AcceptFriendRequest
  <2>3. other \in {Friends!Mine, Friends!Yours}
    OBVIOUS
  <2> HIDE DEF less, other
  <2> QED
    BY <2>1, <2>2, <2>3 DEF FriendsTables
<1> QED
  BY <1>1, <1>2

(* Every step of the pages of friends keeps the tables and the tabs. *)
LEMMA FriendsStep == ASSUME FriendsInv, Friends!Next PROVE FriendsInv'
<1>1. db \in FriendsTables
  BY DEF FriendsInv
<1>2. \/ db' = db \/ db' \in Friends!Others(db)
      \/ \E o \in Friends!Ops : \E e \in Friends!Effects(db, o, pending[o].arg) : db' = e.db
  BY Friends!P!DbStep DEF Friends!Next
<1>3. ASSUME NEW d \in FriendsTables, NEW e \in Friends!Others(d) PROVE e \in FriendsTables
  <2>1. CASE e \in Friends!Looks(d)
    BY <2>1 DEF Friends!Looks, FriendsTables
  <2>2. CASE e \in Friends!Writes(d)
    <3> DEFINE done == [d EXCEPT !.look = {}]
    <3>1. done \in FriendsTables
      BY DEF FriendsTables
    <3>2. \/ e = IF Friends!Yours \in d.req THEN done
                 ELSE Friends!SendFriendRequest(done, Friends!Yours)
          \/ e = IF Friends!Yours \in d.fr THEN done
                 ELSE Friends!AcceptFriendRequest(done, Friends!Mine)
      BY <2>2, Zenon DEF Friends!Writes
    <3> HIDE DEF done
    <3> QED
      BY <3>1, <3>2, FriendHandlers
  <2>3. CASE e \in {Friends!CancelFriendRequest(d, Friends!Yours),
                     Friends!RejectFriendRequest(d, Friends!Mine), Friends!RemoveFriend(d)}
    BY <2>3, FriendHandlers
  <2> QED
    BY <1>3, <2>1, <2>2, <2>3 DEF Friends!Others
<1>4. ASSUME NEW d \in FriendsTables, NEW o \in Friends!Ops, NEW a,
             NEW e \in Friends!Effects(d, o, a)
      PROVE  e.db \in FriendsTables
  <2>1. e.db \in {d, Friends!SendFriendRequest(d, Friends!Mine),
                   Friends!AcceptFriendRequest(d, Friends!Yours),
                   Friends!RejectFriendRequest(d, Friends!Yours),
                   Friends!CancelFriendRequest(d, Friends!Mine), Friends!RemoveFriend(d)}
    <3>1. ASSUME NEW x, e \in Friends!Notified(x) \/ e \in Friends!Unnotified(x)
          PROVE  e.db = x
      BY <3>1 DEF Friends!Notified, Friends!Unnotified
    <3>2. CASE o = "send"
      <4>1. e \in Friends!Notified(Friends!SendFriendRequest(d, Friends!Mine))
        BY <1>4, <3>2 DEF Friends!Effects
      <4> QED
        BY <3>1, <4>1
    <3>3. CASE o = "accept"
      <4>1. e \in Friends!Notified(Friends!AcceptFriendRequest(d, Friends!Yours))
        BY <1>4, <3>3 DEF Friends!Effects
      <4> QED
        BY <3>1, <4>1
    <3>4. CASE o = "refuse"
      <4>1. e \in Friends!Notified(Friends!RejectFriendRequest(d, Friends!Yours))
        BY <1>4, <3>4 DEF Friends!Effects
      <4> QED
        BY <3>1, <4>1
    <3>5. CASE o = "cancel"
      <4>1. e \in Friends!Unnotified(Friends!CancelFriendRequest(d, Friends!Mine))
        BY <1>4, <3>5 DEF Friends!Effects
      <4> QED
        BY <3>1, <4>1
    <3>6. CASE o = "remove"
      <4>1. e \in Friends!Unnotified(Friends!RemoveFriend(d))
        BY <1>4, <3>6 DEF Friends!Effects
      <4> QED
        BY <3>1, <4>1
    <3> QED
      BY <3>2, <3>3, <3>4, <3>5, <3>6 DEF Friends!Ops
  <2> QED
    BY <2>1, FriendHandlers
<1>5. ui' = ui \/ ui' \in Friends!Turns(ui, data, pending)
  BY Friends!P!UiStep DEF Friends!Next, Friends!Sync, Friends!OnError, Friends!After
<1>6. ui' \in FriendsForms
  BY <1>5 DEF FriendsInv, FriendsForms, Friends!Turns, Friends!TabTurns
<1> QED
  BY <1>1, <1>2, <1>3, <1>4, <1>6 DEF FriendsInv

(* A button of a friend matches the rows of the answer it was drawn from. *)
LEMMA FriendsOffers == ASSUME FriendsInv PROVE Friends!OffersAreAccepted
<1> SUFFICES ASSUME Friends!P!Current, NEW o \in Friends!Ops,
                    Friends!Offered(ui, data, failed, pending, o),
                    ~ (ui.page = "friends" /\ o = "accept" /\ db.fr # {})
             PROVE  \E e \in Friends!Effects(db, o, Friends!Arg(ui, data, o)) : e.ok
  BY DEF Friends!OffersAreAccepted
<1>1. ASSUME NEW d PROVE \E e \in Friends!Notified(d) : e.ok
  BY DEF Friends!Notified
<1>2. ASSUME NEW d PROVE \E e \in Friends!Unnotified(d) : e.ok
  BY DEF Friends!Unnotified
<1>3. CASE o \in {"refuse", "cancel", "remove"}
  BY <1>1, <1>2, <1>3 DEF Friends!Effects
<1>4. ASSUME NEW q \in Friends!Queries, Friends!Active(ui, q), Friends!Shows(db, q) # {}
      PROVE  data[q] \in Friends!Shows(db, q)
  BY <1>4 DEF Friends!P!Current, Friends!P!ActiveIn
<1>5. /\ db.req \subseteq {Friends!Mine, Friends!Yours}
      /\ Friends!Mine # Friends!Yours
  BY DEF FriendsInv, FriendsTables, Friends!Mine, Friends!Yours
<1>6. CASE ui.page = "friends"
  <2>0. o \in Friends!FriendsOffers(ui, data)
    BY <1>6 DEF Friends!Offered
  <2>1. /\ o # "send"
        /\ o = "accept" => ui.tab = "received" /\ data["received"] # 0
    <3>1. CASE ui.tab = "friends"
      BY <2>0, <3>1 DEF Friends!FriendsOffers, Friends!FriendsTab, Friends!FriendCard
    <3>2. CASE ui.tab = "received"
      BY <2>0, <3>2 DEF Friends!FriendsOffers, Friends!ReceivedTab, Friends!FriendCard
    <3>3. CASE ui.tab = "sent"
      BY <2>0, <3>3 DEF Friends!FriendsOffers, Friends!SentTab, Friends!FriendCard
    <3> QED
      BY <3>1, <3>2, <3>3 DEF FriendsInv, FriendsForms, Friends!Tabs
  <2>3. o = "accept" => Friends!MayAccept(db, Friends!Yours)
    <3>1. CASE o = "accept"
      <4>1. "received" \in Friends!Queries /\ Friends!Active(ui, "received")
        BY <1>6, <2>1, <3>1 DEF Friends!Queries, Friends!Active, Friends!FriendsQueries
      <4>2. Friends!Shows(db, "received") = {IF Friends!Yours \in db.req THEN 1 ELSE 0}
        BY DEF Friends!Shows, Friends!ListFriendRequests
      <4>3. data["received"] \in Friends!Shows(db, "received")
        BY <1>4, <4>1, <4>2
      <4> QED
        BY <1>6, <2>1, <3>1, <4>2, <4>3 DEF Friends!MayAccept
    <3> QED
      BY <3>1
  <2> QED
    BY <1>1, <1>3, <2>1, <2>3 DEF Friends!Effects, Friends!Ops
<1>7. CASE ui.page \in {"users", "profile"}
  <2>1. PICK q \in {"users", "profile"} :
          /\ q = ui.page
          /\ o = "send" => data[q] = "none"
          /\ o = "accept" => data[q] = "received"
    BY <1>7 DEF Friends!Offered, Friends!UsersOffers, Friends!UserCard, Friends!ProfileOffers
  <2>2. q \in Friends!Queries /\ Friends!Active(ui, q)
    BY <2>1 DEF Friends!Queries, Friends!Active, Friends!UsersQueries, Friends!ProfileQueries
  <2>3. \/ Friends!Shows(db, q) = Friends!UserList(db)
        \/ Friends!Shows(db, q) = Friends!GetPublicProfile(db)
    BY <2>1 DEF Friends!Shows
  <2>4. Friends!Shows(db, q) # {}
    BY <2>3 DEF Friends!UserList, Friends!GetPublicProfile
  <2>5. data[q] \in Friends!Shows(db, q)
    BY <1>4, <2>2, <2>4
  <2>6. data[q] = "none" => Friends!MaySend(db)
    BY <2>3, <2>5 DEF Friends!UserList, Friends!GetPublicProfile, Friends!MaySend
  <2>7. data[q] = "received" => Friends!MayAccept(db, Friends!Yours)
    BY <1>5, <2>3, <2>5 DEF Friends!UserList, Friends!GetPublicProfile, Friends!MayAccept
  <2> QED
    BY <1>1, <1>3, <2>1, <2>6, <2>7 DEF Friends!Effects, Friends!Ops
<1> QED
  BY <1>6, <1>7 DEF FriendsInv, FriendsForms
-----------------------------------------------------------------------------
(* The pages of a team. *)
TeamTexts   == Bits \cup {Team!NoText}
TeamTables  == [captain : Team!Users \cup {"nobody"}, members : SUBSET Team!Users,
                asked : SUBSET Team!Users, locked : BOOLEAN, text : TeamTexts]
TeamCounts  == {0} \cup {Team!Cardinality(m) : m \in SUBSET Team!Users}
TeamDetails == [captain : Team!Users \cup {"nobody"}, locked : BOOLEAN, text : TeamTexts,
                count : TeamCounts]
TeamDrafts  == [locked : BOOLEAN, text : Bits]
TeamFields  == {"locked", "text"}
TeamForms   == [page : {"team", "teams", "visit"}, known : BOOLEAN, open : BOOLEAN,
                draft : TeamDrafts, touched : SUBSET TeamFields, unsaid : SUBSET Team!Queries]
TeamSaves   == [fields : SUBSET TeamFields, draft : TeamDrafts, touched : SUBSET TeamFields,
                unset : BOOLEAN]

(* On the page of the own team, the form differs from what the details make *)
(* of it only in what was edited, and the page knows what the last answer   *)
(* said.                                                                    *)
TeamFollows(u, d) ==
  u.page = "team" =>
    /\ u.known = d["user"]
    /\ \A f \in TeamFields : f \in u.touched \/ u.draft[f] = Team!Draft(d["details"])[f]

TeamInv ==
  /\ Team!P!Shaped
  /\ db \in TeamTables /\ ui \in TeamForms
  /\ data["details"] \in TeamDetails /\ data["user"] \in BOOLEAN
  /\ fetch["details"].at = "read" => fetch["details"].val \in TeamDetails
  /\ fetch["user"].at = "read" => fetch["user"].val \in BOOLEAN
  /\ TeamFollows(ui, data)
  /\ pending["save"].at = "sent" => pending["save"].arg \in TeamSaves
  /\ Team!SaveKeepsTheRest

(* The pages of a team are opened with the data of the service. *)
LEMMA TeamStart == ASSUME Team!Init PROVE TeamInv
<1>1. Team!P!InitLoaded(Team!InitialTeams, Team!InitialPages, Team!Empty)
      /\ (ui.known => "Me" \in db.members)
  BY DEF Team!Init
<1>2. /\ Team!P!Shaped /\ fetch["details"].at # "read" /\ fetch["user"].at # "read"
      /\ {"details", "user"} \subseteq Team!Queries /\ "save" \in Team!Ops
  BY <1>1, Team!P!ShapedInit DEF Team!Queries, Team!Empty, Team!Ops
<1>3. db \in TeamTables /\ db.locked = FALSE /\ db.text \in {Team!NoText, 0}
  <2>1. db \in Team!InitialTeams
    BY <1>1 DEF Team!P!InitLoaded
  <2> DEFINE led(c, m, a) == [Team!NoTeam EXCEPT !.captain = c, !.members = m, !.asked = a]
  <2>2. db \in {Team!NoTeam, led("You", {"You"}, {}), led("You", Team!Users, {}),
                led("Me", {"Me"}, {"You"}), led("Me", Team!Users, {}),
                [led("Me", Team!Users, {}) EXCEPT !.text = 0]}
    BY <2>1, Zenon DEF Team!InitialTeams
  <2>3. Team!NoTeam \in TeamTables /\ Team!NoTeam.locked = FALSE /\ Team!NoTeam.text = Team!NoText
    BY DEF Team!NoTeam, TeamTables, TeamTexts, Bits
  <2>4. ASSUME NEW c \in Team!Users, NEW m \in SUBSET Team!Users, NEW a \in SUBSET Team!Users
        PROVE  led(c, m, a) \in TeamTables /\ led(c, m, a).locked = FALSE
               /\ led(c, m, a).text = Team!NoText
    <3> DEFINE t == [Team!NoTeam EXCEPT !.captain = c]
               v == [t EXCEPT !.members = m]
               w == [v EXCEPT !.asked = a]
    <3>1. t \in TeamTables /\ t.locked = FALSE /\ t.text = Team!NoText
      BY <2>3 DEF TeamTables
    <3> HIDE DEF t
    <3>2. v \in TeamTables /\ v.locked = FALSE /\ v.text = Team!NoText
      BY <3>1 DEF TeamTables
    <3> HIDE DEF v
    <3>3. w \in TeamTables /\ w.locked = FALSE /\ w.text = Team!NoText
      BY <3>2 DEF TeamTables
    <3>4. led(c, m, a) = w
      BY DEF t, v
    <3> HIDE DEF w, led
    <3> QED
      BY <3>3, <3>4
  <2>5. /\ {"Me", "You"} \subseteq Team!Users
        /\ {"You"} \in SUBSET Team!Users /\ {"Me"} \in SUBSET Team!Users
        /\ {} \in SUBSET Team!Users /\ Team!Users \in SUBSET Team!Users
    BY DEF Team!Users
  <2> HIDE DEF led
  <2>6. CASE db = led("You", {"You"}, {})
    BY <2>4, <2>5, <2>6
  <2>7. CASE db = led("You", Team!Users, {})
    BY <2>4, <2>5, <2>7
  <2>8. CASE db = led("Me", {"Me"}, {"You"})
    BY <2>4, <2>5, <2>8
  <2>9. CASE db = led("Me", Team!Users, {})
    BY <2>4, <2>5, <2>9
  <2>10. CASE db = [led("Me", Team!Users, {}) EXCEPT !.text = 0]
    <3> DEFINE e == led("Me", Team!Users, {})
    <3>1. e \in TeamTables /\ e.locked = FALSE /\ db = [e EXCEPT !.text = 0]
      BY <2>4, <2>5, <2>10
    <3> HIDE DEF e
    <3> QED
      BY <3>1 DEF TeamTables, TeamTexts, Bits
  <2> QED
    BY <2>2, <2>3, <2>6, <2>7, <2>8, <2>9, <2>10
<1>4. ui \in Team!InitialPages
  BY <1>1 DEF Team!P!InitLoaded
<1>5. ui \in TeamForms /\ ui.draft = [locked |-> FALSE, text |-> 0] /\ ui.touched = {}
      /\ (ui.page = "team" => ui.known = TRUE)
  <2>1. ASSUME NEW route \in {"team", "teams", "visit"}
        PROVE  Team!Fresh(route) \in TeamForms
               /\ Team!Fresh(route).draft = [locked |-> FALSE, text |-> 0]
               /\ Team!Fresh(route).touched = {} /\ Team!Fresh(route).page = route
    BY DEF Team!Fresh, TeamForms, TeamDrafts, Bits
  <2>2. CASE ui = [Team!Fresh("team") EXCEPT !.known = TRUE]
    BY <2>1, <2>2 DEF TeamForms
  <2>3. CASE ui = Team!Fresh("teams") \/ ui = Team!Fresh("visit")
    BY <2>1, <2>3
  <2> QED
    BY <1>4, <2>2, <2>3 DEF Team!InitialPages
<1>6. /\ data["user"] \in BOOLEAN
      /\ ui.page = "team" => data["user"] = TRUE
  <2>1. Team!Active(ui, "user") /\ Team!Shows(db, "user") = {"Me" \in db.members}
    BY <1>5 DEF Team!Active, Team!TeamQueries, Team!TeamsQueries, Team!VisitQueries, TeamForms,
       Team!Shows, Team!TeamOfUser
  <2>2. data["user"] \in Team!Shows(db, "user")
    BY <1>1, <1>2, <2>1, Team!P!LoadedData
  <2> DEFINE b == "Me" \in db.members
  <2>3. data["user"] = b /\ b \in BOOLEAN
    BY <2>1, <2>2
  <2>4. ui.page = "team" => b
    BY <1>1, <1>5
  <2> HIDE DEF b
  <2> QED
    BY <2>3, <2>4
<1>7. /\ data["details"] \in TeamDetails
      /\ ui.page = "team" => /\ data["details"].locked = FALSE
                             /\ data["details"].text \in {Team!NoText, 0}
  <2>1. Team!Shows(db, "details") = Team!Details(db)
    BY DEF Team!Shows
  <2>2. data["details"] \in Team!Details(db) \/ data["details"] = Team!Empty["details"]
    BY <1>1, <1>2, <2>1, Team!P!LoadedData
  <2>3. Team!Empty["details"] = Team!NoDetails
    BY <1>2 DEF Team!Empty
  <2>4. Team!NoDetails \in TeamDetails /\ Team!NoDetails.locked = FALSE
        /\ Team!NoDetails.text = Team!NoText
    <3>1. 0 \in TeamCounts
      BY DEF TeamCounts
    <3> QED
      BY <3>1 DEF Team!NoDetails, TeamDetails, TeamTexts, Bits
  <2>6. CASE data["details"] \in Team!Details(db)
    <3>1. data["details"] = [captain |-> db.captain, locked |-> db.locked, text |-> db.text,
                             count |-> Team!Cardinality(db.members)]
      BY <2>6 DEF Team!Details
    <3>2. Team!Cardinality(db.members) \in TeamCounts
      <4>1. db.members \in SUBSET Team!Users
        BY <1>3 DEF TeamTables
      <4> QED
        BY <4>1, Zenon DEF TeamCounts
    <3> QED
      BY <1>3, <3>1, <3>2 DEF TeamTables, TeamDetails
  <2> QED
    BY <2>2, <2>3, <2>4, <2>6
<1>8. TeamFollows(ui, data)
  <2>1. ui.draft.locked = FALSE /\ ui.draft.text = 0
    BY <1>5
  <2>2. ui.page = "team" => \A f \in TeamFields : ui.draft[f] = Team!Draft(data["details"])[f]
    <3> DEFINE d == Team!Draft(data["details"])
    <3>1. ui.page = "team" => d.locked = FALSE /\ d.text = 0
      BY <1>7 DEF Team!Draft
    <3> HIDE DEF d
    <3>2. ui.page = "team" => \A f \in TeamFields : ui.draft[f] = d[f]
      BY <2>1, <3>1 DEF TeamFields
    <3> QED
      BY <3>2 DEF d
  <2> QED
    BY <1>5, <1>6, <2>2 DEF TeamFollows
<1>9. pending["save"].at # "sent"
  BY <1>1, <1>2 DEF Team!P!InitLoaded, Team!P!None
<1> QED
  BY <1>2, <1>3, <1>5, <1>6, <1>7, <1>8, <1>9 DEF TeamInv, Team!SaveKeepsTheRest

(* The handlers of a team, of this window and of others. *)
LEMMA TeamWrites ==
  ASSUME NEW d \in TeamTables, NEW u \in Team!Users
  PROVE  /\ Team!NoTeam \in TeamTables /\ Team!Create(d, u) \in TeamTables
         /\ Team!Ask(d, u) \in TeamTables /\ Team!Forget(d, u) \in TeamTables
         /\ Team!Accept(d, u) \in TeamTables /\ Team!Remove(d, u) \in TeamTables
         /\ [d EXCEPT !.captain = u] \in TeamTables
<1>1. Team!NoTeam \in TeamTables
  BY DEF Team!NoTeam, TeamTables, TeamTexts, Bits
<1>2. Team!Create(d, u) \in TeamTables
  BY DEF Team!Create, Team!NoTeam, TeamTables, TeamTexts, Bits
<1>3. Team!Ask(d, u) \in TeamTables
  BY DEF Team!Ask, TeamTables
<1>4. Team!Forget(d, u) \in TeamTables
  BY DEF Team!Forget, TeamTables
<1>5. Team!Accept(d, u) \in TeamTables
  BY <1>4 DEF Team!Accept, TeamTables
<1>6. Team!Remove(d, u) \in TeamTables
  BY DEF Team!Remove, TeamTables
<1>7. [d EXCEPT !.captain = u] \in TeamTables
  BY DEF TeamTables
<1> QED
  BY <1>1, <1>2, <1>3, <1>4, <1>5, <1>6, <1>7

LEMMA TeamHandlers ==
  ASSUME NEW d \in TeamTables, NEW o \in Team!Ops, NEW a, o = "save" => a \in TeamSaves,
         NEW e \in Team!Effects(d, o, a)
  PROVE  e.db \in TeamTables
<1>0. e.db \in Team!Handled(d, o, a) /\ {"Me", "You"} \subseteq Team!Users
  BY DEF Team!Effects, Team!Users
<1>1. CASE o = "save"
  <2> DEFINE locked == IF "locked" \in a.fields THEN a.draft.locked ELSE d.locked
             text   == IF "text" \in a.fields THEN a.draft.text ELSE d.text
             m      == [d EXCEPT !.locked = locked]
  <2>1. e.db = d \/ e.db = Team!UpdateTeam(d, a)
    BY <1>0, <1>1 DEF Team!Handled
  <2>2. locked \in BOOLEAN /\ text \in TeamTexts
    BY <1>1 DEF TeamSaves, TeamDrafts, TeamTables, TeamTexts
  <2>3. Team!UpdateTeam(d, a) = [m EXCEPT !.text = text]
    BY DEF Team!UpdateTeam, TeamTables
  <2> HIDE DEF locked, text
  <2>4. m \in TeamTables
    BY <2>2 DEF TeamTables
  <2> HIDE DEF m
  <2>5. Team!UpdateTeam(d, a) \in TeamTables
    BY <2>2, <2>3, <2>4 DEF TeamTables
  <2> QED
    BY <2>1, <2>5
<1>2. CASE o # "save"
  <2>1. e.db \in {Team!Accept(d, "You"), Team!Forget(d, "You"), Team!Remove(d, "You"),
                   [d EXCEPT !.captain = "You"], Team!Remove(d, "Me"), Team!NoTeam,
                   Team!Create(d, "Me"), Team!Ask(d, "Me"), Team!Forget(d, "Me")}
    BY <1>0, <1>2 DEF Team!Handled, Team!Ops
  <2> QED
    BY <1>0, <2>1, TeamWrites
<1> QED
  BY <1>1, <1>2

LEMMA TeamOthers ==
  ASSUME NEW d \in TeamTables, NEW e \in Team!Others(d)
  PROVE  e \in TeamTables
<1>0. {"Me", "You"} \subseteq Team!Users
  BY DEF Team!Users
<1>1. \/ e \in {Team!Ask(d, "You"), Team!Forget(d, "You"), Team!Remove(d, "You"), Team!NoTeam,
                Team!Remove(d, "Me"), [d EXCEPT !.captain = "Me"], Team!Accept(d, "Me")}
      \/ e = [d EXCEPT !.locked = ~@] \/ e \in {[d EXCEPT !.text = t] : t \in {0, 1}}
  <2> DEFINE you   == {x \in {Team!Ask(d, "You"), Team!Forget(d, "You")} :
                           Team!MayAsk(d, "You") \/ "You" \in d.asked}
             out   == IF "You" \in d.members /\ d.captain # "You" THEN {Team!Remove(d, "You")} ELSE {}
             moved == IF "Me" \in d.members
                      THEN {Team!Remove(d, "Me"), [d EXCEPT !.captain = "Me"]} ELSE {}
             taken == IF Team!MayAccept(d, "Me") THEN {Team!Accept(d, "Me")} ELSE {}
             led   == IF d.captain = "You"
                      THEN {Team!NoTeam, [d EXCEPT !.locked = ~@]} \cup moved \cup taken ELSE {}
             mine  == IF d.captain = "Me" THEN {[d EXCEPT !.locked = ~@]} \cup {[d EXCEPT !.text = t] : t \in {0, 1}}
                      ELSE {}
  <2>1. e \in you \cup out \cup led \cup mine
    BY Zenon DEF Team!Others
  <2>2. /\ you \subseteq {Team!Ask(d, "You"), Team!Forget(d, "You")}
        /\ out \subseteq {Team!Remove(d, "You")}
        /\ moved \subseteq {Team!Remove(d, "Me"), [d EXCEPT !.captain = "Me"]}
        /\ taken \subseteq {Team!Accept(d, "Me")}
        /\ mine \subseteq {[d EXCEPT !.locked = ~@]} \cup {[d EXCEPT !.text = t] : t \in {0, 1}}
    OBVIOUS
  <2>3. led \subseteq {Team!NoTeam, [d EXCEPT !.locked = ~@]} \cup moved \cup taken
    OBVIOUS
  <2> HIDE DEF you, out, led, mine, moved, taken
  <2> QED
    BY <2>1, <2>2, <2>3
<1>2. CASE e = [d EXCEPT !.locked = ~@]
  BY <1>2 DEF TeamTables
<1>3. CASE e \in {[d EXCEPT !.text = t] : t \in {0, 1}}
  BY <1>3 DEF TeamTables, TeamTexts, Bits
<1> QED
  BY <1>0, <1>1, <1>2, <1>3, TeamWrites

(* The captain opens the settings, edits or cancels. *)
LEMMA TeamTurnsFollow ==
  ASSUME NEW u \in TeamForms, NEW d, d["details"] \in TeamDetails, TeamFollows(u, d), NEW p,
         NEW v \in Team!Turns(u, d, p)
  PROVE  v \in TeamForms /\ TeamFollows(v, d)
<1>0. v \in Team!SettingsTurns(u, d) /\ u.page = "team"
  BY DEF Team!Turns
<1>1. CASE v = [u EXCEPT !.open = TRUE]
  <2>1. v \in TeamForms
    BY <1>1 DEF TeamForms
  <2>2. v.page = u.page /\ v.known = u.known /\ v.draft = u.draft /\ v.touched = u.touched
    BY <1>1 DEF TeamForms
  <2> QED
    BY <2>1, <2>2 DEF TeamFollows, TeamFields, Team!Draft
<1>2. CASE v = [u EXCEPT !.draft.locked = ~@, !.touched = @ \cup {"locked"}]
  <2> DEFINE draft == [u.draft EXCEPT !.locked = ~@]
             m == [u EXCEPT !.draft = draft]
  <2>1. draft \in TeamDrafts /\ draft.text = u.draft.text
    BY DEF TeamForms, TeamDrafts
  <2>2. v = [m EXCEPT !.touched = u.touched \cup {"locked"}]
    BY <1>2 DEF TeamForms, TeamDrafts
  <2> HIDE DEF draft
  <2>3. m \in TeamForms /\ m.draft = draft /\ m.page = u.page /\ m.known = u.known
    BY <2>1 DEF TeamForms
  <2> HIDE DEF m
  <2>4. /\ v \in TeamForms /\ v.draft = draft /\ v.page = u.page /\ v.known = u.known
        /\ v.touched = u.touched \cup {"locked"}
    BY <2>2, <2>3 DEF TeamForms, TeamFields
  <2> QED
    BY <2>1, <2>4 DEF TeamFollows, TeamFields, Team!Draft
<1>3. CASE v = [u EXCEPT !.draft.text = 1 - @, !.touched = @ \cup {"text"}]
  <2> DEFINE draft == [u.draft EXCEPT !.text = 1 - @]
             m == [u EXCEPT !.draft = draft]
  <2>1. draft \in TeamDrafts /\ draft.locked = u.draft.locked
    BY DEF TeamForms, TeamDrafts, Bits
  <2>2. v = [m EXCEPT !.touched = u.touched \cup {"text"}]
    BY <1>3 DEF TeamForms, TeamDrafts
  <2> HIDE DEF draft
  <2>3. m \in TeamForms /\ m.draft = draft /\ m.page = u.page /\ m.known = u.known
    BY <2>1 DEF TeamForms
  <2> HIDE DEF m
  <2>4. /\ v \in TeamForms /\ v.draft = draft /\ v.page = u.page /\ v.known = u.known
        /\ v.touched = u.touched \cup {"text"}
    BY <2>2, <2>3 DEF TeamForms, TeamFields
  <2> QED
    BY <2>1, <2>4 DEF TeamFollows, TeamFields, Team!Draft
<1>4. CASE v = [u EXCEPT !.open = FALSE, !.touched = {},
                         !.draft = Team!Draft(d["details"])]
  <2> DEFINE draft == Team!Draft(d["details"])
             m == [u EXCEPT !.open = FALSE]
             n == [m EXCEPT !.touched = {}]
  <2>1. draft \in TeamDrafts
    BY DEF Team!Draft, TeamDrafts, TeamDetails, TeamTexts, Bits
  <2>2. v = [n EXCEPT !.draft = draft]
    BY <1>4
  <2> HIDE DEF draft
  <2>3. m \in TeamForms /\ m.page = u.page /\ m.known = u.known
    BY DEF TeamForms
  <2> HIDE DEF m
  <2>4. n \in TeamForms /\ n.page = u.page /\ n.known = u.known
    BY <2>3 DEF TeamForms
  <2> HIDE DEF n
  <2>5. v \in TeamForms /\ v.draft = draft /\ v.page = u.page /\ v.known = u.known
    BY <2>1, <2>2, <2>4 DEF TeamForms
  <2> QED
    BY <2>5 DEF TeamFollows, draft
<1> QED
  BY <1>0, <1>1, <1>2, <1>3, <1>4 DEF Team!SettingsTurns

(* Answers set the form again, edits mark what they change. *)
LEMMA TeamStep == ASSUME TeamInv, Team!Next PROVE TeamInv'
<1>1. /\ Team!P!Next /\ Team!P!Shaped /\ {"details", "user"} \subseteq Team!Queries
      /\ "save" \in Team!Ops /\ db \in TeamTables /\ ui \in TeamForms
      /\ data["details"] \in TeamDetails /\ data["user"] \in BOOLEAN /\ TeamFollows(ui, data)
  BY DEF TeamInv, Team!Next, Team!Queries, Team!Ops
<1>2. Team!P!Shaped'
  BY <1>1, Team!P!ShapedStep
<1>3. db' \in TeamTables
  <2>1. ASSUME NEW o \in Team!Ops, pending[o].at = "sent",
               NEW e \in Team!Effects(db, o, pending[o].arg)
        PROVE  e.db \in TeamTables
    BY <1>1, <2>1, TeamHandlers DEF TeamInv
  <2> QED
    BY <1>1, <2>1, TeamOthers, Team!P!DbStep
<1>4. fetch'["details"].at = "read" => fetch'["details"].val \in TeamDetails
  <2>1. ASSUME NEW v \in Team!Shows(db, "details") PROVE v \in TeamDetails
    <3>1. v = [captain |-> db.captain, locked |-> db.locked, text |-> db.text,
               count |-> Team!Cardinality(db.members)]
      BY <2>1 DEF Team!Shows, Team!Details
    <3>2. Team!Cardinality(db.members) \in TeamCounts
      <4>1. db.members \in SUBSET Team!Users
        BY <1>1 DEF TeamTables
      <4> QED
        BY <4>1, Zenon DEF TeamCounts
    <3> QED
      BY <1>1, <3>1, <3>2 DEF TeamTables, TeamDetails
  <2>2. fetch'["details"].at = "read" =>
          \/ fetch["details"].at = "read" /\ fetch'["details"].val = fetch["details"].val
          \/ fetch'["details"].val \in Team!Shows(db, "details")
    BY <1>1, Team!P!AnswerStep
  <2> QED
    BY <2>1, <2>2 DEF TeamInv
<1>5. fetch'["user"].at = "read" => fetch'["user"].val \in BOOLEAN
  <2>1. \A v \in Team!Shows(db, "user") : v \in BOOLEAN
    BY DEF Team!Shows, Team!TeamOfUser
  <2>2. fetch'["user"].at = "read" =>
          \/ fetch["user"].at = "read" /\ fetch'["user"].val = fetch["user"].val
          \/ fetch'["user"].val \in Team!Shows(db, "user")
    BY <1>1, Team!P!AnswerStep
  <2> QED
    BY <2>1, <2>2 DEF TeamInv
<1> DEFINE Followed == /\ ui' \in TeamForms /\ TeamFollows(ui', data')
                       /\ data'["details"] \in TeamDetails /\ data'["user"] \in BOOLEAN
<1>6. ASSUME data' = data, ui' = ui PROVE Followed
  BY <1>1, <1>6
<1>7. ASSUME NEW q \in Team!Queries, fetch[q].at = "read", data' = [data EXCEPT ![q] = fetch[q].val],
             ui' = Team!Sync(ui, data, data', q)
      PROVE  Followed
  <2>1. /\ data'["details"] = IF q = "details" THEN fetch["details"].val ELSE data["details"]
        /\ data'["user"] = IF q = "user" THEN fetch["user"].val ELSE data["user"]
    BY <1>1, <1>7 DEF Team!P!Shaped
  <2>2. data'["details"] \in TeamDetails /\ data'["user"] \in BOOLEAN
    BY <1>1, <1>7, <2>1 DEF TeamInv
  <2>3. CASE ui.page # "team"
    BY <1>1, <1>7, <2>2, <2>3 DEF Team!Sync, TeamFollows
  <2>4. CASE ui.page = "team" /\ q = "user"
    <3>1. ui' = [ui EXCEPT !.known = data'["user"]]
      BY <1>7, <2>4 DEF Team!Sync
    <3>2. /\ ui' \in TeamForms /\ ui'.known = data'["user"]
          /\ ui'.draft = ui.draft /\ ui'.touched = ui.touched /\ ui'.page = ui.page
      BY <1>1, <2>2, <3>1 DEF TeamForms
    <3>3. data'["details"] = data["details"]
      BY <2>1, <2>4
    <3> QED
      BY <1>1, <2>2, <3>2, <3>3 DEF TeamFollows, TeamFields, Team!Draft
  <2>5. CASE ui.page = "team" /\ q = "details"
    <3>0. data'["user"] = data["user"]
      BY <2>1, <2>5
    <3>1. CASE ui' = ui /\ data'["details"].locked = data["details"].locked
                        /\ data'["details"].text = data["details"].text
      BY <1>1, <2>2, <3>0, <3>1 DEF TeamFollows, TeamFields, Team!Draft
    <3>2. CASE ui' = [ui EXCEPT !.draft = Team!Draft(data'["details"]), !.touched = {}]
      <4> DEFINE draft == Team!Draft(data'["details"])
                 m == [ui EXCEPT !.draft = draft]
      <4>1. draft \in TeamDrafts
        BY <2>2 DEF Team!Draft, TeamDrafts, TeamDetails, TeamTexts, Bits
      <4>2. ui' = [m EXCEPT !.touched = {}]
        BY <3>2
      <4> HIDE DEF draft
      <4>3. m \in TeamForms /\ m.draft = draft /\ m.page = ui.page /\ m.known = ui.known
        BY <1>1, <4>1 DEF TeamForms
      <4> HIDE DEF m
      <4>4. ui' \in TeamForms /\ ui'.draft = draft /\ ui'.page = ui.page /\ ui'.known = ui.known
        BY <4>2, <4>3 DEF TeamForms
      <4> QED
        BY <1>1, <2>2, <3>0, <4>4 DEF TeamFollows, draft
    <3> QED
      BY <1>7, <2>5, <3>1, <3>2 DEF Team!Sync, Team!SyncDraft
  <2>6. CASE ui.page = "team" /\ q \notin {"user", "details"}
    <3>1. ui' = ui
      BY <1>7, <2>6 DEF Team!Sync
    <3>2. data'["details"] = data["details"] /\ data'["user"] = data["user"]
      BY <2>1, <2>6
    <3> QED
      BY <1>1, <3>1, <3>2 DEF TeamFollows, TeamFields, Team!Draft
  <2> QED
    BY <2>3, <2>4, <2>5, <2>6
<1>8. ASSUME NEW q \in Team!Queries, NEW v \in Team!Left(data, q), data' = [data EXCEPT ![q] = v],
             ui' = Team!OnError(ui, q)
      PROVE  Followed
  <2>1. data' = data
    BY <1>1, <1>8 DEF Team!Left, Team!P!Shaped
  <2> QED
    BY <1>1, <1>8, <2>1 DEF Team!OnError
<1>9. ASSUME NEW u \in TeamForms, TeamFollows(u, data), NEW o \in Team!Ops,
             NEW w \in {"click", "ok", "done"}
      PROVE  Team!After(u, o, w) \in TeamForms /\ TeamFollows(Team!After(u, o, w), data)
  <2> DEFINE said == [u EXCEPT !.unsaid = @ \cup Team!Unsaid(u, o)]
  <2>1. Team!After(u, o, w) \in {u, [u EXCEPT !.open = FALSE], Team!Fresh("teams"), said}
    BY DEF Team!After
  <2>2. /\ [u EXCEPT !.open = FALSE] \in TeamForms
        /\ [u EXCEPT !.open = FALSE].page = u.page /\ [u EXCEPT !.open = FALSE].known = u.known
        /\ [u EXCEPT !.open = FALSE].draft = u.draft /\ [u EXCEPT !.open = FALSE].touched = u.touched
    BY DEF TeamForms
  <2>3. TeamFollows([u EXCEPT !.open = FALSE], data)
    <3> DEFINE m == [u EXCEPT !.open = FALSE]
    <3>1. m.page = u.page /\ m.known = u.known /\ m.draft = u.draft /\ m.touched = u.touched
      BY <2>2
    <3> HIDE DEF m
    <3>2. TeamFollows(m, data)
      BY <1>9, <3>1 DEF TeamFollows, TeamFields, Team!Draft
    <3> QED
      BY <3>2 DEF m
  <2>4. Team!Fresh("teams") \in TeamForms /\ Team!Fresh("teams").page = "teams"
    BY DEF Team!Fresh, TeamForms, TeamDrafts, Bits
  <2>5. TeamFollows(Team!Fresh("teams"), data)
    BY <2>4 DEF TeamFollows
  <2>6. said \in TeamForms /\ TeamFollows(said, data)
    <3> DEFINE more == u.unsaid \cup Team!Unsaid(u, o)
    <3>1. more \in SUBSET Team!Queries /\ said = [u EXCEPT !.unsaid = more]
      BY DEF Team!Unsaid, Team!Queries, TeamForms
    <3> HIDE DEF more, said
    <3>2. /\ said \in TeamForms
          /\ said.page = u.page /\ said.known = u.known /\ said.draft = u.draft
          /\ said.touched = u.touched
      BY <3>1 DEF TeamForms
    <3> QED
      BY <1>9, <3>2 DEF TeamFollows, TeamFields, Team!Draft
  <2> HIDE DEF said
  <2> QED
    BY <1>9, <2>1, <2>2, <2>3, <2>4, <2>5, <2>6
<1>10. ASSUME data' = data, NEW o \in Team!Ops,
              ui' \in {Team!After(ui, o, "click"), Team!After(ui, o, "ok"), Team!After(ui, o, "done"),
                       Team!After(Team!After(ui, o, "ok"), o, "done")}
       PROVE  Followed
  BY <1>1, <1>9, <1>10
<1>11. ASSUME data' = data, ui' \in Team!Turns(ui, data, pending) PROVE Followed
  BY <1>1, <1>11, TeamTurnsFollow
<1>12. Followed
  <2> HIDE DEF Followed
  <2> QED
    BY <1>1, <1>6, <1>7, <1>8, <1>10, <1>11, Team!P!UiStep
<1>13. ASSUME pending'["save"].at = "sent"
       PROVE  /\ pending'["save"].arg \in TeamSaves
              /\ \A f \in pending'["save"].arg.fields \ pending'["save"].arg.touched :
                    f = "text" /\ pending'["save"].arg.unset /\ pending'["save"].arg.draft.text = 0
  <2>1. CASE pending'["save"] = pending["save"]
    BY <1>13, <2>1 DEF TeamInv, Team!SaveKeepsTheRest
  <2>2. CASE /\ Team!Offered(ui, data, failed, pending, "save")
             /\ pending'["save"].arg = Team!Arg(ui, data, "save")
    <3>1. ui.page = "team"
      <4>1. "save" \notin Team!TeamsOffers(data)
        BY DEF Team!TeamsOffers, Team!TeamCard, Team!ModalCreateTeam
      <4>2. "save" \notin Team!VisitOffers(data, failed, pending)
        BY DEF Team!VisitOffers, Team!RenderAction
      <4> QED
        BY <1>1, <2>2, <4>1, <4>2 DEF Team!Offered, TeamForms
    <3>2. pending'["save"].arg = [fields |-> Team!Payload(ui, data), draft |-> ui.draft,
                                  touched |-> ui.touched,
                                  unset |-> data["details"].text = Team!NoText]
      BY <2>2 DEF Team!Arg
    <3>3. Team!Payload(ui, data) \subseteq TeamFields
      BY DEF Team!Payload, TeamFields
    <3>4. ASSUME NEW f \in Team!Payload(ui, data), f \notin ui.touched
          PROVE  f = "text" /\ data["details"].text = Team!NoText /\ ui.draft.text = 0
      <4>1. ui.draft[f] # data["details"][f] /\ f \in TeamFields
        BY DEF Team!Payload, TeamFields
      <4>2. ui.draft[f] = Team!Draft(data["details"])[f]
        BY <1>1, <3>1, <3>4, <4>1 DEF TeamFollows
      <4>3. CASE f = "locked"
        BY <4>1, <4>2, <4>3 DEF Team!Draft
      <4>4. CASE f = "text"
        <5>1. ui.draft.text = IF data["details"].text = Team!NoText THEN 0 ELSE data["details"].text
          BY <4>2, <4>4 DEF Team!Draft
        <5> QED
          BY <4>1, <4>4, <5>1
      <4> QED
        BY <4>1, <4>3, <4>4 DEF TeamFields
    <3> QED
      <4> DEFINE unset == data["details"].text = Team!NoText
                 fields == Team!Payload(ui, data)
      <4>1. /\ pending'["save"].arg = [fields |-> fields, draft |-> ui.draft,
                                        touched |-> ui.touched, unset |-> unset]
            /\ fields \subseteq TeamFields /\ unset \in BOOLEAN
            /\ \A f \in fields \ ui.touched : f = "text" /\ unset /\ ui.draft.text = 0
        BY <3>2, <3>3, <3>4, Zenon
      <4> HIDE DEF unset, fields
      <4>2. ui.draft \in TeamDrafts /\ ui.touched \in SUBSET TeamFields
        BY <1>1 DEF TeamForms
      <4>3. pending'["save"].arg \in TeamSaves
        BY <4>1, <4>2 DEF TeamSaves
      <4> QED
        BY <4>1, <4>3
  <2> QED
    BY <1>1, <1>13, <2>1, <2>2, Team!P!PendingStep
<1> QED
  BY <1>2, <1>3, <1>4, <1>5, <1>12, <1>13 DEF TeamInv, Team!SaveKeepsTheRest

(* A button of a member is there for a captain, and the card of a team for a visitor. *)
LEMMA TeamOffers == ASSUME TeamInv PROVE Team!OffersAreAccepted
<1> SUFFICES ASSUME Team!P!Current, NEW o \in Team!Ops,
                    Team!Offered(ui, data, failed, pending, o), ~ Team!NotGuarded(o)
             PROVE  Team!Handled(db, o, Team!Arg(ui, data, o)) # {}
  BY DEF Team!OffersAreAccepted, Team!Effects
<1>1. ui \in TeamForms /\ db \in TeamTables /\ data["user"] \in BOOLEAN
  BY DEF TeamInv
<1>2. ASSUME NEW q \in Team!Queries, Team!Active(ui, q)
      PROVE  IF Team!Shows(db, q) = {} THEN q \in failed ELSE data[q] \in Team!Shows(db, q)
  BY <1>2 DEF Team!P!Current, Team!P!ActiveIn
<1>3. {"user", "details", "members", "requests", "teams", "asked"} \subseteq Team!Queries
  BY DEF Team!Queries
<1>4. data["user"] = ("Me" \in db.members)
  <2>1. Team!Active(ui, "user")
    BY <1>1 DEF Team!Active, Team!TeamQueries, Team!TeamsQueries, Team!VisitQueries, TeamForms
  <2>2. Team!Shows(db, "user") = {"Me" \in db.members}
    BY DEF Team!Shows, Team!TeamOfUser
  <2> QED
    BY <1>2, <1>3, <2>1, <2>2
<1>5. ASSUME Team!Active(ui, "details"), "details" \notin failed
      PROVE  /\ Team!Exists(db)
             /\ data["details"].captain = db.captain /\ data["details"].locked = db.locked
  <2>1. Team!Shows(db, "details") = Team!Details(db)
    BY DEF Team!Shows
  <2>2. data["details"] \in Team!Details(db)
    BY <1>2, <1>3, <1>5, <2>1
  <2> QED
    BY <2>2 DEF Team!Details
<1>6. ASSUME Team!Active(ui, "members"), Team!Exists(db) PROVE data["members"] = db.members
  <2>1. Team!Shows(db, "members") = {db.members}
    BY <1>6 DEF Team!Shows, Team!Members
  <2> QED
    BY <1>2, <1>3, <1>6, <2>1
<1>7. ASSUME Team!Active(ui, "asked") PROVE data["asked"] = db.asked \cap {"Me"}
  <2>1. Team!Shows(db, "asked") = {db.asked \cap {"Me"}}
    BY DEF Team!Shows, Team!MyRequests
  <2> QED
    BY <1>2, <1>3, <1>7, <2>1
<1>8. ASSUME Team!Active(ui, "teams") PROVE data["teams"] = IF Team!Exists(db) THEN {db.locked} ELSE {}
  <2>1. Team!Shows(db, "teams") = {IF Team!Exists(db) THEN {db.locked} ELSE {}}
    BY DEF Team!Shows, Team!TeamList
  <2> QED
    BY <1>2, <1>3, <1>8, <2>1
<1>9. CASE ui.page = "team"
  <2>1. o \in Team!TeamOffers(ui, data, failed, pending)
    BY <1>9 DEF Team!Offered
  <2>2. data["user"] /\ "details" \notin failed
    BY <2>1 DEF Team!TeamOffers, Team!NotFound
  <2>3. ui.known
    BY <1>9, <2>2 DEF TeamInv, TeamFollows
  <2>4. Team!Active(ui, "details") /\ Team!Active(ui, "members")
    BY <1>9, <2>3 DEF Team!Active, Team!TeamQueries
  <2>5. /\ Team!Exists(db) /\ data["details"].captain = db.captain /\ data["members"] = db.members
        /\ "Me" \in db.members
    BY <1>4, <1>5, <1>6, <2>2, <2>4
  <2>6. \/ o \in Team!MembersTab(data) \/ o \in Team!RequestsTab(data)
        \/ o \in Team!SettingsDialog(ui, pending) \/ o \in Team!LeaveDialog(data)
    BY <2>1, Zenon DEF Team!TeamOffers
  <2>7. CASE o \in Team!MembersTab(data)
    <3>1. o \in {"kick", "crown"} /\ "You" \in db.members /\ db.captain = "Me"
      BY <2>5, <2>7 DEF Team!MembersTab, Team!TeamMemberCard
    <3> QED
      BY <3>1 DEF Team!Handled
  <2>8. CASE o \in Team!RequestsTab(data)
    <3>1. o \in {"accept", "reject"} /\ db.captain = "Me"
      BY <2>5, <2>8 DEF Team!RequestsTab, Team!JoinRequestCard
    <3> QED
      BY <3>1 DEF Team!Handled, Team!NotGuarded
  <2>9. CASE o \in Team!SettingsDialog(ui, pending)
    <3>1. o \in {"delete", "save"} /\ db.captain = "Me"
      BY <2>9 DEF Team!SettingsDialog, Team!NotGuarded
    <3> QED
      BY <3>1 DEF Team!Handled
  <2>10. CASE o \in Team!LeaveDialog(data)
    <3>1. o = "leave" /\ db.captain # "Me"
      BY <2>5, <2>10 DEF Team!LeaveDialog
    <3> QED
      BY <2>5, <3>1 DEF Team!Handled
  <2> QED
    BY <2>6, <2>7, <2>8, <2>9, <2>10
<1>10. CASE ui.page \in {"teams", "visit"} /\ o = "cancel"
  BY <1>10 DEF Team!Handled
<1>11. CASE ui.page \in {"teams", "visit"} /\ o = "create"
  <2>1. ~ data["user"]
    BY <1>11 DEF Team!Offered, Team!TeamsOffers, Team!TeamCard, Team!ModalCreateTeam,
       Team!VisitOffers, Team!RenderAction
  <2>2. "Me" \notin db.members
    BY <1>4, <2>1
  <2> QED
    BY <1>11, <2>2 DEF Team!Handled, Team!NotGuarded
<1>12. CASE ui.page \in {"teams", "visit"} /\ o \notin {"cancel", "create"}
  <2>1. /\ o = "ask" /\ ~ data["user"] /\ data["asked"] = {}
        /\ ui.page = "teams" => data["teams"] # {} /\ data["teams"] # {TRUE}
        /\ ui.page = "visit" => "details" \notin failed /\ ~ data["details"].locked
    BY <1>12 DEF Team!Offered, Team!TeamsOffers, Team!TeamCard, Team!ModalCreateTeam,
       Team!VisitOffers, Team!RenderAction
  <2>2. Team!Active(ui, "asked")
    BY <1>12 DEF Team!Active, Team!TeamsQueries, Team!VisitQueries
  <2>3. "Me" \notin db.asked /\ "Me" \notin db.members
    BY <1>4, <1>7, <2>1, <2>2
  <2>4. Team!Exists(db) /\ ~ db.locked
    <3>1. CASE ui.page = "teams"
      <4>1. Team!Active(ui, "teams")
        BY <3>1 DEF Team!Active, Team!TeamsQueries
      <4>2. db.locked \in BOOLEAN
        BY <1>1 DEF TeamTables
      <4> QED
        BY <1>8, <2>1, <3>1, <4>1, <4>2
    <3>2. CASE ui.page = "visit"
      <4>1. Team!Active(ui, "details")
        BY <3>2 DEF Team!Active, Team!VisitQueries
      <4> QED
        BY <1>5, <2>1, <3>2, <4>1
    <3> QED
      BY <1>12, <3>1, <3>2
  <2>5. Team!MayAsk(db, "Me")
    BY <2>3, <2>4 DEF Team!MayAsk
  <2> QED
    BY <2>1, <2>5 DEF Team!Handled
<1> QED
  BY <1>1, <1>9, <1>10, <1>11, <1>12 DEF TeamForms
-----------------------------------------------------------------------------
(* The pages of an event. *)
EventStatuses == {"none", "published", "active", "ended", "gone"}
EventTables  == [status : EventStatuses, joined : BOOLEAN, full : BOOLEAN, captain : BOOLEAN,
                 name : Bits, whole : BOOLEAN, score : Bits]
EventViews == [status : EventStatuses, joined : BOOLEAN, name : Bits, whole : BOOLEAN]
EventForms   == [page : {"event", "events", "board"}, role : {"player", "admin"},
                 dialog : {"none", "edit", "delete", "leave", "create"},
                 draft : Bits, touched : BOOLEAN]
EventSaves   == [fields : SUBSET {"name", "times"}, draft : Bits, touched : BOOLEAN]

(* A form that is open and was not edited shows the name it was set to. *)
EventFollows(u, d) == u.dialog = "edit" /\ ~ u.touched => u.draft = d["form"].name

EventInv ==
  /\ Event!P!Shaped
  /\ db \in EventTables /\ ui \in EventForms
  /\ data["form"] \in EventViews
  /\ fetch["form"].at = "read" => fetch["form"].val \in EventViews
  /\ EventFollows(ui, data)
  /\ pending["update"].at = "sent" => pending["update"].arg \in EventSaves
  /\ Event!SaveKeepsTheRest

(* The pages of an event are opened without a dialog. *)
LEMMA EventStart == ASSUME Event!Init PROVE EventInv
<1>1. Event!P!InitLoaded(Event!InitialEvents, Event!InitialPages, Event!Empty)
  BY DEF Event!Init
<1>2. /\ Event!P!Shaped /\ fetch["form"].at # "read"
      /\ "form" \in Event!Queries /\ "update" \in Event!Ops
  BY <1>1, Event!P!ShapedInit DEF Event!Queries, Event!Empty, Event!Ops
<1>3. db \in EventTables
  <2>1. db \in Event!InitialEvents
    BY <1>1 DEF Event!P!InitLoaded
  <2>2. Event!Event \in EventTables
    BY DEF Event!Event, EventTables, EventStatuses, Bits
  <2> QED
    BY <2>1, <2>2 DEF Event!InitialEvents, EventTables, EventStatuses
<1>4. ui \in EventForms /\ ui.dialog = "none"
  <2>1. ui \in Event!InitialPages
    BY <1>1 DEF Event!P!InitLoaded
  <2>2. ASSUME NEW route \in {"event", "events", "board"}, NEW role \in {"player", "admin"}
        PROVE  Event!Fresh(route, role) \in EventForms /\ Event!Fresh(route, role).dialog = "none"
    BY DEF Event!Fresh, EventForms, Bits
  <2> QED
    BY <2>1, <2>2 DEF Event!InitialPages
<1>5. data["form"] \in EventViews
  <2>1. data["form"] \in Event!GetEvent(db) \/ data["form"] = Event!Empty["form"]
    BY <1>1, <1>2, Event!P!LoadedData DEF Event!Shows
  <2>2. Event!Empty["form"] = Event!NoEvent
    BY <1>2 DEF Event!Empty
  <2>3. Event!NoEvent \in EventViews
    BY DEF Event!NoEvent, EventViews, EventStatuses, Bits
  <2> QED
    BY <1>3, <2>1, <2>2, <2>3 DEF Event!GetEvent, EventTables, EventViews
<1>6. pending["update"].at # "sent"
  BY <1>1, <1>2 DEF Event!P!InitLoaded, Event!P!None
<1> QED
  BY <1>2, <1>3, <1>4, <1>5, <1>6 DEF EventInv, EventFollows, Event!SaveKeepsTheRest

(* The handlers of an event, of this user and of others. *)
LEMMA EventHandlers ==
  ASSUME NEW d \in EventTables, NEW o \in Event!Ops, NEW a, o = "update" => a \in EventSaves,
         NEW e \in Event!Effects(d, o, a)
  PROVE  e.db \in EventTables
<1>1. Event!Event \in EventTables
  BY DEF Event!Event, EventTables, EventStatuses, Bits
<1>2. CASE o = "join"
  <2>1. e.db \in Event!JoinEvent(d)
    BY <1>2 DEF Event!Effects
  <2>2. e.db = [d EXCEPT !.joined = TRUE]
    BY <2>1 DEF Event!JoinEvent
  <2> QED
    BY <2>2 DEF EventTables
<1>3. CASE o = "leave"
  <2>1. e.db \in Event!LeaveEvent(d)
    BY <1>3 DEF Event!Effects
  <2>2. e.db = [d EXCEPT !.joined = FALSE]
    BY <2>1 DEF Event!LeaveEvent
  <2> QED
    BY <2>2 DEF EventTables
<1>4. CASE o = "delete"
  BY <1>4 DEF Event!Effects, Event!DeleteEvent, EventTables, EventStatuses
<1>5. CASE o = "update"
  <2> DEFINE name == IF "name" \in a.fields THEN a.draft ELSE d.name
             m    == [d EXCEPT !.name = name]
  <2>1. name \in Bits
    BY <1>5 DEF EventSaves, EventTables
  <2>2. e.db = [m EXCEPT !.whole = TRUE]
    BY <1>5 DEF Event!Effects, Event!UpdateEvent, EventTables
  <2> HIDE DEF name
  <2>3. m \in EventTables
    BY <2>1 DEF EventTables
  <2> HIDE DEF m
  <2> QED
    BY <2>2, <2>3 DEF EventTables
<1>6. CASE o = "create"
  BY <1>1, <1>6 DEF Event!Effects, Event!CreateEvent
<1> QED
  BY <1>2, <1>3, <1>4, <1>5, <1>6 DEF Event!Ops

(* The cron, players, another captain and a second organizer. *)
LEMMA EventOthers ==
  ASSUME NEW d \in EventTables, NEW e \in Event!Others(d)
  PROVE  e \in EventTables
<1>1. \/ e \in Event!Moves(d)
      \/ e = [d EXCEPT !.full = ~@] \/ e = [d EXCEPT !.captain = ~@] \/ e = [d EXCEPT !.joined = ~@]
      \/ e = [d EXCEPT !.name = 1 - @] \/ e = [d EXCEPT !.status = "gone"]
  BY Zenon DEF Event!Others
<1>2. CASE e \in Event!Moves(d)
  <2>1. \/ e = [d EXCEPT !.status = "active"] \/ e = [d EXCEPT !.status = "ended"]
        \/ e = [d EXCEPT !.score = 1 - @]
    BY <1>2 DEF Event!Moves
  <2> QED
    BY <2>1 DEF EventTables, EventStatuses, Bits
<1>3. CASE e = [d EXCEPT !.full = ~@] \/ e = [d EXCEPT !.captain = ~@] \/ e = [d EXCEPT !.joined = ~@]
  BY <1>3 DEF EventTables
<1>4. CASE e = [d EXCEPT !.name = 1 - @] \/ e = [d EXCEPT !.status = "gone"]
  BY <1>4 DEF EventTables, EventStatuses, Bits
<1> QED
  BY <1>1, <1>2, <1>3, <1>4

(* A form that is set, opened, edited or closed. *)
LEMMA EventFormKept ==
  ASSUME NEW u \in EventForms, NEW d, d["form"] \in EventViews
  PROVE  /\ Event!SetForm(u, d) \in EventForms /\ Event!SetForm(u, d).draft = d["form"].name
         /\ Event!Closed(u) \in EventForms /\ Event!Closed(u).dialog = "none"
         /\ \A route \in {"event", "events"} : /\ Event!Fresh(route, u.role) \in EventForms
                                               /\ Event!Fresh(route, u.role).dialog = "none"
<1>1. Event!SetForm(u, d) \in EventForms /\ Event!SetForm(u, d).draft = d["form"].name
  <2> DEFINE m == [u EXCEPT !.draft = d["form"].name]
             s == Event!SetForm(u, d)
  <2>1. m \in EventForms /\ m.draft = d["form"].name
    BY DEF EventForms, EventViews
  <2>2. s = [m EXCEPT !.touched = FALSE]
    BY DEF Event!SetForm
  <2> HIDE DEF m, s
  <2>3. s \in EventForms /\ s.draft = d["form"].name
    BY <2>1, <2>2 DEF EventForms
  <2> QED
    BY <2>3 DEF s
<1>2. Event!Closed(u) \in EventForms /\ Event!Closed(u).dialog = "none"
  <2> DEFINE m == [u EXCEPT !.dialog = "none"]
             n == [m EXCEPT !.draft = 0]
             s == Event!Closed(u)
  <2>1. m \in EventForms /\ m.dialog = "none"
    BY DEF EventForms
  <2>2. s = [n EXCEPT !.touched = FALSE]
    BY DEF Event!Closed
  <2> HIDE DEF m, s
  <2>3. n \in EventForms /\ n.dialog = "none"
    BY <2>1 DEF EventForms, Bits
  <2> HIDE DEF n
  <2>4. s \in EventForms /\ s.dialog = "none"
    BY <2>2, <2>3 DEF EventForms
  <2> QED
    BY <2>4 DEF s
<1>3. ASSUME NEW route \in {"event", "events"}
      PROVE  /\ Event!Fresh(route, u.role) \in EventForms
             /\ Event!Fresh(route, u.role).dialog = "none"
  BY DEF Event!Fresh, EventForms, Bits
<1> QED
  BY <1>1, <1>2, <1>3

(* A dialog is opened, edited or closed. *)
LEMMA EventTurnsFollow ==
  ASSUME NEW u \in EventForms, NEW d, d["form"] \in EventViews, EventFollows(u, d), NEW p,
         NEW v \in Event!Turns(u, d, p)
  PROVE  v \in EventForms /\ EventFollows(v, d)
<1>1. CASE v = Event!Closed(u)
  BY <1>1, EventFormKept DEF EventFollows
<1>2. CASE v \in Event!Edits(u)
  <2> DEFINE m == [u EXCEPT !.draft = 1 - @]
  <2>1. m \in EventForms
    BY DEF EventForms, Bits
  <2>2. v = [m EXCEPT !.touched = TRUE]
    BY <1>2 DEF Event!Edits
  <2> HIDE DEF m
  <2> QED
    BY <2>1, <2>2 DEF EventForms, EventFollows
<1>3. ASSUME NEW x \in {"edit", "delete", "leave", "create"}, v = Event!Opened(u, d, x)
      PROVE  v \in EventForms /\ EventFollows(v, d)
  <2>1. CASE x = "edit"
    <3> DEFINE m == Event!SetForm(u, d)
    <3>1. m \in EventForms /\ m.draft = d["form"].name
      BY EventFormKept
    <3>2. v = [m EXCEPT !.dialog = "edit"]
      BY <1>3, <2>1 DEF Event!Opened
    <3> HIDE DEF m
    <3> QED
      BY <3>1, <3>2 DEF EventForms, EventFollows
  <2>2. CASE x # "edit"
    BY <1>3, <2>2 DEF Event!Opened, EventForms, EventFollows
  <2> QED
    BY <2>1, <2>2
<1>4. Event!Openings(u, d, p) \subseteq {"edit", "delete", "leave", "create"}
  BY DEF Event!Openings, Event!AdminButtons, Event!Unregister, Event!EventsButtons, EventForms
<1> QED
  BY <1>1, <1>2, <1>3, <1>4 DEF Event!Turns

(* Every answer of the form sets it again, and a save sends what was edited. *)
LEMMA EventStep == ASSUME EventInv, Event!Next PROVE EventInv'
<1>1. /\ Event!P!Next /\ Event!P!Shaped /\ "form" \in Event!Queries /\ "update" \in Event!Ops
      /\ db \in EventTables /\ ui \in EventForms /\ data["form"] \in EventViews
      /\ EventFollows(ui, data)
  BY DEF EventInv, Event!Next, Event!Queries, Event!Ops
<1>2. Event!P!Shaped'
  BY <1>1, Event!P!ShapedStep
<1>3. db' \in EventTables
  <2>1. ASSUME NEW o \in Event!Ops, pending[o].at = "sent",
               NEW e \in Event!Effects(db, o, pending[o].arg)
        PROVE  e.db \in EventTables
    BY <1>1, <2>1, EventHandlers DEF EventInv
  <2> QED
    BY <1>1, <2>1, EventOthers, Event!P!DbStep
<1>4. fetch'["form"].at = "read" => fetch'["form"].val \in EventViews
  <2>1. \A v \in Event!Shows(db, "form") : v \in EventViews
    BY <1>1 DEF Event!Shows, Event!GetEvent, EventTables, EventViews
  <2>2. fetch'["form"].at = "read" =>
          \/ fetch["form"].at = "read" /\ fetch'["form"].val = fetch["form"].val
          \/ fetch'["form"].val \in Event!Shows(db, "form")
    BY <1>1, Event!P!AnswerStep
  <2> QED
    BY <2>1, <2>2 DEF EventInv
<1> DEFINE Followed == ui' \in EventForms /\ EventFollows(ui', data') /\ data'["form"] \in EventViews
<1>5. ASSUME data' = data, ui' = ui PROVE Followed
  BY <1>1, <1>5
<1>6. ASSUME NEW q \in Event!Queries, fetch[q].at = "read", data' = [data EXCEPT ![q] = fetch[q].val],
             ui' = Event!Sync(ui, data, data', q)
      PROVE  Followed
  <2>1. data'["form"] = IF q = "form" THEN fetch["form"].val ELSE data["form"]
    BY <1>1, <1>6 DEF Event!P!Shaped
  <2>2. data'["form"] \in EventViews
    BY <1>1, <1>6, <2>1 DEF EventInv
  <2>3. CASE q = "form" /\ ui.dialog = "edit"
    <3>1. ui' = Event!SetForm(ui, data')
      BY <1>6, <2>3 DEF Event!Sync
    <3>2. ui' \in EventForms /\ ui'.draft = data'["form"].name
      BY <1>1, <2>2, <3>1, EventFormKept
    <3> QED
      BY <2>2, <3>2 DEF EventFollows
  <2>4. CASE ~ (q = "form" /\ ui.dialog = "edit")
    BY <1>1, <1>6, <2>1, <2>2, <2>4 DEF Event!Sync, EventFollows
  <2> QED
    BY <2>3, <2>4
<1>7. ASSUME NEW q \in Event!Queries, NEW v \in Event!Left(data, q), data' = [data EXCEPT ![q] = v],
             ui' = Event!OnError(ui, q)
      PROVE  Followed
  <2>1. data'["form"] = data["form"]
    BY <1>1, <1>7 DEF Event!Left, Event!P!Shaped
  <2> QED
    BY <1>1, <1>7, <2>1 DEF Event!OnError, EventFollows
<1>8. ASSUME NEW u \in EventForms, EventFollows(u, data), NEW o \in Event!Ops,
             NEW w \in {"click", "ok", "done"}
      PROVE  Event!After(u, o, w) \in EventForms /\ EventFollows(Event!After(u, o, w), data)
  <2>1. Event!After(u, o, w) \in {u, Event!Closed(u), Event!Fresh("events", u.role),
                                  Event!Fresh("event", u.role)}
    BY DEF Event!After, Event!AfterCreate, Event!Ops
  <2> QED
    BY <1>1, <1>8, <2>1, EventFormKept DEF EventFollows
<1>9. ASSUME data' = data, NEW o \in Event!Ops,
             ui' \in {Event!After(ui, o, "click"), Event!After(ui, o, "ok"), Event!After(ui, o, "done"),
                      Event!After(Event!After(ui, o, "ok"), o, "done")}
      PROVE  Followed
  BY <1>1, <1>8, <1>9
<1>10. ASSUME data' = data, ui' \in Event!Turns(ui, data, pending) PROVE Followed
  BY <1>1, <1>10, EventTurnsFollow
<1>11. Followed
  <2> HIDE DEF Followed
  <2> QED
    BY <1>1, <1>5, <1>6, <1>7, <1>9, <1>10, Event!P!UiStep
<1>12. ASSUME pending'["update"].at = "sent"
       PROVE  /\ pending'["update"].arg \in EventSaves
              /\ "name" \in pending'["update"].arg.fields => pending'["update"].arg.touched
  <2>1. CASE pending'["update"] = pending["update"]
    BY <1>12, <2>1 DEF EventInv, Event!SaveKeepsTheRest
  <2>2. CASE /\ Event!Offered(ui, data, failed, pending, "update")
             /\ pending'["update"].arg = Event!Arg(ui, data, "update")
    <3>1. ui.dialog = "edit"
      BY <1>1, <2>2 DEF Event!Offered, Event!EventForm, EventForms
    <3>2. pending'["update"].arg =
            [fields |-> Event!Diff(ui, data), draft |-> ui.draft, touched |-> ui.touched]
      BY <2>2 DEF Event!Arg
    <3>3. Event!Diff(ui, data) \in SUBSET {"name", "times"}
          /\ ("name" \in Event!Diff(ui, data) => ui.touched)
      BY <1>1, <3>1 DEF EventFollows, Event!Diff
    <3> QED
      BY <1>1, <3>2, <3>3 DEF EventSaves, EventForms
  <2> QED
    BY <1>1, <1>12, <2>1, <2>2, Event!P!PendingStep
<1> QED
  BY <1>2, <1>3, <1>4, <1>11, <1>12 DEF EventInv, Event!SaveKeepsTheRest

(* A registration is offered to a captain of a team that may register. *)
LEMMA EventOffers == ASSUME EventInv PROVE Event!OffersAreAccepted
<1> SUFFICES ASSUME Event!P!Current, NEW o \in Event!Ops,
                    Event!Offered(ui, data, failed, pending, o), ~ Event!NotGuarded(o)
             PROVE  Event!Effects(db, o, Event!Arg(ui, data, o)) # {}
  BY DEF Event!OffersAreAccepted
<1>0. ui \in EventForms /\ db \in EventTables
  BY DEF EventInv
<1>1. CASE o = "create"
  <2>1. Event!CreateEvent(db) # {}
    BY <1>1 DEF Event!NotGuarded, Event!CreateEvent
  <2> QED
    BY <1>1, <2>1 DEF Event!Effects
<1>2. CASE o # "create"
  <2>1. ui.page = "event" /\ "event" \notin failed
    BY <1>0, <1>2 DEF Event!Offered, EventForms
  <2>2. {"event", "team"} \subseteq Event!P!ActiveIn(ui)
    BY <2>1 DEF Event!P!ActiveIn, Event!Active, Event!EventQueries, Event!Queries
  <2>3. Event!Shows(db, "event") = Event!GetEvent(db) /\ Event!Shows(db, "team") = {db.captain}
    BY DEF Event!Shows, Event!TeamMe
  <2>4. data["event"] \in Event!GetEvent(db) /\ data["team"] = db.captain
    BY <2>1, <2>2, <2>3 DEF Event!P!Current
  <2>5. Event!Exists(db) /\ data["event"].status = db.status /\ data["event"].joined = db.joined
    BY <2>4 DEF Event!GetEvent
  <2>6. CASE o = "join"
    <3>1. Event!JoinEvent(db) # {}
      BY <2>1, <2>4, <2>5, <2>6 DEF Event!Offered, Event!JoinButton, Event!Registration,
         Event!NotGuarded, Event!JoinEvent
    <3> QED
      BY <2>6, <3>1 DEF Event!Effects
  <2>7. CASE o = "leave"
    <3>1. Event!LeaveEvent(db) # {}
      BY <2>4, <2>5, <2>7 DEF Event!Registration, Event!NotGuarded, Event!LeaveEvent
    <3> QED
      BY <2>7, <3>1 DEF Event!Effects
  <2>8. CASE o = "delete"
    <3>1. Event!DeleteEvent(db) # {}
      BY <1>0, <2>5, <2>8 DEF Event!NotGuarded, Event!DeleteEvent, Event!Exists, EventTables,
         EventStatuses
    <3> QED
      BY <2>8, <3>1 DEF Event!Effects
  <2>9. CASE o = "update"
    <3>1. Event!Arg(ui, data, o).fields = Event!Diff(ui, data)
      BY <2>9 DEF Event!Arg
    <3>2. Event!UpdateEvent(db, Event!Arg(ui, data, o)) # {}
      BY <2>5, <2>9, <3>1 DEF Event!NotGuarded, Event!UpdateEvent
    <3> QED
      BY <2>9, <3>2 DEF Event!Effects
  <2> QED
    BY <1>2, <2>6, <2>7, <2>8, <2>9 DEF Event!Ops
<1> QED
  BY <1>1, <1>2
-----------------------------------------------------------------------------
(* The challenges of an event. *)
LinkTables == [linked : SUBSET Links!Challenges, reward : [Links!Challenges -> Bits]]
LinkForms  == [page : {"challenges"}, drafts : LinkTables, touched : SUBSET Links!Challenges]
LinkSaves  == [reward : Bits, touched : BOOLEAN]

(* The table has a draft for each row, and it differs where it was edited. *)
DraftsFollow(u, d) ==
  /\ u.drafts.linked = d["linked"].linked
  /\ \A c \in Links!Challenges :
       u.drafts.reward[c] # d["linked"].reward[c] => c \in u.touched

LinksInv ==
  /\ Links!P!Shaped
  /\ db \in LinkTables /\ ui \in LinkForms
  /\ data["linked"] \in LinkTables
  /\ fetch["linked"].at = "read" => fetch["linked"].val \in LinkTables
  /\ DraftsFollow(ui, data)
  /\ \A o \in Links!Ops : pending[o].at = "sent" => pending[o].arg \in LinkSaves
  /\ Links!SaveKeepsTheRest

(* The dialog begins with the rows of the event managed before. *)
LEMMA LinksStart == ASSUME Links!Init PROVE LinksInv
<1>1. PICK rows \in {Links!NoLinks, Links!Linked({"web"})} :
        Links!P!InitPage({Links!NoLinks, Links!Linked({"web"}), Links!Linked(Links!Challenges)},
                         {Links!Drafts(rows)}, [q \in Links!Queries |-> rows])
  BY DEF Links!Init
<1>2. Links!P!Shaped /\ fetch["linked"].at # "read" /\ "linked" \in Links!Queries
  BY <1>1, Links!P!ShapedInit DEF Links!Queries
<1>3. \A S \in SUBSET Links!Challenges : Links!Linked(S) \in LinkTables
  BY DEF Links!Linked, Links!NoLinks, LinkTables, Bits
<1>4. Links!NoLinks \in LinkTables
  BY DEF Links!NoLinks, LinkTables, Bits
<1>5. db \in LinkTables /\ rows \in LinkTables
  BY <1>1, <1>3, <1>4 DEF Links!P!InitPage, Links!Challenges
<1>6. ui = Links!Drafts(rows) /\ data["linked"] = rows
  BY <1>1, <1>2 DEF Links!P!InitPage
<1>7. ui \in LinkForms /\ DraftsFollow(ui, data)
  BY <1>5, <1>6 DEF LinkForms, DraftsFollow, Links!Drafts
<1>8. \A o \in Links!Ops : pending[o].at # "sent"
  BY <1>1 DEF Links!P!InitPage, Links!P!None
<1>9. \A c \in Links!Challenges : <<"save", c>> \in Links!Ops
  BY DEF Links!Ops
<1> QED
  BY <1>2, <1>5, <1>6, <1>7, <1>8, <1>9 DEF LinksInv, Links!SaveKeepsTheRest

(* The handlers of the links. *)
LEMMA LinkHandlers ==
  ASSUME NEW d \in LinkTables, NEW c \in Links!Challenges, NEW r \in Bits,
         NEW e \in Links!LinkChallenge(d, c) \cup Links!UnlinkChallenge(d, c)
                   \cup Links!UpdateChallenge(d, c, r)
  PROVE  e \in LinkTables
<1> DEFINE cleared == [d.reward EXCEPT ![c] = 0]
           changed == [d.reward EXCEPT ![c] = r]
<1>1. {cleared, changed} \subseteq [Links!Challenges -> Bits]
  BY DEF LinkTables, Bits
<1>2. e \in {[linked |-> d.linked \cup {c}, reward |-> cleared],
             [linked |-> d.linked \ {c}, reward |-> cleared], [d EXCEPT !.reward = changed]}
  BY DEF Links!LinkChallenge, Links!UnlinkChallenge, Links!UpdateChallenge, LinkTables
<1> HIDE DEF cleared, changed
<1> QED
  BY <1>1, <1>2 DEF LinkTables

(* Other rows set every draft again, equal rows keep them. *)
LEMMA LinksStep == ASSUME LinksInv, Links!Next PROVE LinksInv'
<1>1. /\ Links!P!Next /\ Links!P!Shaped /\ "linked" \in Links!Queries
      /\ db \in LinkTables /\ ui \in LinkForms /\ data["linked"] \in LinkTables
      /\ DraftsFollow(ui, data)
  BY DEF LinksInv, Links!Next, Links!Queries
<1>2. Links!P!Shaped'
  BY <1>1, Links!P!ShapedStep
<1>3. db' \in LinkTables
  <2>1. ASSUME NEW e \in Links!Others(db) PROVE e \in LinkTables
    <3>1. PICK c \in Links!Challenges :
            e \in Links!LinkChallenge(db, c) \cup Links!UnlinkChallenge(db, c)
                  \cup Links!UpdateChallenge(db, c, 1 - db.reward[c])
      BY <2>1 DEF Links!Others
    <3>2. 1 - db.reward[c] \in Bits
      BY <1>1 DEF LinkTables, Bits
    <3> QED
      BY <1>1, <3>1, <3>2, LinkHandlers
  <2>2. ASSUME NEW o \in Links!Ops, pending[o].at = "sent",
               NEW e \in Links!Effects(db, o, pending[o].arg)
        PROVE  e.db \in LinkTables
    <3>1. o[1] \in {"link", "unlink", "save"} /\ o[2] \in Links!Challenges
      BY DEF Links!Ops
    <3>2. pending[o].arg.reward \in Bits
      BY <2>2 DEF LinksInv, LinkSaves
    <3>3. e.db \in Links!LinkChallenge(db, o[2]) \cup Links!UnlinkChallenge(db, o[2])
                   \cup Links!UpdateChallenge(db, o[2], pending[o].arg.reward)
      BY <2>2, <3>1 DEF Links!Effects
    <3> QED
      BY <1>1, <3>1, <3>2, <3>3, LinkHandlers
  <2> QED
    BY <1>1, <2>1, <2>2, Links!P!DbStep
<1>4. fetch'["linked"].at = "read" => fetch'["linked"].val \in LinkTables
  <2>1. fetch'["linked"].at = "read" =>
          \/ fetch["linked"].at = "read" /\ fetch'["linked"].val = fetch["linked"].val
          \/ fetch'["linked"].val \in Links!Shows(db, "linked")
    BY <1>1, Links!P!AnswerStep
  <2> QED
    BY <1>1, <2>1 DEF LinksInv, Links!Shows, Links!ListCtfsChallengesAdmin
<1> DEFINE Followed == ui' \in LinkForms /\ DraftsFollow(ui', data') /\ data'["linked"] \in LinkTables
<1>5. ASSUME data' = data, ui' = ui PROVE Followed
  BY <1>1, <1>5
<1>6. ASSUME NEW q \in Links!Queries, fetch[q].at = "read", data' = [data EXCEPT ![q] = fetch[q].val],
             ui' = Links!Sync(ui, data, data', q)
      PROVE  Followed
  <2>1. q = "linked" /\ data'["linked"] = fetch["linked"].val
    BY <1>1, <1>6 DEF Links!Queries, Links!P!Shaped
  <2>2. data'["linked"] \in LinkTables
    BY <1>6, <2>1 DEF LinksInv
  <2>3. CASE data'["linked"] = data["linked"]
    BY <1>1, <1>6, <2>2, <2>3 DEF Links!Sync, DraftsFollow
  <2>4. CASE data'["linked"] # data["linked"]
    BY <1>6, <2>2, <2>4 DEF Links!Sync, Links!Drafts, DraftsFollow, LinkForms
  <2> QED
    BY <2>3, <2>4
<1>7. ASSUME NEW q \in Links!Queries, NEW v \in Links!Left(data, q), data' = [data EXCEPT ![q] = v],
             ui' = Links!OnError(ui, q)
      PROVE  Followed
  <2>1. data' = data
    BY <1>1, <1>7 DEF Links!Left, Links!P!Shaped
  <2> QED
    BY <1>1, <1>7, <2>1 DEF Links!OnError
<1>8. ASSUME data' = data, NEW o \in Links!Ops,
             ui' \in {Links!After(ui, o, "click"), Links!After(ui, o, "ok"), Links!After(ui, o, "done"),
                      Links!After(Links!After(ui, o, "ok"), o, "done")}
      PROVE  Followed
  BY <1>1, <1>8 DEF Links!After
<1>9. ASSUME data' = data, ui' \in Links!Turns(ui, data, pending) PROVE Followed
  <2>1. PICK c \in ui.drafts.linked :
          ui' = [ui EXCEPT !.drafts.reward[c] = 1 - @, !.touched = @ \cup {c}]
    BY <1>9 DEF Links!Turns
  <2> DEFINE reward == [ui.drafts.reward EXCEPT ![c] = 1 - @]
             drafts == [ui.drafts EXCEPT !.reward = reward]
             m      == [ui EXCEPT !.drafts = drafts]
  <2>2. /\ c \in Links!Challenges
        /\ reward \in [Links!Challenges -> Bits]
        /\ \A x \in Links!Challenges \ {c} : reward[x] = ui.drafts.reward[x]
    BY <1>1, <2>1 DEF LinkForms, LinkTables, Bits
  <2>3. ui' = [m EXCEPT !.touched = ui.touched \cup {c}]
    BY <1>1, <2>1 DEF LinkForms, LinkTables
  <2> HIDE DEF reward
  <2>4. drafts \in LinkTables /\ drafts.reward = reward /\ drafts.linked = ui.drafts.linked
    BY <1>1, <2>2 DEF LinkForms, LinkTables
  <2> HIDE DEF drafts
  <2>5. m \in LinkForms /\ m.drafts = drafts /\ m.touched = ui.touched
    BY <1>1, <2>4 DEF LinkForms
  <2> HIDE DEF m
  <2>6. ui' \in LinkForms /\ ui'.drafts = drafts /\ ui'.touched = ui.touched \cup {c}
    BY <2>2, <2>3, <2>5 DEF LinkForms
  <2> QED
    BY <1>1, <1>9, <2>2, <2>4, <2>6 DEF DraftsFollow
<1>10. Followed
  <2> HIDE DEF Followed
  <2> QED
    BY <1>1, <1>5, <1>6, <1>7, <1>8, <1>9, Links!P!UiStep
<1>11. ASSUME NEW o \in Links!Ops, pending'[o].at = "sent"
       PROVE  pending'[o].arg \in LinkSaves /\ (o[1] = "save" => pending'[o].arg.touched)
  <2>1. o[2] \in Links!Challenges /\ o = <<o[1], o[2]>>
    BY DEF Links!Ops
  <2>2. CASE pending'[o] = pending[o]
    <3>1. pending[o].arg \in LinkSaves
      BY <1>11, <2>2 DEF LinksInv
    <3>2. o[1] = "save" => pending[o].arg.touched
      BY <1>11, <2>1, <2>2, Zenon DEF LinksInv, Links!SaveKeepsTheRest
    <3> QED
      BY <2>2, <3>1, <3>2
  <2>3. CASE Links!Offered(ui, data, failed, pending, o) /\ pending'[o].arg = Links!Arg(ui, data, o)
    <3> DEFINE b == o[2] \in ui.touched
    <3>1. pending'[o].arg = [reward |-> ui.drafts.reward[o[2]], touched |-> b]
      BY <2>3 DEF Links!Arg
    <3>2. ui.drafts.reward[o[2]] \in Bits /\ b \in BOOLEAN
      BY <1>1, <2>1 DEF LinkForms, LinkTables
    <3>3. o[1] = "save" => b
      BY <1>1, <2>1, <2>3 DEF Links!Offered, Links!Changed, DraftsFollow
    <3> HIDE DEF b
    <3> QED
      BY <3>1, <3>2, <3>3 DEF LinkSaves
  <2> QED
    BY <1>1, <1>11, <2>2, <2>3, Links!P!PendingStep
<1>12. Links!SaveKeepsTheRest'
  <2>1. \A c \in Links!Challenges : <<"save", c>> \in Links!Ops
    BY DEF Links!Ops
  <2> QED
    BY <1>11, <2>1 DEF Links!SaveKeepsTheRest
<1> QED
  BY <1>2, <1>3, <1>4, <1>10, <1>11, <1>12 DEF LinksInv

(* The table has the rows of the service. *)
LEMMA LinksOffers == ASSUME LinksInv PROVE Links!OffersAreAccepted
<1> SUFFICES ASSUME Links!P!Current, NEW o \in Links!Ops,
                    Links!Offered(ui, data, failed, pending, o)
             PROVE  Links!Effects(db, o, Links!Arg(ui, data, o)) # {}
  BY DEF Links!OffersAreAccepted
<1>1. o[1] \in {"link", "unlink", "save"} /\ o[2] \in Links!Challenges
  BY DEF Links!Ops
<1>2. data["linked"] = db
  BY DEF Links!P!Current, Links!P!ActiveIn, Links!Active, Links!Queries, Links!Shows,
         Links!ListCtfsChallengesAdmin
<1>3. ui.drafts.linked = db.linked
  BY <1>2 DEF LinksInv, DraftsFollow
<1>4. CASE o[1] = "link"
  <2>1. Links!LinkChallenge(db, o[2]) # {}
    BY <1>2, <1>4 DEF Links!Offered, Links!SearchRow, Links!LinkChallenge
  <2> QED
    BY <1>4, <2>1 DEF Links!Effects
<1>5. CASE o[1] = "unlink"
  <2>1. Links!UnlinkChallenge(db, o[2]) # {}
    BY <1>3, <1>5 DEF Links!Offered, Links!DraftRow, Links!UnlinkChallenge
  <2> QED
    BY <1>5, <2>1 DEF Links!Effects
<1>6. CASE o[1] = "save"
  <2>1. o[2] \in db.linked
    BY <1>3, <1>6 DEF Links!Offered, Links!DraftRow
  <2>2. Links!UpdateChallenge(db, o[2], Links!Arg(ui, data, o).reward) # {}
    BY <2>1 DEF Links!UpdateChallenge
  <2> QED
    BY <1>6, <2>2 DEF Links!Effects
<1> QED
  BY <1>1, <1>4, <1>5, <1>6
-----------------------------------------------------------------------------
(* The challenges of the site. *)
Columns        == {"text", "pub"}
CatalogueRows  == [text : Int, pub : BOOLEAN]
CatalogueTables == [Catalogue!Ids -> CatalogueRows]
CatalogueForms == [page : {"challenges"}, form : {"none", "create", "update"}, id : Catalogue!Ids,
                   of : CatalogueRows, draft : CatalogueRows, touched : SUBSET Columns,
                   target : Catalogue!Ids \cup {"none"}]
CatalogueSaves == [id : Catalogue!Ids, fields : SUBSET Columns, draft : CatalogueRows,
                   touched : SUBSET Columns]

FormFollows(u) == u.form = "update" => Catalogue!Diff(u) \subseteq u.touched

CatalogueInv ==
  /\ Catalogue!P!Shaped
  /\ db \in CatalogueTables /\ ui \in CatalogueForms
  /\ data["challenges"] \in CatalogueTables
  /\ fetch["challenges"].at = "read" => fetch["challenges"].val \in CatalogueTables
  /\ FormFollows(ui)
  /\ pending["delete"].at = "sent" => pending["delete"].arg \in Catalogue!Ids
  /\ pending["create"].at = "sent" => pending["create"].arg \in CatalogueRows
  /\ pending["update"].at = "sent" => pending["update"].arg \in CatalogueSaves
  /\ Catalogue!SaveKeepsTheRest

(* A row made of two rows, field by field. *)
LEMMA MixedRow ==
  ASSUME NEW a \in CatalogueRows, NEW b \in CatalogueRows, NEW F
  PROVE  [f \in {"text", "pub"} |-> IF f \in F THEN a[f] ELSE b[f]] \in CatalogueRows
<1> DEFINE m == [f \in {"text", "pub"} |-> IF f \in F THEN a[f] ELSE b[f]]
           r == [text |-> m["text"], pub |-> m["pub"]]
<1>1. m["text"] \in Int /\ m["pub"] \in BOOLEAN
  BY DEF CatalogueRows
<1>2. m = r
  OBVIOUS
<1> HIDE DEF m
<1>3. r \in CatalogueRows
  BY <1>1 DEF CatalogueRows
<1> HIDE DEF r
<1>4. m \in CatalogueRows
  BY <1>2, <1>3
<1> QED
  BY <1>4 DEF m

(* The handlers of the challenge service. *)
LEMMA CatalogueHandlers ==
  ASSUME NEW d \in CatalogueTables, NEW c \in Catalogue!Ids, NEW a \in CatalogueRows, NEW F,
         NEW e \in Catalogue!RouteChallengeDelete(d, c) \cup Catalogue!RouteChallengeCreate(d, c, a)
                   \cup Catalogue!RouteChallengeUpdate(d, c, F, a)
  PROVE  e \in CatalogueTables
<1> DEFINE m == [f \in {"text", "pub"} |-> IF f \in F THEN a[f] ELSE d[c][f]]
<1>1. d[c] \in CatalogueRows
  BY DEF CatalogueTables
<1>2. m \in CatalogueRows
  BY <1>1, MixedRow
<1>3. Catalogue!None \in CatalogueRows
  BY DEF Catalogue!None, CatalogueRows
<1>4. e \in {[d EXCEPT ![c] = Catalogue!None], [d EXCEPT ![c] = a], [d EXCEPT ![c] = m]}
  BY DEF Catalogue!RouteChallengeDelete, Catalogue!RouteChallengeCreate,
         Catalogue!RouteChallengeUpdate
<1> HIDE DEF m
<1> QED
  BY <1>2, <1>3, <1>4 DEF CatalogueTables

(* The page of the catalogue is opened without a dialog. *)
LEMMA CatalogueStart == ASSUME Catalogue!Init PROVE CatalogueInv
<1>1. Catalogue!P!InitLoaded({Catalogue!Only({"web"}), Catalogue!Only(Catalogue!Ids)},
        {Catalogue!Closed}, [q \in Catalogue!Queries |-> Catalogue!Only({})])
  BY DEF Catalogue!Init
<1>2. /\ Catalogue!P!Shaped /\ fetch["challenges"].at # "read"
      /\ "challenges" \in Catalogue!Queries
  BY <1>1, Catalogue!P!ShapedInit DEF Catalogue!Queries
<1>3. {Catalogue!Row, Catalogue!None} \subseteq CatalogueRows
  BY DEF Catalogue!Row, Catalogue!None, CatalogueRows
<1>4. \A S : Catalogue!Only(S) \in CatalogueTables
  BY <1>3 DEF Catalogue!Only, CatalogueTables
<1>5. ui = Catalogue!Closed /\ db \in CatalogueTables
  BY <1>1, <1>4 DEF Catalogue!P!InitLoaded
<1>6. ui \in CatalogueForms /\ FormFollows(ui)
  BY <1>3, <1>5 DEF Catalogue!Closed, CatalogueForms, FormFollows, Catalogue!Ids
<1>7. data["challenges"] = db
  BY <1>1, <1>2, Catalogue!P!LoadedData DEF Catalogue!Active, Catalogue!Shows,
     Catalogue!RouteChallengesList
<1>8. pending["delete"].at # "sent" /\ pending["create"].at # "sent" /\ pending["update"].at # "sent"
  BY <1>1 DEF Catalogue!P!InitLoaded, Catalogue!P!None, Catalogue!Ops
<1> QED
  BY <1>2, <1>5, <1>6, <1>7, <1>8 DEF CatalogueInv, Catalogue!SaveKeepsTheRest

(* A dialog is opened, edited or closed. *)
LEMMA CatalogueTurnsFollow ==
  ASSUME NEW u \in CatalogueForms, FormFollows(u), NEW d, d["challenges"] \in CatalogueTables,
         NEW p, NEW v \in Catalogue!Turns(u, d, p)
  PROVE  v \in CatalogueForms /\ FormFollows(v)
<1>0. Catalogue!Closed \in CatalogueForms /\ Catalogue!Closed.form = "none"
      /\ Catalogue!Closed.touched = {}
  BY DEF Catalogue!Closed, CatalogueForms, Catalogue!Ids, Catalogue!Row, Catalogue!None,
         CatalogueRows
<1>1. CASE v = Catalogue!Closed
  BY <1>0, <1>1 DEF FormFollows
<1>2. CASE v = [Catalogue!Closed EXCEPT !.form = "create"]
  BY <1>0, <1>2 DEF FormFollows, CatalogueForms
<1>3. ASSUME NEW c \in Catalogue!Ids, v = [Catalogue!Closed EXCEPT !.target = c]
      PROVE  v \in CatalogueForms /\ FormFollows(v)
  BY <1>0, <1>3 DEF FormFollows, CatalogueForms
<1>4. ASSUME NEW c \in Catalogue!Ids,
             v = [Catalogue!Closed EXCEPT !.form = "update", !.id = c, !.of = d["challenges"][c],
                                          !.draft = d["challenges"][c]]
      PROVE  v \in CatalogueForms /\ FormFollows(v)
  <2> DEFINE r == d["challenges"][c]
  <2>1. r \in CatalogueRows
    BY DEF CatalogueTables
  <2>2. v = [page |-> "challenges", form |-> "update", id |-> c, of |-> r, draft |-> r,
             touched |-> {}, target |-> "none"]
    BY <1>4 DEF Catalogue!Closed
  <2> HIDE DEF r
  <2> QED
    BY <2>1, <2>2 DEF CatalogueForms, FormFollows, Catalogue!Diff
<1>5. CASE v = [u EXCEPT !.draft.text = 1 - @, !.touched = @ \cup {"text"}]
  <2> DEFINE draft == [u.draft EXCEPT !.text = 1 - @]
             m == [u EXCEPT !.draft = draft]
  <2>1. draft \in CatalogueRows /\ draft.pub = u.draft.pub
    BY DEF CatalogueForms, CatalogueRows
  <2>2. v = [m EXCEPT !.touched = u.touched \cup {"text"}]
    BY <1>5 DEF CatalogueForms, CatalogueRows
  <2> HIDE DEF draft
  <2>3. m \in CatalogueForms /\ m.draft = draft /\ m.of = u.of /\ m.form = u.form
    BY <2>1 DEF CatalogueForms
  <2> HIDE DEF m
  <2>4. /\ v \in CatalogueForms /\ v.draft = draft /\ v.of = u.of /\ v.form = u.form
        /\ v.touched = u.touched \cup {"text"}
    BY <2>2, <2>3 DEF CatalogueForms, Columns
  <2> QED
    BY <2>1, <2>4 DEF FormFollows, Catalogue!Diff
<1>6. CASE v = [u EXCEPT !.draft.pub = ~@, !.touched = @ \cup {"pub"}]
  <2> DEFINE draft == [u.draft EXCEPT !.pub = ~@]
             m == [u EXCEPT !.draft = draft]
  <2>1. draft \in CatalogueRows /\ draft.text = u.draft.text
    BY DEF CatalogueForms, CatalogueRows
  <2>2. v = [m EXCEPT !.touched = u.touched \cup {"pub"}]
    BY <1>6 DEF CatalogueForms, CatalogueRows
  <2> HIDE DEF draft
  <2>3. m \in CatalogueForms /\ m.draft = draft /\ m.of = u.of /\ m.form = u.form
    BY <2>1 DEF CatalogueForms
  <2> HIDE DEF m
  <2>4. /\ v \in CatalogueForms /\ v.draft = draft /\ v.of = u.of /\ v.form = u.form
        /\ v.touched = u.touched \cup {"pub"}
    BY <2>2, <2>3 DEF CatalogueForms, Columns
  <2> QED
    BY <2>1, <2>4 DEF FormFollows, Catalogue!Diff
<1> QED
  BY <1>1, <1>2, <1>3, <1>4, <1>5, <1>6, Zenon
     DEF Catalogue!Turns, Catalogue!OpenForm, Catalogue!OpenDelete, Catalogue!Edits

(* A form keeps the challenge it was opened with. *)
LEMMA CatalogueStep == ASSUME CatalogueInv, Catalogue!Next PROVE CatalogueInv'
<1>1. /\ Catalogue!P!Next /\ Catalogue!P!Shaped /\ "challenges" \in Catalogue!Queries
      /\ db \in CatalogueTables /\ ui \in CatalogueForms
      /\ data["challenges"] \in CatalogueTables /\ FormFollows(ui)
      /\ {"delete", "create", "update"} \subseteq Catalogue!Ops
  BY DEF CatalogueInv, Catalogue!Next, Catalogue!Queries, Catalogue!Ops
<1>2. Catalogue!P!Shaped'
  BY <1>1, Catalogue!P!ShapedStep
<1>3. db' \in CatalogueTables
  <2>0. /\ Catalogue!Row \in CatalogueRows
        /\ [Catalogue!Row EXCEPT !.text = 1] \in CatalogueRows
        /\ [Catalogue!Row EXCEPT !.pub = TRUE] \in CatalogueRows
    <3>1. Catalogue!Row \in CatalogueRows
      BY DEF Catalogue!Row, CatalogueRows
    <3>2. [Catalogue!Row EXCEPT !.text = 1] \in CatalogueRows
      BY <3>1 DEF CatalogueRows
    <3>3. [Catalogue!Row EXCEPT !.pub = TRUE] \in CatalogueRows
      BY <3>1 DEF CatalogueRows
    <3> QED
      BY <3>1, <3>2, <3>3
  <2>1. ASSUME NEW e \in Catalogue!Others(db) PROVE e \in CatalogueTables
    <3>1. PICK c \in Catalogue!Ids :
            e \in Catalogue!RouteChallengeDelete(db, c)
                  \cup Catalogue!RouteChallengeCreate(db, c, Catalogue!Row)
                  \cup Catalogue!RouteChallengeUpdate(db, c, {"text"},
                                                       [Catalogue!Row EXCEPT !.text = 1])
                  \cup Catalogue!RouteChallengeUpdate(db, c, {"pub"},
                                                       [Catalogue!Row EXCEPT !.pub = TRUE])
      BY <2>1, Zenon DEF Catalogue!Others
    <3> QED
      BY <1>1, <2>0, <3>1, CatalogueHandlers
  <2>2. ASSUME NEW o \in Catalogue!Ops, pending[o].at = "sent",
               NEW e \in Catalogue!Effects(db, o, pending[o].arg)
        PROVE  e.db \in CatalogueTables
    <3>1. CASE o = "delete"
      <4>1. e.db \in Catalogue!RouteChallengeDelete(db, pending[o].arg)
        BY <2>2, <3>1 DEF Catalogue!Effects
      <4>2. pending[o].arg \in Catalogue!Ids
        BY <2>2, <3>1 DEF CatalogueInv
      <4> QED
        BY <1>1, <2>0, <4>1, <4>2, CatalogueHandlers
    <3>2. CASE o = "create"
      <4>1. PICK c \in Catalogue!Ids : e.db \in Catalogue!RouteChallengeCreate(db, c, pending[o].arg)
        BY <2>2, <3>2 DEF Catalogue!Effects
      <4>2. pending[o].arg \in CatalogueRows
        BY <2>2, <3>2 DEF CatalogueInv
      <4> QED
        BY <1>1, <4>1, <4>2, CatalogueHandlers
    <3>3. CASE o = "update"
      <4> DEFINE a == pending[o].arg
      <4>1. e.db \in Catalogue!RouteChallengeUpdate(db, a.id, a.fields, a.draft)
        BY <2>2, <3>3 DEF Catalogue!Effects
      <4>2. a.id \in Catalogue!Ids /\ a.draft \in CatalogueRows
        BY <2>2, <3>3 DEF CatalogueInv, CatalogueSaves
      <4> QED
        BY <1>1, <4>1, <4>2, CatalogueHandlers
    <3> QED
      BY <3>1, <3>2, <3>3 DEF Catalogue!Ops
  <2> QED
    BY <1>1, <2>1, <2>2, Catalogue!P!DbStep
<1>4. fetch'["challenges"].at = "read" => fetch'["challenges"].val \in CatalogueTables
  <2>1. fetch'["challenges"].at = "read" =>
          \/ fetch["challenges"].at = "read" /\ fetch'["challenges"].val = fetch["challenges"].val
          \/ fetch'["challenges"].val \in Catalogue!Shows(db, "challenges")
    BY <1>1, Catalogue!P!AnswerStep
  <2> QED
    BY <1>1, <2>1 DEF CatalogueInv, Catalogue!Shows, Catalogue!RouteChallengesList
<1> DEFINE Followed == /\ ui' \in CatalogueForms /\ FormFollows(ui')
                       /\ data'["challenges"] \in CatalogueTables
<1>5. ASSUME data' = data, ui' = ui PROVE Followed
  BY <1>1, <1>5
<1>6. ASSUME NEW q \in Catalogue!Queries, fetch[q].at = "read",
             data' = [data EXCEPT ![q] = fetch[q].val], ui' = Catalogue!Sync(ui, data, data', q)
      PROVE  Followed
  <2>1. q = "challenges" /\ data'["challenges"] = fetch["challenges"].val
    BY <1>1, <1>6 DEF Catalogue!Queries, Catalogue!P!Shaped
  <2> QED
    BY <1>1, <1>6, <2>1 DEF CatalogueInv, Catalogue!Sync
<1>7. ASSUME NEW q \in Catalogue!Queries, NEW v \in Catalogue!Left(data, q),
             data' = [data EXCEPT ![q] = v], ui' = Catalogue!OnError(ui, q)
      PROVE  Followed
  <2>1. data' = data
    BY <1>1, <1>7 DEF Catalogue!Left, Catalogue!P!Shaped
  <2> QED
    BY <1>1, <1>7, <2>1 DEF Catalogue!OnError
<1>8. ASSUME NEW u \in CatalogueForms, FormFollows(u), NEW o \in Catalogue!Ops,
             NEW w \in {"click", "ok", "done"}
      PROVE  Catalogue!After(u, o, w) \in CatalogueForms /\ FormFollows(Catalogue!After(u, o, w))
  <2> DEFINE v == Catalogue!After(u, o, w)
  <2>1. v = u \/ v = Catalogue!CloseForm(u) \/ v = [u EXCEPT !.target = "none"]
    BY DEF Catalogue!After, Catalogue!Ops
  <2> HIDE DEF v
  <2>2. ASSUME v = Catalogue!CloseForm(u) PROVE v \in CatalogueForms /\ FormFollows(v)
    <3>1. Catalogue!Closed \in CatalogueForms /\ Catalogue!Closed.form = "none"
      BY DEF Catalogue!Closed, CatalogueForms, Catalogue!Ids, Catalogue!Row, Catalogue!None,
             CatalogueRows
    <3> QED
      BY <2>2, <3>1 DEF Catalogue!CloseForm, CatalogueForms, FormFollows
  <2>3. ASSUME v = [u EXCEPT !.target = "none"] PROVE v \in CatalogueForms /\ FormFollows(v)
    <3>1. v \in CatalogueForms
      BY <1>8, <2>3 DEF CatalogueForms
    <3>2. v.form = u.form /\ v.of = u.of /\ v.draft = u.draft /\ v.touched = u.touched
      BY <1>8, <2>3 DEF CatalogueForms
    <3> QED
      BY <1>8, <3>1, <3>2 DEF FormFollows, Catalogue!Diff
  <2>4. v \in CatalogueForms /\ FormFollows(v)
    BY <1>8, <2>1, <2>2, <2>3
  <2> QED
    BY <2>4 DEF v
<1>9. ASSUME data' = data, NEW o \in Catalogue!Ops,
             ui' \in {Catalogue!After(ui, o, "click"), Catalogue!After(ui, o, "ok"),
                      Catalogue!After(ui, o, "done"),
                      Catalogue!After(Catalogue!After(ui, o, "ok"), o, "done")}
      PROVE  Followed
  BY <1>1, <1>8, <1>9
<1>10. ASSUME data' = data, ui' \in Catalogue!Turns(ui, data, pending) PROVE Followed
  BY <1>1, <1>10, CatalogueTurnsFollow
<1>11. Followed
  <2> HIDE DEF Followed
  <2> QED
    BY <1>1, <1>5, <1>6, <1>7, <1>9, <1>10, Catalogue!P!UiStep
<1>12. pending'["create"].at = "sent" => pending'["create"].arg \in CatalogueRows
  <2>1. Catalogue!Arg(ui, data, "create") \in CatalogueRows
    BY <1>1 DEF Catalogue!Arg, CatalogueForms
  <2> QED
    BY <1>1, <2>1, Catalogue!P!PendingStep DEF CatalogueInv
<1>13. ASSUME pending'["delete"].at = "sent" PROVE pending'["delete"].arg \in Catalogue!Ids
  <2>1. CASE pending'["delete"] = pending["delete"]
    BY <1>13, <2>1 DEF CatalogueInv
  <2>2. CASE /\ Catalogue!Offered(ui, data, failed, pending, "delete")
             /\ pending'["delete"].arg = Catalogue!Arg(ui, data, "delete")
    <3>1. ui.target # "none"
      BY <1>1, <2>2 DEF Catalogue!Offered, Catalogue!FormButton, Catalogue!DeleteButton, CatalogueForms
    <3> QED
      BY <1>1, <2>2, <3>1 DEF Catalogue!Arg, CatalogueForms
  <2> QED
    BY <1>1, <1>13, <2>1, <2>2, Catalogue!P!PendingStep
<1>14. ASSUME pending'["update"].at = "sent"
       PROVE  /\ pending'["update"].arg \in CatalogueSaves
              /\ pending'["update"].arg.fields \subseteq pending'["update"].arg.touched
  <2>1. CASE pending'["update"] = pending["update"]
    BY <1>14, <2>1 DEF CatalogueInv, Catalogue!SaveKeepsTheRest
  <2>2. CASE /\ Catalogue!Offered(ui, data, failed, pending, "update")
             /\ pending'["update"].arg = Catalogue!Arg(ui, data, "update")
    <3>1. ui.form = "update"
      BY <2>2 DEF Catalogue!Offered, Catalogue!FormButton, Catalogue!DeleteButton
    <3>2. pending'["update"].arg = [id |-> ui.id, fields |-> Catalogue!Diff(ui), draft |-> ui.draft,
                                    touched |-> ui.touched]
      BY <2>2 DEF Catalogue!Arg
    <3>3. Catalogue!Diff(ui) \subseteq ui.touched /\ Catalogue!Diff(ui) \subseteq Columns
      BY <1>1, <3>1 DEF FormFollows, Catalogue!Diff, Columns
    <3> QED
      BY <1>1, <3>2, <3>3 DEF CatalogueSaves, CatalogueForms
  <2> QED
    BY <1>1, <1>14, <2>1, <2>2, Catalogue!P!PendingStep
<1> QED
  BY <1>2, <1>3, <1>4, <1>11, <1>12, <1>13, <1>14 DEF CatalogueInv, Catalogue!SaveKeepsTheRest
-----------------------------------------------------------------------------
(* The page a player solves challenges on: it is there as long as the last  *)
(* answer says that the event is active and the team in it.                 *)
PlayForms == [page : {"play", "event"}, open : Play!Challenges \cup {"none"}, solved : BOOLEAN]

PlayInv ==
  /\ Play!P!Shaped
  /\ ui \in PlayForms
  /\ ui.page = "play" => data["event"].status = "active" /\ data["event"].joined

LEMMA PlayStart == ASSUME Play!Init PROVE PlayInv
<1>1. Play!P!InitLoaded({Play!Running}, {Play!Fresh}, Play!Empty)
  BY DEF Play!Init
<1>2. Play!P!Shaped
  BY <1>1, Play!P!ShapedInit DEF Play!Empty
<1>3. db = Play!Running /\ ui = Play!Fresh /\ "event" \in Play!Queries
  BY <1>1 DEF Play!P!InitLoaded, Play!Queries
<1>4. Play!Active(ui, "event") /\ Play!Shows(db, "event") = Play!GetEvent(db)
  BY <1>3 DEF Play!Active, Play!Fresh, Play!Shows
<1>5. data["event"] \in Play!GetEvent(db)
  BY <1>1, <1>3, <1>4, Play!P!LoadedData DEF Play!GetEvent
<1> QED
  BY <1>2, <1>3, <1>5 DEF PlayInv, PlayForms, Play!Fresh, Play!Running, Play!GetEvent

(* A dialog is opened over the page. *)
LEMMA PlayOpened ==
  ASSUME NEW u \in PlayForms, NEW c \in Play!Challenges, NEW b \in BOOLEAN
  PROVE  /\ [u EXCEPT !.open = c, !.solved = b] \in PlayForms
         /\ [u EXCEPT !.open = c, !.solved = b].page = u.page
  BY DEF PlayForms

(* The page is left as soon as an answer says the event is over. *)
LEMMA PlayStep == ASSUME PlayInv, Play!Next PROVE PlayInv'
<1>1. Play!P!Next /\ Play!P!Shaped /\ ui \in PlayForms
  BY DEF PlayInv, Play!Next
<1>2. Play!P!Shaped'
  BY <1>1, Play!P!ShapedStep
<1> DEFINE Followed == ui' \in PlayForms /\
      (ui'.page = "play" => data'["event"].status = "active" /\ data'["event"].joined)
<1>3. ASSUME data' = data, ui' = ui PROVE Followed
  BY <1>3 DEF PlayInv
<1>4. ASSUME NEW q \in Play!Queries, NEW v, data' = [data EXCEPT ![q] = v],
             ui' = Play!Sync(ui, data, data', q)
      PROVE  Followed
  <2>1. q # "event" => data'["event"] = data["event"]
    BY <1>1, <1>4 DEF Play!P!Shaped, Play!Queries
  <2> QED
    BY <1>1, <1>4, <2>1 DEF Play!Sync, PlayInv, PlayForms, Play!Gone
<1>5. ASSUME NEW q \in Play!Queries, NEW v \in Play!Left(data, q), data' = [data EXCEPT ![q] = v],
             ui' = Play!OnError(ui, q)
      PROVE  Followed
  <2>1. q # "event" => data'["event"] = data["event"]
    BY <1>1, <1>5 DEF Play!P!Shaped, Play!Queries
  <2> QED
    BY <1>1, <1>5, <2>1 DEF Play!OnError, PlayInv, PlayForms, Play!Gone
<1>6. ASSUME data' = data, NEW o \in Play!Ops,
             ui' \in {Play!After(ui, o, "click"), Play!After(ui, o, "ok"), Play!After(ui, o, "done"),
                      Play!After(Play!After(ui, o, "ok"), o, "done")}
      PROVE  Followed
  <2>1. ui' = ui \/ ui' = [ui EXCEPT !.open = "none", !.solved = FALSE]
    BY <1>6 DEF Play!After
  <2> QED
    BY <1>1, <1>6, <2>1 DEF PlayInv, PlayForms
<1>7. ASSUME data' = data, ui' \in Play!Turns(ui, data, pending)
      PROVE  Followed
  <2>1. CASE ui' = Play!Fresh /\ ui.page = "play"
    BY <1>1, <1>7, <2>1 DEF PlayInv, PlayForms, Play!Fresh
  <2>2. ASSUME NEW c \in Play!Challenges, NEW b \in BOOLEAN,
               ui' = [ui EXCEPT !.open = c, !.solved = b]
        PROVE  Followed
    BY <1>1, <1>7, <2>2, PlayOpened DEF PlayInv
  <2>3. \/ ui' = Play!Fresh /\ ui.page = "play"
        \/ \E c \in Play!Challenges :
             ui' = [ui EXCEPT !.open = c, !.solved = c \in data["challenges"]]
    BY <1>7, Zenon DEF Play!Turns
  <2>4. ASSUME NEW c \in Play!Challenges,
               ui' = [ui EXCEPT !.open = c, !.solved = c \in data["challenges"]]
        PROVE  Followed
    <3> DEFINE b == c \in data["challenges"]
    <3>1. b \in BOOLEAN /\ ui' = [ui EXCEPT !.open = c, !.solved = b]
      BY <2>4
    <3> HIDE DEF b, Followed
    <3> QED
      BY <2>2, <3>1
  <2> HIDE DEF Followed
  <2> QED
    BY <2>1, <2>3, <2>4
<1>8. Followed
  <2> HIDE DEF Followed
  <2> QED
    BY <1>1, <1>3, <1>4, <1>5, <1>6, <1>7, Play!P!UiStep
<1> QED
  BY <1>2, <1>8 DEF PlayInv

(* A flag can be sent while the event is active. *)
LEMMA PlayOffers == ASSUME PlayInv PROVE Play!OffersAreAccepted
<1> SUFFICES ASSUME Play!P!Current, NEW o \in Play!Ops,
                    Play!Offered(ui, data, failed, pending, o), o \notin db.solved
             PROVE  Play!Effects(db, o, Play!Arg(ui, data, o)) # {}
  BY DEF Play!OffersAreAccepted
<1>1. ui.page = "play"
  BY DEF Play!Offered
<1>2. "event" \in Play!P!ActiveIn(ui) /\ Play!Shows(db, "event") = Play!GetEvent(db)
  BY <1>1 DEF Play!P!ActiveIn, Play!Active, Play!Queries, Play!Shows
<1>3. data["event"] = [status |-> db.status, joined |-> db.joined]
  BY <1>2 DEF Play!P!Current, Play!GetEvent
<1>4. data["event"].status = "active" /\ data["event"].joined
  BY <1>1 DEF PlayInv
<1>5. db.status = "active" /\ db.joined
  BY <1>3, <1>4
<1> QED
  BY <1>5 DEF Play!Effects, Play!SubmitFlag, Play!Access
-----------------------------------------------------------------------------
(* The profile. *)
ProfileRows    == [Profile!Fields -> Bits]
ProfileTables  == [row : ProfileRows, avatar : Nat, files : SUBSET Nat, next : Nat,
                   look : SUBSET [old : Nat, new : Nat]]
ProfileAnswers == [row : ProfileRows, avatar : Nat]
ProfileForms   == [page : {"profile"}, shown : ProfileRows, avatar : Nat, draft : ProfileRows,
                   touched : SUBSET Profile!Fields, edit : BOOLEAN, removed : BOOLEAN]
ProfileSaves   == [fields : SUBSET Profile!Fields, draft : ProfileRows,
                   touched : SUBSET Profile!Fields]

(* The file the row names is there, names are used once, and what a request *)
(* of the second window has stored is named and removed by nobody else.     *)
FilesAreKept(d) ==
  /\ d.next > 0
  /\ d.avatar # 0 => d.avatar \in d.files
  /\ \A f \in d.files : f > 0 /\ f < d.next
  /\ \A l \in d.look : l.new # 0 => l.new \in d.files \ {d.avatar, l.old}

(* The form differs from what is shown where it was edited; an avatar that  *)
(* is shown is that of the last answer.                                     *)
ProfileFollows(u, d) ==
  /\ Profile!Diff(u) \subseteq u.touched
  /\ u.avatar # 0 => u.avatar = d["profile"].avatar

ProfileInv ==
  /\ Profile!P!Shaped
  /\ db \in ProfileTables /\ ui \in ProfileForms
  /\ FilesAreKept(db)
  /\ data["profile"] \in ProfileAnswers
  /\ fetch["profile"].at = "read" => fetch["profile"].val \in ProfileAnswers
  /\ ProfileFollows(ui, data)
  /\ pending["save"].at = "sent" => pending["save"].arg \in ProfileSaves
  /\ Profile!SaveKeepsTheRest

(* The profile is opened as the service has it. *)
LEMMA ProfileStart == ASSUME Profile!Init PROVE ProfileInv
<1>1. PICK f \in {0, 1} :
        Profile!P!InitLoaded({Profile!Profile(f)},
          {Profile!Fresh(v) : v \in Profile!AuthenticateTokenProfile(Profile!Profile(f))}, Profile!NoProfile)
  BY DEF Profile!Init
<1>2. Profile!P!Shaped /\ fetch["profile"].at # "read" /\ "profile" \in Profile!Queries
  BY <1>1, Profile!P!ShapedInit DEF Profile!NoProfile, Profile!Queries
<1>3. db = Profile!Profile(f) /\ ui = Profile!Fresh([row |-> db.row, avatar |-> db.avatar])
  BY <1>1 DEF Profile!P!InitLoaded, Profile!AuthenticateTokenProfile
<1>4. /\ db \in ProfileTables /\ FilesAreKept(db)
      /\ [row |-> db.row, avatar |-> db.avatar] \in ProfileAnswers
  BY <1>3 DEF Profile!Profile, ProfileTables, FilesAreKept, ProfileRows, Bits, ProfileAnswers
<1>5. data["profile"] = [row |-> db.row, avatar |-> db.avatar]
  BY <1>1, <1>2, <1>3, Profile!P!LoadedData DEF Profile!Active, Profile!Shows,
     Profile!AuthenticateTokenProfile
<1>6. ui \in ProfileForms /\ ProfileFollows(ui, data)
  BY <1>3, <1>4, <1>5 DEF ProfileForms, ProfileFollows, Profile!Fresh, Profile!Diff, ProfileAnswers
<1>7. pending["save"].at # "sent"
  BY <1>1 DEF Profile!P!InitLoaded, Profile!P!None, Profile!Ops
<1> QED
  BY <1>2, <1>4, <1>5, <1>6, <1>7 DEF ProfileInv, Profile!SaveKeepsTheRest

(* Each handler of the profile, of this window and of the second one.       *)
LEMMA UploadKeepsFiles ==
  ASSUME NEW d \in ProfileTables, FilesAreKept(d), NEW u, u = Profile!Upload(d)
  PROVE  /\ u \in ProfileTables /\ FilesAreKept(u)
         /\ u.avatar = d.avatar /\ u.look = d.look
         /\ d.next \in u.files \ {u.avatar} /\ d.next \in Nat \ {0}
         /\ \A l \in d.look : l.new # d.next
<1> DEFINE m == [d EXCEPT !.files = d.files \cup {d.next}]
<1>1. u = [m EXCEPT !.next = d.next + 1]
  BY DEF Profile!Upload, Profile!FileName
<1>2. /\ m \in ProfileTables /\ d.next \in Nat
      /\ m.avatar = d.avatar /\ m.look = d.look /\ m.files = d.files \cup {d.next}
  BY DEF ProfileTables
<1> HIDE DEF m
<1>3. /\ u \in ProfileTables
      /\ u.avatar = d.avatar /\ u.look = d.look /\ u.next = d.next + 1
      /\ u.files = d.files \cup {d.next}
  BY <1>1, <1>2 DEF ProfileTables
<1>4. d.next \in Nat \ {0} /\ d.next \notin d.files /\ d.avatar # d.next
  BY DEF ProfileTables, FilesAreKept
<1>5. FilesAreKept(u)
  BY <1>3, <1>4 DEF FilesAreKept, ProfileTables
<1>6. \A l \in d.look : l.new # d.next
  BY <1>4 DEF FilesAreKept
<1> QED
  BY <1>3, <1>4, <1>5, <1>6

(* The row is set to another file, and the one it had is removed. *)
LEMMA NamedKeepsFiles ==
  ASSUME NEW d \in ProfileTables, FilesAreKept(d), NEW new \in Nat,
         new # 0 => new \in d.files \ {d.avatar},
         \A l \in d.look : l.new # 0 => l.new # new
  PROVE  /\ FilesAreKept(Profile!Named(d, new, d.avatar))
         /\ Profile!Named(d, new, d.avatar) \in ProfileTables
<1> DEFINE n == Profile!Named(d, new, d.avatar)
<1>1. n = [d EXCEPT !.avatar = new, !.files = d.files \ {d.avatar}]
  BY DEF Profile!Named
<1> HIDE DEF n
<1>2. n \in ProfileTables
  BY <1>1 DEF ProfileTables
<1>3. n.avatar = new /\ n.files = d.files \ {d.avatar} /\ n.next = d.next /\ n.look = d.look
  BY <1>1, <1>2 DEF ProfileTables
<1>4. FilesAreKept(n)
  BY <1>3 DEF FilesAreKept, ProfileTables
<1> QED
  BY <1>2, <1>4 DEF n

(* The handlers of this window. *)
LEMMA EffectsKeepFiles ==
  ASSUME NEW d \in ProfileTables, FilesAreKept(d), NEW o \in Profile!Ops, NEW a,
         o = "save" => a \in ProfileSaves,
         NEW e \in Profile!Effects(d, o, a)
  PROVE  e.db \in ProfileTables /\ FilesAreKept(e.db)
<1>1. CASE o = "save"
  <2> DEFINE row == [f \in Profile!Fields |-> IF f \in a.fields THEN a.draft[f] ELSE d.row[f]]
  <2>1. row \in ProfileRows
    BY <1>1 DEF ProfileRows, ProfileSaves, ProfileTables
  <2>2. e.db = [d EXCEPT !.row = row]
    BY <1>1 DEF Profile!Effects, Profile!UpdateProfile
  <2> HIDE DEF row
  <2> QED
    BY <2>1, <2>2 DEF FilesAreKept, ProfileTables
<1>2. CASE o = "upload"
  <2> DEFINE u == Profile!Upload(d)
  <2>1. /\ u \in ProfileTables /\ FilesAreKept(u)
        /\ u.avatar = d.avatar /\ u.look = d.look
        /\ d.next \in u.files \ {u.avatar} /\ d.next \in Nat \ {0}
        /\ \A l \in d.look : l.new # d.next
    BY UploadKeepsFiles
  <2>2. e.db = u \/ e.db = Profile!Named(u, d.next, d.avatar)
    BY <1>2 DEF Profile!Effects, Profile!UploadAvatar, Profile!FileName
  <2> HIDE DEF u
  <2> QED
    BY <2>1, <2>2, NamedKeepsFiles
<1>3. CASE o = "delete"
  <2>1. e.db = Profile!Named(d, 0, d.avatar)
    BY <1>3 DEF Profile!Effects, Profile!DeleteAvatar
  <2> QED
    BY <2>1, NamedKeepsFiles
<1> QED
  BY <1>1, <1>2, <1>3 DEF Profile!Ops

(* The two steps of a request of the second window. *)
LEMMA OthersKeepFiles ==
  ASSUME NEW d \in ProfileTables, FilesAreKept(d), NEW e \in Profile!Others(d)
  PROVE  e \in ProfileTables /\ FilesAreKept(e)
<1>1. CASE e \in Profile!Looks(d)
  <2>1. /\ d.look = {}
        /\ \/ e = [Profile!Upload(d) EXCEPT !.look = {[old |-> d.avatar, new |-> d.next]}]
           \/ e = [d EXCEPT !.look = {[old |-> d.avatar, new |-> 0]}]
    BY <1>1 DEF Profile!Looks, Profile!FileName
  <2>2. CASE e = [Profile!Upload(d) EXCEPT !.look = {[old |-> d.avatar, new |-> d.next]}]
    <3> DEFINE u == Profile!Upload(d)
    <3>1. /\ u \in ProfileTables /\ FilesAreKept(u) /\ u.avatar = d.avatar
          /\ d.next \in u.files \ {d.avatar} /\ d.next \in Nat
      BY UploadKeepsFiles
    <3>0. d.avatar \in Nat
      BY DEF ProfileTables
    <3> HIDE DEF u
    <3>2. e = [u EXCEPT !.look = {[old |-> d.avatar, new |-> d.next]}]
      BY <2>2 DEF u
    <3>3. /\ e \in ProfileTables
          /\ e.avatar = u.avatar /\ e.files = u.files /\ e.next = u.next
          /\ e.look = {[old |-> d.avatar, new |-> d.next]}
      BY <3>0, <3>1, <3>2 DEF ProfileTables
    <3> QED
      BY <3>1, <3>3 DEF FilesAreKept
  <2>3. CASE e = [d EXCEPT !.look = {[old |-> d.avatar, new |-> 0]}]
    BY <2>3 DEF ProfileTables, FilesAreKept
  <2> QED
    BY <2>1, <2>2, <2>3
<1>2. CASE e \in Profile!Writes(d)
  <2>1. PICK l \in d.look : e = [Profile!Named(d, l.new, l.old) EXCEPT !.look = {}]
    BY <1>2 DEF Profile!Writes
  <2> DEFINE n == Profile!Named(d, l.new, l.old)
  <2>2. /\ n \in ProfileTables
        /\ n.avatar = l.new /\ n.files = d.files \ {l.old} /\ n.next = d.next
        /\ l.new # 0 => l.new \in d.files \ {l.old}
    BY <2>1 DEF Profile!Named, ProfileTables, FilesAreKept
  <2>3. e = [n EXCEPT !.look = {}]
    BY <2>1
  <2> HIDE DEF n
  <2> QED
    BY <2>2, <2>3 DEF ProfileTables, FilesAreKept
<1>3. ASSUME NEW f \in Profile!Fields, e = [d EXCEPT !.row[f] = 1 - @]
      PROVE  e \in ProfileTables /\ FilesAreKept(e)
  <2> DEFINE row == [d.row EXCEPT ![f] = 1 - @]
  <2>1. row \in ProfileRows
    BY DEF ProfileTables, ProfileRows, Bits
  <2>2. e = [d EXCEPT !.row = row]
    BY <1>3 DEF ProfileTables
  <2> HIDE DEF row
  <2> QED
    BY <2>1, <2>2 DEF ProfileTables, FilesAreKept
<1> QED
  BY <1>1, <1>2, <1>3 DEF Profile!Others

(* The form and what it shows, whatever sets it. *)
LEMMA RenderedFollows ==
  ASSUME NEW u \in ProfileForms, NEW d, ProfileFollows(u, d)
  PROVE  /\ Profile!Rendered(u) \in ProfileForms
         /\ ProfileFollows(Profile!Rendered(u), d)
  BY DEF ProfileFollows, Profile!Rendered, Profile!Diff, ProfileForms, ProfileRows

(* The form is opened, edited or cancelled. *)
LEMMA ProfileTurnsFollow ==
  ASSUME NEW u \in ProfileForms, NEW d, ProfileFollows(u, d), NEW p, NEW v \in Profile!Turns(u, d, p)
  PROVE  v \in ProfileForms /\ ProfileFollows(v, d)
<1>1. ASSUME v = [u EXCEPT !.edit = TRUE] PROVE v \in ProfileForms /\ ProfileFollows(v, d)
  BY <1>1 DEF ProfileFollows, Profile!Diff, ProfileForms
<1>2. ASSUME v = Profile!Cancel(u) PROVE v \in ProfileForms /\ ProfileFollows(v, d)
  <2> DEFINE r == Profile!Rendered(u)
  <2>1. r \in ProfileForms /\ ProfileFollows(r, d)
    BY RenderedFollows
  <2>2. v = [r EXCEPT !.edit = FALSE]
    BY <1>2 DEF Profile!Cancel
  <2> HIDE DEF r
  <2> QED
    BY <2>1, <2>2 DEF ProfileFollows, Profile!Diff, ProfileForms
<1>3. ASSUME NEW f \in Profile!Fields, v = [u EXCEPT !.draft[f] = 1 - @, !.touched = @ \cup {f}]
      PROVE  v \in ProfileForms /\ ProfileFollows(v, d)
  <2> DEFINE draft == [u.draft EXCEPT ![f] = 1 - @]
  <2>1. draft \in ProfileRows /\ \A g \in Profile!Fields \ {f} : draft[g] = u.draft[g]
    BY DEF ProfileForms, ProfileRows, Bits
  <2>2. v = [u EXCEPT !.draft = draft, !.touched = u.touched \cup {f}]
    BY <1>3 DEF ProfileForms
  <2> HIDE DEF draft
  <2>3. /\ v \in ProfileForms
        /\ v.draft = draft /\ v.touched = u.touched \cup {f}
        /\ v.shown = u.shown /\ v.avatar = u.avatar
    BY <2>1, <2>2 DEF ProfileForms
  <2> QED
    BY <2>1, <2>3 DEF ProfileFollows, Profile!Diff
<1> QED
  BY <1>1, <1>2, <1>3, RenderedFollows DEF Profile!Turns, Profile!Edits

(* How the form follows the profile. *)
LEMMA ProfileFormStep ==
  ASSUME ProfileInv, Profile!Next
  PROVE  ui' \in ProfileForms /\ ProfileFollows(ui', data') /\ data'["profile"] \in ProfileAnswers
<1> DEFINE Kept == ui' \in ProfileForms /\ ProfileFollows(ui', data')
                   /\ data'["profile"] \in ProfileAnswers
<1>1. /\ ui \in ProfileForms /\ ProfileFollows(ui, data) /\ data["profile"] \in ProfileAnswers
      /\ fetch["profile"].at = "read" => fetch["profile"].val \in ProfileAnswers
      /\ data = [q \in Profile!Queries |-> data[q]]
  BY DEF ProfileInv, Profile!P!Shaped
<1>2. ASSUME data' = data, ui' = ui PROVE Kept
  BY <1>1, <1>2
<1>3. ASSUME NEW q \in Profile!Queries, fetch[q].at = "read", data' = [data EXCEPT ![q] = fetch[q].val],
             ui' = Profile!Sync(ui, data, data', q)
      PROVE  Kept
  <2> DEFINE new == data'["profile"]
             shown == [ui EXCEPT !.shown = new.row, !.avatar = new.avatar]
  <2>1. new \in ProfileAnswers
    BY <1>1, <1>3 DEF Profile!Queries
  <2>2. ui' = [shown EXCEPT !.draft = shown.shown, !.touched = {}]
    BY <1>3 DEF Profile!Sync, Profile!Rendered
  <2> HIDE DEF new
  <2>3. shown \in ProfileForms /\ shown.shown = new.row /\ shown.avatar = new.avatar
    BY <1>1, <2>1 DEF ProfileForms, ProfileAnswers
  <2> HIDE DEF shown
  <2>4. /\ ui' \in ProfileForms /\ ui'.shown = new.row /\ ui'.draft = new.row
        /\ ui'.avatar = new.avatar
    BY <2>2, <2>3 DEF ProfileForms
  <2> QED
    BY <2>1, <2>4 DEF ProfileFollows, Profile!Diff, new
<1>4. ASSUME NEW q \in Profile!Queries, NEW v \in Profile!Left(data, q), data' = [data EXCEPT ![q] = v],
             ui' = Profile!OnError(ui, q)
      PROVE  Kept
  <2>1. data' = data
    BY <1>1, <1>4 DEF Profile!Left
  <2> QED
    BY <1>1, <1>4, <2>1, RenderedFollows DEF Profile!OnError
<1>5. ASSUME NEW o \in Profile!Ops, NEW u \in ProfileForms, ProfileFollows(u, data),
             NEW w \in {"click", "ok", "done"}
      PROVE  /\ Profile!After(u, o, w) \in ProfileForms
             /\ ProfileFollows(Profile!After(u, o, w), data)
  <2>1. CASE o = "save" /\ w = "ok"
    <3>1. Profile!After(u, o, w) = [u EXCEPT !.edit = FALSE]
      BY <2>1 DEF Profile!After
    <3> QED
      BY <1>5, <3>1 DEF ProfileFollows, Profile!Diff, ProfileForms
  <2>2. CASE o = "delete" /\ w = "done"
    <3> DEFINE r == Profile!Rendered(u)
    <3>1. r \in ProfileForms /\ ProfileFollows(r, data)
      BY <1>5, RenderedFollows
    <3>2. Profile!After(u, o, w) = [r EXCEPT !.avatar = 0, !.removed = TRUE]
      BY <2>2 DEF Profile!After
    <3> HIDE DEF r
    <3> DEFINE m == [r EXCEPT !.avatar = 0]
               v == Profile!After(u, o, w)
    <3>a. /\ m \in ProfileForms
          /\ m.avatar = 0 /\ m.draft = r.draft /\ m.shown = r.shown /\ m.touched = r.touched
      BY <3>1 DEF ProfileForms
    <3>b. v = [m EXCEPT !.removed = TRUE]
      BY <3>2
    <3> HIDE DEF m, v
    <3>3. /\ v \in ProfileForms
          /\ v.avatar = 0 /\ v.draft = r.draft /\ v.shown = r.shown /\ v.touched = r.touched
      BY <3>a, <3>b DEF ProfileForms
    <3>4. v \in ProfileForms /\ ProfileFollows(v, data)
      BY <3>1, <3>3 DEF ProfileFollows, Profile!Diff
    <3> QED
      BY <3>4 DEF v
  <2>3. CASE ~ (o = "save" /\ w = "ok") /\ ~ (o = "delete" /\ w = "done")
    BY <1>5, <2>3 DEF Profile!After
  <2> QED
    BY <2>1, <2>2, <2>3
<1>6. ASSUME data' = data, NEW o \in Profile!Ops,
             ui' \in {Profile!After(ui, o, "click"), Profile!After(ui, o, "ok"),
                      Profile!After(ui, o, "done"),
                      Profile!After(Profile!After(ui, o, "ok"), o, "done")}
      PROVE  Kept
  BY <1>1, <1>5, <1>6
<1>7. ASSUME data' = data, ui' \in Profile!Turns(ui, data, pending) PROVE Kept
  BY <1>1, <1>7, ProfileTurnsFollow
<1> HIDE DEF Kept
<1>8. Kept
  BY <1>2, <1>3, <1>4, <1>6, <1>7, Profile!P!UiStep DEF Profile!Next
<1> QED
  BY <1>8 DEF Kept

(* Files, the form and the request of a save, in every step. *)
LEMMA ProfileStep == ASSUME ProfileInv, Profile!Next PROVE ProfileInv'
<1>1. /\ Profile!P!Next /\ Profile!P!Shaped /\ "profile" \in Profile!Queries
      /\ "save" \in Profile!Ops
  BY DEF ProfileInv, Profile!Next, Profile!Queries, Profile!Ops
<1>2. Profile!P!Shaped'
  BY <1>1, Profile!P!ShapedStep
<1>3. db' \in ProfileTables /\ FilesAreKept(db')
  <2>1. db \in ProfileTables /\ FilesAreKept(db)
        /\ (pending["save"].at = "sent" => pending["save"].arg \in ProfileSaves)
    BY DEF ProfileInv
  <2>2. \/ db' = db \/ db' \in Profile!Others(db)
        \/ \E o \in Profile!Ops : /\ pending[o].at = "sent"
                                  /\ \E e \in Profile!Effects(db, o, pending[o].arg) : db' = e.db
    BY <1>1, Profile!P!DbStep
  <2>3. ASSUME NEW o \in Profile!Ops, pending[o].at = "sent",
               NEW e \in Profile!Effects(db, o, pending[o].arg)
        PROVE  e.db \in ProfileTables /\ FilesAreKept(e.db)
    BY <2>1, <2>3, EffectsKeepFiles
  <2> QED
    BY <2>1, <2>2, <2>3, OthersKeepFiles
<1>4. fetch'["profile"].at = "read" => fetch'["profile"].val \in ProfileAnswers
  <2>1. \A v \in Profile!Shows(db, "profile") : v \in ProfileAnswers
    BY DEF Profile!Shows, Profile!AuthenticateTokenProfile, ProfileInv, ProfileTables, ProfileAnswers
  <2>2. fetch'["profile"].at = "read" =>
          \/ fetch["profile"].at = "read" /\ fetch'["profile"].val = fetch["profile"].val
          \/ fetch'["profile"].val \in Profile!Shows(db, "profile")
    BY <1>1, Profile!P!AnswerStep
  <2> QED
    BY <2>1, <2>2 DEF ProfileInv
<1>5. ui' \in ProfileForms /\ ProfileFollows(ui', data') /\ data'["profile"] \in ProfileAnswers
  BY ProfileFormStep
<1>6. ASSUME pending'["save"].at = "sent"
      PROVE  /\ pending'["save"].arg \in ProfileSaves
             /\ pending'["save"].arg.fields \subseteq pending'["save"].arg.touched
  <2>1. CASE pending'["save"] = pending["save"]
    BY <1>6, <2>1 DEF ProfileInv, Profile!SaveKeepsTheRest
  <2>2. CASE pending'["save"].arg = Profile!Arg(ui, data, "save")
    <3>1. pending'["save"].arg =
            [fields |-> Profile!Diff(ui), draft |-> ui.draft, touched |-> ui.touched]
      BY <2>2 DEF Profile!Arg
    <3>2. ui \in ProfileForms /\ Profile!Diff(ui) \subseteq ui.touched
          /\ Profile!Diff(ui) \subseteq Profile!Fields
      BY DEF ProfileInv, ProfileFollows, Profile!Diff
    <3> QED
      BY <3>1, <3>2 DEF ProfileSaves, ProfileForms
  <2> QED
    BY <1>1, <1>6, <2>1, <2>2, Profile!P!PendingStep
<1> QED
  BY <1>2, <1>3, <1>4, <1>5, <1>6 DEF ProfileInv, Profile!SaveKeepsTheRest

(* A deletion is offered while the page shows an avatar. *)
LEMMA ProfileOffers == ASSUME ProfileInv PROVE Profile!OffersAreAccepted
<1> SUFFICES ASSUME Profile!P!Current, NEW o \in Profile!Ops,
                    Profile!Offered(ui, data, failed, pending, o)
             PROVE  \E e \in Profile!Effects(db, o, Profile!Arg(ui, data, o)) : e.ok
  BY DEF Profile!OffersAreAccepted
<1>1. CASE o = "save"
  <2>1. Profile!Effects(db, o, Profile!Arg(ui, data, o))
          = {[db |-> Profile!UpdateProfile(db, Profile!Arg(ui, data, o)), ok |-> TRUE]}
    BY <1>1 DEF Profile!Effects
  <2> QED
    BY <2>1
<1>2. CASE o = "upload"
  <2>1. [db |-> Profile!Named(Profile!Upload(db), Profile!FileName(db), db.avatar), ok |-> TRUE]
          \in Profile!Effects(db, o, Profile!Arg(ui, data, o))
    BY <1>2 DEF Profile!Effects, Profile!UploadAvatar
  <2> QED
    BY <2>1
<1>3. CASE o = "delete"
  <2>1. ui.avatar # 0
    BY <1>3 DEF Profile!Offered, Profile!AvatarUpload, Profile!SectionProfileInfo
  <2>2. "profile" \in Profile!P!ActiveIn(ui)
        /\ Profile!Shows(db, "profile") = {[row |-> db.row, avatar |-> db.avatar]}
    BY DEF Profile!P!ActiveIn, Profile!Active, Profile!Queries, Profile!Shows,
       Profile!AuthenticateTokenProfile
  <2>3. data["profile"] = [row |-> db.row, avatar |-> db.avatar]
    BY <2>2 DEF Profile!P!Current
  <2>4. db.avatar # 0
    BY <2>1, <2>3 DEF ProfileInv, ProfileFollows
  <2>5. Profile!Effects(db, o, Profile!Arg(ui, data, o))
          = {[db |-> Profile!Named(db, 0, db.avatar), ok |-> TRUE]}
    BY <1>3, <2>4 DEF Profile!Effects, Profile!DeleteAvatar
  <2> QED
    BY <2>5
<1> QED
  BY <1>1, <1>2, <1>3 DEF Profile!Ops
-----------------------------------------------------------------------------
(* What a page owes comes: in each section, the queries of OwnChangesShown,  *)
(* with what the services, the page and its mutations have to be for that.   *)

(* The dialog of links refetches its only query after every mutation.         *)
LinksDue == Links!P!Due(Links!Queries)

LEMMA LinksDueStep == ASSUME LinksInv, LinksDue, Links!Next PROVE LinksDue'
<1>1. Links!P!Shaped /\ Links!P!Next
  BY DEF LinksInv, Links!Next
<1> SUFFICES ASSUME NEW q \in Links!Queries, q \in owed'
             PROVE  Links!P!Coming(q)'
  BY DEF LinksDue, Links!P!Due
<1>2. q \in owed => Links!P!Coming(q)
  BY DEF LinksDue, Links!P!Due
<1>3. \A o \in Links!Ops : /\ Links!P!Listed(Links!Invalidates(ui, o))
                           /\ Links!Invalidates(ui', o) = Links!Invalidates(ui, o)
                           /\ q \in Links!Invalidates(ui, o)[1]
                           /\ 1 \in DOMAIN Links!Invalidates(ui, o)
  BY Links!P!ShortLists DEF Links!Invalidates, Links!Queries
<1>4. ~ Links!P!Missed(q)
  BY <1>3 DEF Links!P!Missed
<1>5. \A o \in Links!Ops : Links!Active(Links!After(ui, o, "click"), q) => Links!Active(ui, q)
  BY DEF Links!Active
<1> QED
  BY <1>1, <1>2, <1>3, <1>4, <1>5, Links!P!ComingStep

(* So does the page of an administrator.                                      *)
CatalogueDue == Catalogue!P!Due(Catalogue!Queries)

LEMMA CatalogueDueStep == ASSUME CatalogueInv, CatalogueDue, Catalogue!Next PROVE CatalogueDue'
<1>1. Catalogue!P!Shaped /\ Catalogue!P!Next
  BY DEF CatalogueInv, Catalogue!Next
<1> SUFFICES ASSUME NEW q \in Catalogue!Queries, q \in owed'
             PROVE  Catalogue!P!Coming(q)'
  BY DEF CatalogueDue, Catalogue!P!Due
<1>2. q \in owed => Catalogue!P!Coming(q)
  BY DEF CatalogueDue, Catalogue!P!Due
<1>3. \A o \in Catalogue!Ops :
        /\ Catalogue!P!Listed(Catalogue!Invalidates(ui, o))
        /\ Catalogue!Invalidates(ui', o) = Catalogue!Invalidates(ui, o)
        /\ q \in Catalogue!Invalidates(ui, o)[1]
        /\ 1 \in DOMAIN Catalogue!Invalidates(ui, o)
  BY Catalogue!P!ShortLists DEF Catalogue!Invalidates, Catalogue!DeleteInvalidates,
     Catalogue!FormInvalidates, Catalogue!Queries
<1>4. ~ Catalogue!P!Missed(q)
  BY <1>3 DEF Catalogue!P!Missed
<1>5. \A o \in Catalogue!Ops :
        Catalogue!Active(Catalogue!After(ui, o, "click"), q) => Catalogue!Active(ui, q)
  BY DEF Catalogue!Active
<1> QED
  BY <1>1, <1>2, <1>3, <1>4, <1>5, Catalogue!P!ComingStep

(* A flag that is accepted refetches the challenges and the status.           *)
PlayDue == Play!P!Due({"challenges", "status"})

LEMMA PlayDueStep == ASSUME PlayInv, PlayDue, Play!Next PROVE PlayDue'
<1>1. Play!P!Shaped /\ Play!P!Next
  BY DEF PlayInv, Play!Next
<1> SUFFICES ASSUME NEW q \in {"challenges", "status"}, q \in owed'
             PROVE  Play!P!Coming(q)'
  BY DEF PlayDue, Play!P!Due
<1>2. q \in Play!Queries /\ (q \in owed => Play!P!Coming(q))
  BY DEF PlayDue, Play!P!Due, Play!Queries
<1>3. \A o \in Play!Ops : /\ Play!P!Listed(Play!Invalidates(ui, o))
                          /\ Play!Invalidates(ui', o) = Play!Invalidates(ui, o)
                          /\ q \in Play!Invalidates(ui, o)[1]
                          /\ 1 \in DOMAIN Play!Invalidates(ui, o)
  BY Play!P!ShortLists DEF Play!Invalidates
<1>4. ~ Play!P!Missed(q)
  BY <1>3 DEF Play!P!Missed
<1>5. \A o \in Play!Ops : Play!Active(Play!After(ui, o, "click"), q) => Play!Active(ui, q)
  BY DEF Play!After
<1> QED
  BY <1>1, <1>2, <1>3, <1>4, <1>5, Play!P!ComingStep

(* The page of friends has three queries, each other page one, which the      *)
(* mutations of the page refetch; the rest is idle.  The page of friends      *)
(* sends no request of friendship.                                            *)
FriendsReach(name) == IF name = "friends" THEN {"friends", "received", "sent"} ELSE {name}
FriendsDue ==
  /\ Friends!P!Shaped
  /\ \A q \in Friends!Queries \ FriendsReach(ui.page) : fetch[q] = Friends!P!Idle
  /\ ui.page = "friends" => pending["send"].at # "sent"
  /\ Friends!P!Due(Friends!Queries)

(* What the page of friends sends, it refetches.                              *)
LEMMA FriendsRefetched ==
  ASSUME db \in FriendsTables, ui.page = "friends", NEW o \in Friends!Ops, o # "send",
         NEW a, NEW e \in Friends!Effects(db, o, a),
         NEW q \in {"friends", "received", "sent"}, Friends!Shows(e.db, q) # Friends!Shows(db, q)
  PROVE  \E k \in DOMAIN Friends!Invalidates(ui, o) : q \in Friends!Invalidates(ui, o)[k]
<1>0. Friends!Mine # Friends!Yours
  BY DEF Friends!Mine, Friends!Yours
<1>1. CASE o = "cancel"
  <2>1. e.db = Friends!CancelFriendRequest(db, Friends!Mine)
    BY <1>1 DEF Friends!Effects, Friends!Unnotified
  <2>2. e.db.fr = db.fr /\ (Friends!Yours \in e.db.req <=> Friends!Yours \in db.req)
    BY <1>0, <2>1 DEF Friends!CancelFriendRequest, FriendsTables
  <2>3. q = "sent"
    BY <2>2 DEF Friends!Shows, Friends!ListFriends, Friends!ListFriendRequests
  <2>4. Friends!Invalidates(ui, o) = <<{"sent"}>>
    BY <1>1 DEF Friends!Invalidates, Friends!FriendsInvalidates
  <2> QED
    BY <2>3, <2>4, Friends!P!ShortLists
<1>2. CASE o = "remove"
  <2>1. e.db = Friends!RemoveFriend(db)
    BY <1>2 DEF Friends!Effects, Friends!Unnotified
  <2>2. e.db.req = db.req
    BY <2>1 DEF Friends!RemoveFriend, FriendsTables
  <2>3. q = "friends"
    BY <2>2 DEF Friends!Shows, Friends!ListFriendRequests
  <2>4. Friends!Invalidates(ui, o) = <<{"friends"}>>
    BY <1>2 DEF Friends!Invalidates, Friends!FriendsInvalidates
  <2> QED
    BY <2>3, <2>4, Friends!P!ShortLists
<1>3. CASE o \in {"accept", "refuse"}
  <2>1. \/ e.db = Friends!AcceptFriendRequest(db, Friends!Yours)
        \/ e.db = Friends!RejectFriendRequest(db, Friends!Yours)
    BY <1>3 DEF Friends!Effects, Friends!Notified
  <2>2. Friends!Mine \in e.db.req <=> Friends!Mine \in db.req
    BY <1>0, <2>1 DEF Friends!AcceptFriendRequest, Friends!RejectFriendRequest, FriendsTables
  <2>3. q # "sent"
    BY <2>2 DEF Friends!Shows, Friends!ListFriendRequests
  <2>4. Friends!Invalidates(ui, o) = <<{"received"}, {"friends"}>>
    BY <1>3 DEF Friends!Invalidates, Friends!FriendsInvalidates
  <2> QED
    BY <2>3, <2>4, Friends!P!ShortLists
<1> QED
  BY <1>1, <1>2, <1>3 DEF Friends!Ops

LEMMA FriendsDueStep == ASSUME FriendsInv, FriendsDue, Friends!Next PROVE FriendsDue'
<1>1. /\ Friends!P!Shaped /\ Friends!P!Next /\ ui \in FriendsForms /\ db \in FriendsTables
      /\ "send" \in Friends!Ops
  BY DEF FriendsDue, FriendsInv, Friends!Next, Friends!Ops
<1>2. Friends!P!Shaped'
  BY <1>1, Friends!P!ShapedStep
<1>3. ui' \in FriendsForms /\ ui'.page = ui.page
  <2>1. ui' = ui \/ ui' \in Friends!Turns(ui, data, pending)
    BY <1>1, Friends!P!UiStep DEF Friends!Sync, Friends!OnError, Friends!After
  <2> QED
    BY <1>1, <2>1 DEF FriendsForms, Friends!Turns, Friends!TabTurns
<1>4. ASSUME NEW u \in FriendsForms, NEW q \in Friends!Queries \ FriendsReach(u.page)
      PROVE  ~ Friends!Active(u, q)
  BY DEF FriendsForms, FriendsReach, Friends!Tabs, Friends!Active, Friends!FriendsQueries,
     Friends!UsersQueries, Friends!ProfileQueries
<1>5. ASSUME NEW q \in Friends!Queries \ FriendsReach(ui.page) PROVE fetch'[q] = Friends!P!Idle
  BY <1>1, <1>3, <1>4, <1>5, Friends!P!StaysIdle DEF FriendsDue
<1>6. ASSUME NEW q \in Friends!Queries PROVE ~ Friends!P!Missed(q)
  <2> SUFFICES ASSUME NEW o \in Friends!Ops, pending[o].at = "sent",
                      NEW e \in Friends!Effects(db, o, pending[o].arg),
                      Friends!Shows(e.db, q) # Friends!Shows(db, q), q \in FriendsReach(ui.page)
               PROVE  \E k \in DOMAIN Friends!Invalidates(ui, o) : q \in Friends!Invalidates(ui, o)[k]
    <3>1. q \notin FriendsReach(ui.page) => ~ Friends!Active(ui, q) /\ fetch[q].at # "read"
      BY <1>1, <1>4 DEF FriendsDue, Friends!P!Idle
    <3> QED
      BY <3>1 DEF Friends!P!Missed
  <2>1. CASE ui.page = "users"
    BY <2>1, Friends!P!ShortLists DEF FriendsReach, Friends!Invalidates, Friends!UsersInvalidates
  <2>2. CASE ui.page = "profile"
    BY <2>2, Friends!P!ShortLists DEF FriendsReach, Friends!Invalidates, Friends!ProfileInvalidates
  <2>3. CASE ui.page = "friends"
    <3>1. o # "send" /\ q \in {"friends", "received", "sent"}
      BY <2>3 DEF FriendsDue, FriendsReach
    <3> QED
      BY <1>1, <2>3, <3>1, FriendsRefetched
  <2> QED
    BY <1>1, <2>1, <2>2, <2>3 DEF FriendsForms
<1>7. ASSUME NEW q \in Friends!Queries, q \in owed' PROVE Friends!P!Coming(q)'
  <2>1. q \in owed => Friends!P!Coming(q)
    BY DEF FriendsDue, Friends!P!Due
  <2>2. \A o \in Friends!Ops : /\ Friends!P!Listed(Friends!Invalidates(ui, o))
                               /\ Friends!Invalidates(ui', o) = Friends!Invalidates(ui, o)
    <3>1. ASSUME NEW o \in Friends!Ops PROVE Friends!P!Listed(Friends!Invalidates(ui, o))
      BY <1>1, Friends!P!ShortLists DEF Friends!Invalidates, Friends!FriendsInvalidates,
         Friends!UsersInvalidates, Friends!ProfileInvalidates, FriendsForms
    <3> QED
      BY <1>3, <3>1 DEF Friends!Invalidates
  <2>3. \A o \in Friends!Ops :
          Friends!Active(Friends!After(ui, o, "click"), q) => Friends!Active(ui, q)
    BY DEF Friends!After
  <2> QED
    BY <1>1, <1>6, <1>7, <2>1, <2>2, <2>3, Friends!P!ComingStep
<1>8. ASSUME ui'.page = "friends" PROVE pending'["send"].at # "sent"
  <2>1. ~ Friends!Offered(ui, data, failed, pending, "send")
    BY <1>1, <1>3, <1>8 DEF Friends!Offered, Friends!FriendsOffers, Friends!FriendsTab,
       Friends!ReceivedTab, Friends!SentTab, Friends!FriendCard, FriendsForms, Friends!Tabs
  <2>2. pending["send"].at # "sent"
    BY <1>3, <1>8 DEF FriendsDue
  <2> QED
    BY <1>1, <2>1, <2>2, Friends!P!PendingStep
<1> QED
  BY <1>2, <1>3, <1>5, <1>7, <1>8 DEF FriendsDue, Friends!P!Due

(* The profile is refetched after a save and an upload; after the deletion of *)
(* the avatar the page shows it without one.                                  *)
ProfileDue == ui.removed \/ pending["delete"].at = "ok" \/ Profile!P!Due(Profile!Queries)

LEMMA ProfileDueStep == ASSUME ProfileInv, ProfileDue, Profile!Next PROVE ProfileDue'
<1>1. Profile!P!Shaped /\ Profile!P!Next /\ ui \in ProfileForms /\ "delete" \in Profile!Ops
  BY DEF ProfileInv, Profile!Next, Profile!Ops
<1>2. CASE ui.removed
  <2> DEFINE Keeps(u) == "removed" \in DOMAIN u /\ u.removed
  <2>0. Keeps(ui)
    BY <1>1, <1>2 DEF ProfileForms
  <2>1. ASSUME NEW u, Keeps(u) PROVE Keeps(Profile!Rendered(u))
    BY <2>1 DEF Profile!Rendered
  <2>2. ASSUME NEW u, Keeps(u), NEW o, NEW w PROVE Keeps(Profile!After(u, o, w))
    <3>1. CASE o = "save" /\ w = "ok"
      BY <2>2, <3>1 DEF Profile!After
    <3>2. CASE o = "delete" /\ w = "done"
      <4> DEFINE r == Profile!Rendered(u)
      <4>1. Keeps(r)
        BY <2>1, <2>2
      <4>2. Profile!After(u, o, w) = [r EXCEPT !.avatar = 0, !.removed = TRUE]
        BY <3>2 DEF Profile!After
      <4> HIDE DEF r
      <4> QED
        BY <4>1, <4>2
    <3>3. CASE ~ (o = "save" /\ w = "ok") /\ ~ (o = "delete" /\ w = "done")
      <4>1. Profile!After(u, o, w) = u
        BY <3>3 DEF Profile!After
      <4> QED
        BY <2>2, <4>1
    <3> QED
      BY <3>1, <3>2, <3>3
  <2>3. ASSUME NEW q, ui' = Profile!Sync(ui, data, data', q) PROVE Keeps(ui')
    <3> DEFINE m == [ui EXCEPT !.shown = data'["profile"].row, !.avatar = data'["profile"].avatar]
    <3>1. Keeps(m)
      BY <2>0
    <3>2. ui' = Profile!Rendered(m)
      BY <2>3 DEF Profile!Sync
    <3> HIDE DEF m, Keeps
    <3> QED
      BY <2>1, <3>1, <3>2
  <2>4. ASSUME ui' \in Profile!Turns(ui, data, pending) PROVE Keeps(ui')
    <3>1. Keeps(Profile!Rendered(ui)) /\ Keeps(Profile!Cancel(ui))
      BY <2>0, <2>1 DEF Profile!Cancel
    <3>2. ASSUME NEW f \in Profile!Fields,
                 ui' = [ui EXCEPT !.draft[f] = 1 - @, !.touched = @ \cup {f}]
          PROVE  Keeps(ui')
      <4> DEFINE draft == [ui.draft EXCEPT ![f] = 1 - @]
      <4>1. ui' = [ui EXCEPT !.draft = draft, !.touched = ui.touched \cup {f}]
        BY <1>1, <3>2 DEF ProfileForms
      <4> HIDE DEF draft
      <4> QED
        BY <2>0, <4>1
    <3>3. Keeps([ui EXCEPT !.edit = TRUE])
      BY <2>0
    <3> HIDE DEF Keeps
    <3>4. ui' \in Profile!Edits(ui) => Keeps(ui')
      BY <3>2, Zenon DEF Profile!Edits
    <3> QED
      BY <2>4, <3>1, <3>3, <3>4 DEF Profile!Turns
  <2>5. Keeps(ui')
    <3> HIDE DEF Keeps
    <3> QED
      BY <1>1, <2>0, <2>1, <2>2, <2>3, <2>4, Profile!P!UiStep DEF Profile!OnError
  <2> QED
    BY <2>5 DEF ProfileDue
<1>3. CASE pending["delete"].at = "ok"
  <2>1. CASE pending'["delete"] = pending["delete"]
    BY <1>3, <2>1 DEF ProfileDue
  <2>2. CASE Profile!P!Settling("delete", 1)
    <3>1. 1 > Len(Profile!Invalidates(ui, "delete"))
      BY Profile!P!ShortLists DEF Profile!Invalidates, Profile!AvatarInvalidates
    <3>2. ui' = Profile!After(Profile!After(ui, "delete", "ok"), "delete", "done")
      BY <1>1, <2>2, <3>1, Profile!P!SettlingStep
    <3> DEFINE r == Profile!Rendered(ui)
    <3>3. ui' = [r EXCEPT !.avatar = 0, !.removed = TRUE]
      BY <3>2 DEF Profile!After
    <3>4. "removed" \in DOMAIN r
      BY <1>1 DEF Profile!Rendered, ProfileForms
    <3> HIDE DEF r
    <3> QED
      BY <3>3, <3>4 DEF ProfileDue
  <2> QED
    BY <1>1, <1>3, <2>1, <2>2, Profile!P!MutationStep DEF Profile!P!None
<1>4. CASE Profile!P!Due(Profile!Queries) /\ pending'["delete"].at # "ok"
  <2> SUFFICES ASSUME NEW q \in Profile!Queries, q \in owed' PROVE Profile!P!Coming(q)'
    BY DEF ProfileDue, Profile!P!Due
  <2>1. q \in owed => Profile!P!Coming(q)
    BY <1>4 DEF Profile!P!Due
  <2>2. \A o \in Profile!Ops :
          /\ Profile!P!Listed(Profile!Invalidates(ui, o))
          /\ Profile!Invalidates(ui', o) = Profile!Invalidates(ui, o)
          /\ o # "delete" => /\ 1 \in DOMAIN Profile!Invalidates(ui, o)
                             /\ q \in Profile!Invalidates(ui, o)[1]
    BY Profile!P!ShortLists DEF Profile!Invalidates, Profile!SaveInvalidates,
       Profile!AvatarInvalidates, Profile!Ops
  <2>3. ~ Profile!P!Missed(q)
    <3>1. ASSUME Profile!P!Missed(q) PROVE FALSE
      <4>1. PICK o \in Profile!Ops :
              /\ pending' = [pending EXCEPT ![o] = [at |-> "ok"]]
              /\ \A k \in DOMAIN Profile!Invalidates(ui, o) : q \notin Profile!Invalidates(ui, o)[k]
        BY <3>1 DEF Profile!P!Missed
      <4>2. o = "delete"
        BY <2>2, <4>1
      <4> QED
        BY <1>1, <1>4, <4>1, <4>2 DEF Profile!P!Shaped
    <3> QED
      BY <3>1
  <2>4. \A o \in Profile!Ops :
          Profile!Active(Profile!After(ui, o, "click"), q) => Profile!Active(ui, q)
    BY DEF Profile!Active
  <2> QED
    BY <1>1, <2>1, <2>2, <2>3, <2>4, Profile!P!ComingStep
<1> QED
  BY <1>2, <1>3, <1>4 DEF ProfileDue

(* The pages of an event.  A new event is shown, a deleted one left; while    *)
(* either is under way the list of events or the event may be out of date,    *)
(* and no event comes back once it is gone.                                   *)
EventUnder(o) == pending[o].at \in {"ok", "settling"}
EventLeft == ui.page = "events" /\ db.status = "gone" /\ ~ EventUnder("create")

EventDue ==
  /\ pending["delete"].at # "none" => ui.page = "event"
  /\ pending["create"].at # "none" => ui.page = "events"
  /\ EventUnder("delete") => db.status = "gone"
  /\ ui.page = "events" => fetch["event"] = Event!P!Idle \/ EventLeft
  /\ Event!P!Due({"event"}) \/ EventUnder("delete") \/ EventLeft
  /\ ui.page = "events" \/ EventUnder("delete") => Event!P!Due({"events"}) \/ EventUnder("create")

(* An event that is gone stays so, and only a deletion and a new event change *)
(* the list.                                                                  *)
LEMMA EventGone ==
  ASSUME NEW d \in EventTables, NEW o \in Event!Ops, NEW a, NEW e \in Event!Effects(d, o, a)
  PROVE  /\ d.status # "gone"
         /\ o = "create" => d.status = "none"
         /\ o = "delete" => e.db.status = "gone"
         /\ o \notin {"create", "delete"} => e.db.status = d.status
<1>1. CASE o = "join"
  BY <1>1 DEF Event!Effects, Event!JoinEvent, EventTables
<1>2. CASE o = "leave"
  BY <1>2 DEF Event!Effects, Event!LeaveEvent, EventTables
<1>3. CASE o = "delete"
  BY <1>3 DEF Event!Effects, Event!DeleteEvent, EventTables
<1>4. CASE o = "create"
  BY <1>4 DEF Event!Effects, Event!CreateEvent
<1>5. CASE o = "update"
  <2>0. e.db \in Event!UpdateEvent(d, a)
    BY <1>5 DEF Event!Effects
  <2>1. d.status \notin {"none", "gone"}
    BY <2>0 DEF Event!UpdateEvent, Event!Exists
  <2> DEFINE name == IF "name" \in a.fields THEN a.draft ELSE d.name
  <2>2. e.db = [d EXCEPT !.name = name, !.whole = TRUE]
    BY <2>0 DEF Event!UpdateEvent
  <2> HIDE DEF name
  <2>3. e.db.status = d.status
    BY <2>2 DEF EventTables
  <2> QED
    BY <1>5, <2>1, <2>3
<1> QED
  BY <1>1, <1>2, <1>3, <1>4, <1>5 DEF Event!Ops

(* The page changes when an event is created or deleted.                      *)
LEMMA EventPageStep ==
  ASSUME EventInv, Event!Next
  PROVE  \/ ui'.page = ui.page
         \/ /\ ui'.page = "events" /\ db' = db
            /\ EventUnder("delete") /\ pending'["delete"] = Event!P!None
         \/ /\ ui'.page = "event" /\ db' = db
            /\ EventUnder("create") /\ pending'["create"] = Event!P!None
<1>1. Event!P!Shaped /\ Event!P!Next /\ ui \in EventForms
  BY DEF EventInv, Event!Next
<1>2. ASSUME NEW u \in EventForms
      PROVE  /\ \A d : Event!SetForm(u, d).page = u.page
             /\ Event!Closed(u).page = u.page
             /\ \A x : [u EXCEPT !.dialog = x].page = u.page
             /\ \A d : [Event!SetForm(u, d) EXCEPT !.dialog = "edit"].page = u.page
             /\ [u EXCEPT !.draft = 1 - @, !.touched = TRUE].page = u.page
  BY DEF EventForms, Event!SetForm, Event!Closed
<1>3. ASSUME NEW q, ui' = Event!Sync(ui, data, data', q) PROVE ui'.page = ui.page
  BY <1>1, <1>2, <1>3 DEF Event!Sync
<1>4. ASSUME ui' \in Event!Turns(ui, data, pending) PROVE ui'.page = ui.page
  <2>1. \/ \E x : ui' = Event!Opened(ui, data, x)
        \/ ui' \in Event!Edits(ui)
        \/ ui' = Event!Closed(ui)
    BY <1>4 DEF Event!Turns
  <2>2. ASSUME NEW x, ui' = Event!Opened(ui, data, x) PROVE ui'.page = ui.page
    BY <1>1, <1>2, <2>2 DEF Event!Opened
  <2>3. ui' \in Event!Edits(ui) => ui'.page = ui.page
    BY <1>1, <1>2 DEF Event!Edits
  <2> QED
    BY <1>1, <1>2, <2>1, <2>2, <2>3
<1>5. ASSUME NEW u, NEW o \in Event!Ops PROVE Event!After(u, o, "click") = u
  BY DEF Event!After
<1>6. ASSUME NEW o \in Event!Ops
      PROVE  /\ Event!After(ui, o, "ok") \in EventForms
             /\ Event!After(ui, o, "ok").page = ui.page
  <2>1. Event!After(ui, o, "ok") \in {ui, Event!Closed(ui)}
    BY DEF Event!After
  <2>2. Event!Closed(ui) \in EventForms
    BY <1>1, EventFormKept DEF EventInv
  <2> QED
    BY <1>1, <1>2, <2>1, <2>2
<1>7. ASSUME NEW o \in Event!Ops, NEW u \in EventForms
      PROVE  Event!After(u, o, "done").page =
               CASE o = "delete" -> "events" [] o = "create" -> "event" [] OTHER -> u.page
  <2>1. CASE o = "delete"
    BY <2>1 DEF Event!After, Event!Fresh
  <2>2. CASE o = "create"
    BY <2>2 DEF Event!After, Event!AfterCreate, Event!Fresh
  <2>3. CASE o \notin {"delete", "create"}
    <3>1. Event!After(u, o, "done") \in {u, Event!Closed(u)}
      BY <2>3 DEF Event!After
    <3> QED
      BY <1>2, <2>3, <3>1
  <2> QED
    BY <2>1, <2>2, <2>3
<1>8. ASSUME NEW o \in Event!Ops, pending[o].at \in {"ok", "settling"}, db' = db,
             \/ ui' = Event!After(ui, o, "ok")
             \/ /\ pending'[o] = Event!P!None
                /\ \E u \in {ui, Event!After(ui, o, "ok")} : ui' = Event!After(u, o, "done")
      PROVE  \/ ui'.page = ui.page
             \/ ui'.page = "events" /\ o = "delete" /\ pending'[o] = Event!P!None
             \/ ui'.page = "event" /\ o = "create" /\ pending'[o] = Event!P!None
  BY <1>1, <1>6, <1>7, <1>8
<1> QED
  BY <1>1, <1>3, <1>4, <1>5, <1>8, Event!P!PageStep DEF Event!OnError, EventUnder

(* How a deletion and a new event go on.                                      *)
LEMMA EventMutations ==
  ASSUME EventInv, Event!Next
  PROVE  /\ pending'["delete"].at # "none" =>
              \/ pending["delete"].at # "none" /\ (EventUnder("delete") \/ ~ EventUnder("delete")')
              \/ ui.page = "event" /\ pending'["delete"].at = "sent"
              \/ pending["delete"].at = "sent" /\ ui' = ui /\ db'.status = "gone"
                 /\ pending'["delete"].at = "ok"
         /\ EventUnder("delete") => EventUnder("delete")' \/ ui'.page = "events"
         /\ pending'["create"].at # "none" =>
              \/ pending["create"].at # "none" /\ (EventUnder("create") \/ ~ EventUnder("create")')
              \/ ui.page = "events" /\ pending'["create"].at = "sent"
              \/ pending["create"].at = "sent" /\ ui' = ui /\ db.status = "none"
         /\ EventUnder("create") =>
              EventUnder("create")' \/ (ui'.page = "event" /\ pending'["create"] = Event!P!None)
<1>1. /\ Event!P!Shaped /\ Event!P!Next /\ ui \in EventForms /\ db \in EventTables
      /\ "delete" \in Event!Ops /\ "create" \in Event!Ops
  BY DEF EventInv, Event!Next, Event!Ops
<1>0. Event!P!None.at = "none"
  BY DEF Event!P!None
<1>2. /\ Event!Offered(ui, data, failed, pending, "delete") => ui.page = "event"
      /\ Event!Offered(ui, data, failed, pending, "create") => ui.page = "events"
  BY <1>1 DEF Event!Offered, EventForms
<1>3. /\ \A a, e : e \in Event!Effects(db, "delete", a) => e.db.status = "gone"
      /\ \A a, e : e \in Event!Effects(db, "create", a) => db.status = "none"
  BY <1>1, EventGone
<1>4. ASSUME NEW k \in Nat, Event!P!Settling("delete", k)
      PROVE  \/ pending'["delete"] = Event!P!None /\ ui'.page = "events"
             \/ pending'["delete"].at = "settling"
  <2>1. \A u : Event!After(u, "delete", "done").page = "events"
    BY DEF Event!After, Event!Fresh
  <2> DEFINE then == [at |-> "settling", k |-> k]
  <2>2. then.at = "settling"
    OBVIOUS
  <2>3. \/ /\ pending'["delete"] = Event!P!None
           /\ \E u : ui' = Event!After(u, "delete", "done")
        \/ pending'["delete"] = then
    BY <1>1, <1>4, Event!P!SettlingStep, Zenon
  <2> HIDE DEF then
  <2> QED
    BY <2>1, <2>2, <2>3
<1>5. ASSUME NEW k \in Nat \ {0}, Event!P!Settling("create", k)
      PROVE  pending'["create"] = Event!P!None /\ ui'.page = "event"
  <2>1. \A u : Event!After(u, "create", "done").page = "event"
    BY DEF Event!After, Event!AfterCreate, Event!Fresh
  <2>2. k > Len(Event!Invalidates(ui, "create"))
    BY Event!P!ShortLists DEF Event!Invalidates
  <2>3. /\ pending'["create"] = Event!P!None
        /\ \E u : ui' = Event!After(u, "create", "done")
    BY <1>1, <1>5, <2>2, Event!P!SettlingStep, Zenon
  <2> QED
    BY <2>1, <2>3
<1>6. /\ pending["delete"].at = "settling" => pending["delete"].k + 1 \in Nat \ {0}
      /\ pending["create"].at = "settling" => pending["create"].k + 1 \in Nat \ {0}
  BY <1>1 DEF Event!P!Shaped
<1>7. /\ pending'["delete"].at # "none" =>
           \/ pending["delete"].at # "none" /\ (EventUnder("delete") \/ ~ EventUnder("delete")')
           \/ ui.page = "event" /\ pending'["delete"].at = "sent"
           \/ pending["delete"].at = "sent" /\ ui' = ui /\ db'.status = "gone"
              /\ pending'["delete"].at = "ok"
      /\ EventUnder("delete") => EventUnder("delete")' \/ ui'.page = "events"
  BY <1>0, <1>1, <1>2, <1>3, <1>4, <1>6, Event!P!MutationStep DEF EventUnder
<1>8. /\ pending'["create"].at # "none" =>
           \/ pending["create"].at # "none" /\ (EventUnder("create") \/ ~ EventUnder("create")')
           \/ ui.page = "events" /\ pending'["create"].at = "sent"
           \/ pending["create"].at = "sent" /\ ui' = ui /\ db.status = "none"
      /\ EventUnder("create") =>
           EventUnder("create")' \/ (ui'.page = "event" /\ pending'["create"] = Event!P!None)
  BY <1>0, <1>1, <1>2, <1>3, <1>5, <1>6, Event!P!MutationStep DEF EventUnder
<1> QED
  BY <1>7, <1>8

LEMMA EventDueStep == ASSUME EventInv, EventDue, Event!Next PROVE EventDue'
<1>1. /\ Event!P!Shaped /\ Event!P!Next /\ ui \in EventForms /\ db \in EventTables
      /\ {"event", "events"} \subseteq Event!Queries /\ {"create", "delete"} \subseteq Event!Ops
  BY DEF EventInv, Event!Next, Event!Queries, Event!Ops
<1>0. Event!P!None.at = "none" /\ Event!P!Idle.at = "idle"
  BY DEF Event!P!None, Event!P!Idle
<1>2. db.status = "gone" => db'.status = "gone"
  <2>1. db.status = "gone" => Event!Others(db) = {}
    BY DEF Event!Others, Event!Exists
  <2> QED
    BY <1>1, <2>1, EventGone, Event!P!DbStep
<1>3. db.status = "gone" /\ ~ EventUnder("create") => ~ EventUnder("create")'
  BY EventMutations DEF EventUnder
<1>4. EventLeft => EventLeft'
  BY <1>2, <1>3, EventPageStep DEF EventLeft
<1>5. pending'["delete"].at # "none" => ui'.page = "event"
  BY <1>0, EventPageStep, EventMutations DEF EventDue, EventUnder
<1>6. pending'["create"].at # "none" => ui'.page = "events"
  BY <1>0, EventPageStep, EventMutations DEF EventDue, EventUnder
<1>7. EventUnder("delete")' => db'.status = "gone"
  BY <1>2, EventMutations DEF EventDue, EventUnder
<1>8. EventUnder("delete") => EventUnder("delete")' \/ EventLeft'
  <2>1. EventUnder("delete") => ui.page = "event" /\ db.status = "gone" /\ ~ EventUnder("create")
    BY DEF EventDue, EventUnder
  <2> QED
    BY <1>2, <1>3, <2>1, EventMutations DEF EventLeft
<1>9. ui'.page = "events" => fetch'["event"] = Event!P!Idle \/ EventLeft'
  <2>1. CASE EventUnder("delete") /\ ui'.page = "events"
    BY <1>5, <1>8, <2>1 DEF EventUnder
  <2>2. CASE ui.page = "events" /\ ui'.page = "events"
    <3>1. ~ Event!Active(ui, "event") /\ ~ Event!Active(ui', "event")
      BY <2>2 DEF Event!Active, Event!EventsQueries
    <3>2. fetch["event"] = Event!P!Idle => fetch'["event"] = Event!P!Idle
      BY <1>1, <3>1, Event!P!StaysIdle
    <3> QED
      BY <1>4, <2>2, <3>2 DEF EventDue
  <2> QED
    BY <2>1, <2>2, EventPageStep
<1>10. ASSUME NEW q \in {"event", "events"}, Event!P!Due({q}), q \in owed'
       PROVE  Event!P!Coming(q)' \/ Event!P!Missed(q)
  <2>1. q \in owed => Event!P!Coming(q)
    BY <1>10 DEF Event!P!Due
  <2>2. \A o \in Event!Ops : /\ Event!P!Listed(Event!Invalidates(ui, o))
                             /\ Event!Invalidates(ui', o) = Event!Invalidates(ui, o)
    BY Event!P!ShortLists DEF Event!Invalidates, Event!Ops, Event!RegistrationInvalidates,
       Event!UpdateInvalidates, Event!DeleteInvalidates
  <2>3. \A o \in Event!Ops : Event!After(ui, o, "click") = ui
    BY DEF Event!After
  <2> QED
    BY <1>1, <1>10, <2>1, <2>2, <2>3, Event!P!ComingStep
<1>11. ASSUME NEW q, NEW o \in Event!Ops, Event!P!Missed(q), q \in {"event", "events"},
              pending[o].at = "sent", ui' = ui, pending' = [pending EXCEPT ![o] = [at |-> "ok"]],
              NEW e \in Event!Effects(db, o, pending[o].arg),
              db' = e.db, Event!Shows(e.db, q) # Event!Shows(db, q),
              \A k \in DOMAIN Event!Invalidates(ui, o) : q \notin Event!Invalidates(ui, o)[k],
              Event!Active(ui, q) \/ fetch[q].at = "read"
       PROVE  \/ q = "event" /\ EventUnder("delete")'
              \/ q = "events" /\ EventUnder("create")'
  <2>1. pending'[o].at = "ok"
    BY <1>1, <1>11 DEF Event!P!Shaped
  <2>2. CASE o = "delete"
    <3>1. q = "event"
      BY <1>11, <2>2, Event!P!ShortLists DEF Event!Invalidates, Event!DeleteInvalidates
    <3> QED
      BY <2>1, <2>2, <3>1 DEF EventUnder
  <2>3. CASE o = "create"
    <3>1. db.status = "none" /\ ui.page = "events"
      BY <1>1, <1>11, <2>3, EventGone DEF EventDue
    <3>2. fetch["event"].at # "read" /\ ~ Event!Active(ui, "event")
      BY <1>0, <3>1 DEF EventDue, EventLeft, Event!Active, Event!EventsQueries
    <3> QED
      BY <1>11, <2>1, <2>3, <3>2 DEF EventUnder
  <2>4. CASE o \notin {"create", "delete"}
    <3>1. e.db.status = db.status
      BY <1>1, <2>4, EventGone
    <3>2. Event!Shows(e.db, "events") = Event!Shows(db, "events")
      BY <3>1 DEF Event!Shows, Event!ListEvents, Event!Exists
    <3>3. 1 \in DOMAIN Event!Invalidates(ui, o) /\ "event" \in Event!Invalidates(ui, o)[1]
      BY <2>4, Event!P!ShortLists DEF Event!Invalidates, Event!Ops, Event!RegistrationInvalidates,
         Event!UpdateInvalidates
    <3> QED
      BY <1>11, <3>2, <3>3
  <2> QED
    BY <2>2, <2>3, <2>4
<1>12. ASSUME NEW q \in {"event", "events"}, Event!P!Missed(q)
       PROVE  \/ q = "event" /\ EventUnder("delete")'
              \/ q = "events" /\ EventUnder("create")'
  BY <1>11, <1>12 DEF Event!P!Missed
<1>13. Event!P!Due({"event"})' \/ EventUnder("delete")' \/ EventLeft'
  <2>1. CASE EventUnder("delete") \/ EventLeft
    BY <1>4, <1>8, <2>1
  <2>2. CASE Event!P!Due({"event"})
    <3>1. "event" \in owed' => Event!P!Coming("event")' \/ EventUnder("delete")'
      BY <1>10, <1>12, <2>2
    <3> QED
      BY <3>1 DEF Event!P!Due
  <2> QED
    BY <2>1, <2>2 DEF EventDue
<1>14. ASSUME ui'.page = "events" \/ EventUnder("delete")'
       PROVE  Event!P!Due({"events"})' \/ EventUnder("create")'
  <2>1. CASE EventUnder("create")
    <3>1. pending["delete"].at = "none" /\ ~ EventUnder("delete")'
      BY <2>1, EventMutations DEF EventDue, EventUnder
    <3> QED
      BY <1>14, <2>1, <3>1, EventMutations
  <2>2. CASE Event!P!Due({"events"})
    <3>1. "events" \in owed' => Event!P!Coming("events")' \/ EventUnder("create")'
      BY <1>10, <1>12, <2>2
    <3> QED
      BY <3>1 DEF Event!P!Due
  <2>3. CASE ui.page # "events" /\ ~ EventUnder("delete")
    <3>1. EventUnder("delete")'
      BY <1>14, <2>3, EventPageStep
    <3>2. pending'["delete"].at = "ok"
      BY <2>3, <3>1, EventMutations DEF EventUnder
    <3>3. 1 \in DOMAIN Event!Invalidates(ui', "delete") /\ "events" \in Event!Invalidates(ui', "delete")[1]
      BY Event!P!ShortLists DEF Event!Invalidates, Event!DeleteInvalidates
    <3>4. Event!P!Coming("events")'
      BY <1>1, <3>2, <3>3 DEF Event!P!Coming, Event!P!ToCome
    <3> QED
      BY <3>4 DEF Event!P!Due
  <2> QED
    BY <2>1, <2>2, <2>3 DEF EventDue
<1> QED
  BY <1>5, <1>6, <1>7, <1>9, <1>13, <1>14 DEF EventDue

(* The pages of a team.  A captain is a member, and a member has no request; *)
(* what a page displays comes, but for what is unsaid and for what a team     *)
(* displays that is being left.                                               *)
TeamUnder(o) == pending[o].at \in {"ok", "settling"}
TeamRoles(d) == /\ d.captain = "Me" => "Me" \in d.members
                /\ "Me" \in d.members => "Me" \notin d.asked

TeamLeaving == TeamUnder("leave") \/ TeamUnder("delete")
OwnTeamDue ==
  /\ fetch["teams"] = Team!P!Idle /\ fetch["asked"] = Team!P!Idle
  /\ \A o \in {"create", "ask", "cancel"} : pending[o].at = "none"
  /\ TeamLeaving \/ Team!P!Due({"details", "members"})
  /\ TeamLeaving \/ pending["crown"].at = "ok" \/ Team!P!Due({"requests"} \ ui.unsaid)
TeamVisitDue ==
  /\ \A o \in Team!Ops \ {"ask", "cancel"} : pending[o].at = "none"
  /\ Team!P!Due({"details", "members", "asked"})
TeamListDue ==
  /\ Team!P!Due({"asked"})
  /\ \/ pending["save"].at = "ok" \/ pending["delete"].at = "ok"
     \/ Team!P!Due({"teams"} \ ui.unsaid)

TeamDue ==
  /\ TeamRoles(db)
  /\ ui.page = "team"  => OwnTeamDue
  /\ ui.page = "visit" => TeamVisitDue
  /\ ui.page = "teams" => TeamListDue

(* What the handlers write, field by field.                                   *)
LEMMA TeamRows ==
  ASSUME NEW d \in TeamTables, NEW u \in Team!Users
  PROVE  /\ LET e == Team!Ask(d, u) IN
              /\ e.captain = d.captain /\ e.members = d.members /\ e.locked = d.locked
              /\ e.text = d.text /\ e.asked = d.asked \cup {u}
         /\ LET e == Team!Forget(d, u) IN
              /\ e.captain = d.captain /\ e.members = d.members /\ e.locked = d.locked
              /\ e.text = d.text /\ e.asked = d.asked \ {u}
         /\ LET e == Team!Accept(d, u) IN
              /\ e.captain = d.captain /\ e.members = d.members \cup {u} /\ e.locked = d.locked
              /\ e.asked = d.asked \ {u}
         /\ LET e == Team!Remove(d, u) IN
              /\ e.captain = d.captain /\ e.members = d.members \ {u} /\ e.locked = d.locked
              /\ e.asked = d.asked
         /\ LET e == [d EXCEPT !.captain = u] IN
              /\ e.captain = u /\ e.members = d.members /\ e.locked = d.locked /\ e.asked = d.asked
<1>1. LET e == Team!Forget(d, u) IN
        /\ e \in TeamTables
        /\ e.captain = d.captain /\ e.members = d.members /\ e.locked = d.locked
        /\ e.text = d.text /\ e.asked = d.asked \ {u}
  BY DEF Team!Forget, TeamTables
<1>2. LET e == Team!Accept(d, u) IN
        /\ e.captain = d.captain /\ e.members = d.members \cup {u} /\ e.locked = d.locked
        /\ e.asked = d.asked \ {u}
  BY <1>1 DEF Team!Accept, TeamTables
<1> QED
  BY <1>1, <1>2 DEF Team!Ask, Team!Remove, TeamTables

LEMMA TeamSaved ==
  ASSUME NEW d \in TeamTables, NEW a
  PROVE  LET e == Team!UpdateTeam(d, a) IN
           e.captain = d.captain /\ e.members = d.members /\ e.asked = d.asked
<1> DEFINE locked == IF "locked" \in a.fields THEN a.draft.locked ELSE d.locked
           text   == IF "text" \in a.fields THEN a.draft.text ELSE d.text
           e      == Team!UpdateTeam(d, a)
<1>1. e = [d EXCEPT !.locked = locked, !.text = text]
  BY DEF Team!UpdateTeam, TeamTables
<1> HIDE DEF locked, text, e
<1>2. e.captain = d.captain /\ e.members = d.members /\ e.asked = d.asked
  BY <1>1 DEF TeamTables
<1> QED
  BY <1>2 DEF e

(* Whoever acts, a captain stays a member and a member has no request.        *)
LEMMA TeamRolesKept ==
  ASSUME NEW d \in TeamTables, TeamRoles(d)
  PROVE  /\ \A e \in Team!Others(d) : TeamRoles(e)
         /\ \A o \in Team!Ops : \A a : \A e \in Team!Effects(d, o, a) : TeamRoles(e.db)
<1>0. {"Me", "You"} \subseteq Team!Users
  BY DEF Team!Users
<1>1. /\ TeamRoles(Team!NoTeam) /\ TeamRoles(Team!Create(d, "Me"))
      /\ TeamRoles(Team!Ask(d, "You")) /\ TeamRoles(Team!Forget(d, "You"))
      /\ TeamRoles(Team!Forget(d, "Me")) /\ TeamRoles(Team!Remove(d, "You"))
      /\ TeamRoles(Team!Accept(d, "You")) /\ TeamRoles([d EXCEPT !.captain = "You"])
  <2>1. TeamRoles(Team!NoTeam) /\ TeamRoles(Team!Create(d, "Me"))
    BY DEF TeamRoles, Team!NoTeam, Team!Create
  <2> QED
    BY <1>0, <2>1, TeamRows DEF TeamRoles
<1>2. /\ "Me" \notin d.members => TeamRoles(Team!Ask(d, "Me"))
      /\ d.captain # "Me" => TeamRoles(Team!Remove(d, "Me")) /\ TeamRoles(Team!Accept(d, "Me"))
      /\ "Me" \in d.members => TeamRoles([d EXCEPT !.captain = "Me"])
  BY <1>0, TeamRows DEF TeamRoles
<1>3. TeamRoles([d EXCEPT !.locked = ~@]) /\ \A t \in {0, 1} : TeamRoles([d EXCEPT !.text = t])
  BY DEF TeamRoles, TeamTables
<1>4. ASSUME NEW e \in Team!Others(d) PROVE TeamRoles(e)
  <2> DEFINE you   == {x \in {Team!Ask(d, "You"), Team!Forget(d, "You")} :
                           Team!MayAsk(d, "You") \/ "You" \in d.asked}
             out   == IF "You" \in d.members /\ d.captain # "You" THEN {Team!Remove(d, "You")} ELSE {}
             moved == IF "Me" \in d.members
                      THEN {Team!Remove(d, "Me"), [d EXCEPT !.captain = "Me"]} ELSE {}
             taken == IF Team!MayAccept(d, "Me") THEN {Team!Accept(d, "Me")} ELSE {}
             led   == IF d.captain = "You"
                      THEN {Team!NoTeam, [d EXCEPT !.locked = ~@]} \cup moved \cup taken ELSE {}
             mine  == IF d.captain = "Me" THEN {[d EXCEPT !.locked = ~@]} \cup {[d EXCEPT !.text = t] : t \in {0, 1}}
                      ELSE {}
  <2>1. e \in you \cup out \cup led \cup mine
    BY Zenon DEF Team!Others
  <2>2. \A x \in you \cup out \cup mine : TeamRoles(x)
    BY <1>1, <1>3
  <2>3. d.captain = "You" => \A x \in moved \cup taken : TeamRoles(x)
    BY <1>2
  <2>4. \A x \in led : TeamRoles(x)
    <3> HIDE DEF moved, taken
    <3> QED
      BY <1>1, <1>3, <2>3
  <2> HIDE DEF you, out, led, mine
  <2> QED
    BY <2>1, <2>2, <2>4
<1>5. ASSUME NEW o \in Team!Ops, NEW a, NEW e \in Team!Effects(d, o, a) PROVE TeamRoles(e.db)
  <2>0. e.db \in Team!Handled(d, o, a)
    BY DEF Team!Effects
  <2>1. CASE o = "save"
    <3>1. e.db = d \/ e.db = Team!UpdateTeam(d, a)
      BY <2>0, <2>1 DEF Team!Handled
    <3>2. TeamRoles(Team!UpdateTeam(d, a))
      BY TeamSaved DEF TeamRoles
    <3> QED
      BY <3>1, <3>2
  <2>2. CASE o # "save"
    <3>1. \/ e.db \in {Team!Accept(d, "You"), Team!Forget(d, "You"), Team!Remove(d, "You"),
                       [d EXCEPT !.captain = "You"], Team!NoTeam, Team!Create(d, "Me"),
                       Team!Forget(d, "Me")}
          \/ e.db = Team!Remove(d, "Me") /\ d.captain # "Me"
          \/ e.db = Team!Ask(d, "Me") /\ "Me" \notin d.members
      BY <2>0, <2>2 DEF Team!Handled, Team!Ops, Team!MayAsk
    <3> QED
      BY <1>1, <1>2, <3>1
  <2> QED
    BY <2>1, <2>2
<1> QED
  BY <1>4, <1>5

(* What the pages display of a change of this window, beside the queries its  *)
(* mutation invalidates.                                                      *)
LEMMA TeamShown ==
  ASSUME NEW d \in TeamTables, TeamRoles(d), NEW o \in Team!Ops, NEW a,
         NEW e \in Team!Effects(d, o, a)
  PROVE  /\ o \in {"reject", "ask", "cancel"} =>
              Team!Shows(e.db, "details") = Team!Shows(d, "details")
         /\ o \in {"reject", "ask", "cancel", "save"} =>
              Team!Shows(e.db, "members") = Team!Shows(d, "members")
         /\ o \in {"save", "kick"} => Team!Shows(e.db, "requests") = Team!Shows(d, "requests")
         /\ o \notin {"create", "ask", "cancel"} => Team!Shows(e.db, "asked") = Team!Shows(d, "asked")
         /\ o \notin {"create", "ask", "cancel", "save", "delete"} =>
              Team!Shows(e.db, "teams") = Team!Shows(d, "teams")
<1>0. e.db \in Team!Handled(d, o, a) /\ {"Me", "You"} \subseteq Team!Users
  BY DEF Team!Effects, Team!Users
<1>1. CASE o = "save"
  <2>1. e.db = d \/ e.db = Team!UpdateTeam(d, a)
    BY <1>0, <1>1 DEF Team!Handled
  <2>2. e.db.captain = d.captain /\ e.db.members = d.members /\ e.db.asked = d.asked
    BY <2>1, TeamSaved
  <2> QED
    BY <1>1, <2>2 DEF Team!Shows, Team!Members, Team!JoinRequests, Team!MyRequests, Team!Exists
<1>2. CASE o = "accept"
  <2>1. e.db = Team!Accept(d, "You")
    BY <1>0, <1>2 DEF Team!Handled
  <2>2. /\ e.db.captain = d.captain /\ e.db.locked = d.locked
        /\ e.db.asked \cap {"Me"} = d.asked \cap {"Me"}
    BY <1>0, <2>1, TeamRows
  <2> QED
    BY <1>2, <2>2 DEF Team!Shows, Team!MyRequests, Team!TeamList, Team!Exists
<1>3. CASE o = "reject"
  <2>1. e.db = Team!Forget(d, "You")
    BY <1>0, <1>3 DEF Team!Handled
  <2>2. /\ e.db.captain = d.captain /\ e.db.locked = d.locked /\ e.db.members = d.members
        /\ e.db.text = d.text /\ e.db.asked \cap {"Me"} = d.asked \cap {"Me"}
    BY <1>0, <2>1, TeamRows
  <2> QED
    BY <1>3, <2>2 DEF Team!Shows, Team!Details, Team!Members, Team!MyRequests, Team!TeamList, Team!Exists
<1>4. CASE o = "kick"
  <2>1. e.db = Team!Remove(d, "You")
    BY <1>0, <1>4 DEF Team!Handled
  <2>2. e.db.captain = d.captain /\ e.db.locked = d.locked /\ e.db.asked = d.asked
    BY <1>0, <2>1, TeamRows
  <2> QED
    BY <1>4, <2>2 DEF Team!Shows, Team!JoinRequests, Team!MyRequests, Team!TeamList, Team!Exists
<1>5. CASE o = "crown"
  <2>1. e.db = [d EXCEPT !.captain = "You"] /\ d.captain = "Me"
    BY <1>0, <1>5 DEF Team!Handled
  <2>2. e.db.captain = "You" /\ e.db.locked = d.locked /\ e.db.asked = d.asked
    BY <1>0, <2>1, TeamRows
  <2> QED
    BY <1>5, <2>1, <2>2 DEF Team!Shows, Team!MyRequests, Team!TeamList, Team!Exists
<1>6. CASE o = "leave"
  <2>1. e.db = Team!Remove(d, "Me")
    BY <1>0, <1>6 DEF Team!Handled
  <2>2. e.db.captain = d.captain /\ e.db.locked = d.locked /\ e.db.asked = d.asked
    BY <1>0, <2>1, TeamRows
  <2> QED
    BY <1>6, <2>2 DEF Team!Shows, Team!MyRequests, Team!TeamList, Team!Exists
<1>7. CASE o = "delete"
  <2>1. e.db = Team!NoTeam /\ d.captain = "Me"
    BY <1>0, <1>7 DEF Team!Handled
  <2>2. e.db.asked \cap {"Me"} = {} /\ d.asked \cap {"Me"} = {}
    BY <2>1 DEF Team!NoTeam, TeamRoles
  <2> QED
    BY <1>7, <2>2 DEF Team!Shows, Team!MyRequests
<1>8. CASE o = "ask" \/ o = "cancel"
  <2>1. e.db = Team!Ask(d, "Me") \/ e.db = Team!Forget(d, "Me")
    BY <1>0, <1>8 DEF Team!Handled
  <2>2. /\ e.db.captain = d.captain /\ e.db.locked = d.locked /\ e.db.members = d.members
        /\ e.db.text = d.text
    BY <1>0, <2>1, TeamRows
  <2> QED
    BY <1>8, <2>2 DEF Team!Shows, Team!Details, Team!Members, Team!Exists
<1>9. CASE o = "create"
  BY <1>9
<1> QED
  BY <1>1, <1>2, <1>3, <1>4, <1>5, <1>6, <1>7, <1>8, <1>9 DEF Team!Ops

(* The page changes when the team is left or deleted; until then what is      *)
(* unsaid only grows.                                                         *)
LEMMA TeamPageStep ==
  ASSUME TeamInv, Team!Next
  PROVE  \/ ui'.page = ui.page /\ ui.unsaid \subseteq ui'.unsaid
         \/ /\ ui.page = "team" /\ ui'.page = "teams"
            /\ \E o \in {"leave", "delete"} : TeamUnder(o) /\ pending'[o] = Team!P!None
<1> DEFINE Goes(u, v) == v.page = u.page /\ u.unsaid \subseteq v.unsaid
<1>1. Team!P!Shaped /\ Team!P!Next /\ ui \in TeamForms
  BY DEF TeamInv, Team!Next
<1>2. ASSUME NEW u \in TeamForms
      PROVE  Goes(u, u) /\ Goes(u, [u EXCEPT !.open = TRUE]) /\ Goes(u, [u EXCEPT !.open = FALSE])
  BY DEF TeamForms
<1>3. ASSUME NEW q, ui' = Team!Sync(ui, data, data', q) PROVE Goes(ui, ui')
  <2> DEFINE draft == Team!Draft(data'["details"])
  <2>1. \/ ui' = ui
        \/ ui' = [ui EXCEPT !.known = data'["user"]]
        \/ ui' = [ui EXCEPT !.draft = draft, !.touched = {}]
    BY <1>3 DEF Team!Sync, Team!SyncDraft
  <2> HIDE DEF draft
  <2> QED
    BY <1>1, <2>1 DEF TeamForms
<1>4. ASSUME ui' \in Team!Turns(ui, data, pending) PROVE Goes(ui, ui')
  <2>1. ui' \in Team!SettingsTurns(ui, data)
    BY <1>4 DEF Team!Turns
  <2> DEFINE draft == Team!Draft(data["details"])
             lock  == [ui.draft EXCEPT !.locked = ~@]
             text  == [ui.draft EXCEPT !.text = 1 - @]
  <2>2. \/ ui' = [ui EXCEPT !.open = TRUE]
        \/ ui' = [ui EXCEPT !.draft.locked = ~@, !.touched = @ \cup {"locked"}]
        \/ ui' = [ui EXCEPT !.draft.text = 1 - @, !.touched = @ \cup {"text"}]
        \/ ui' = [ui EXCEPT !.open = FALSE, !.touched = {}, !.draft = draft]
    BY <2>1 DEF Team!SettingsTurns
  <2>3. CASE ui' = [ui EXCEPT !.draft.locked = ~@, !.touched = @ \cup {"locked"}]
    <3>1. ui' = [ui EXCEPT !.draft = lock, !.touched = ui.touched \cup {"locked"}]
      BY <1>1, <2>3 DEF TeamForms, TeamDrafts
    <3> HIDE DEF lock
    <3> QED
      BY <1>1, <3>1 DEF TeamForms
  <2>4. CASE ui' = [ui EXCEPT !.draft.text = 1 - @, !.touched = @ \cup {"text"}]
    <3>1. ui' = [ui EXCEPT !.draft = text, !.touched = ui.touched \cup {"text"}]
      BY <1>1, <2>4 DEF TeamForms, TeamDrafts
    <3> HIDE DEF text
    <3> QED
      BY <1>1, <3>1 DEF TeamForms
  <2>5. CASE ui' = [ui EXCEPT !.open = FALSE, !.touched = {}, !.draft = draft]
    <3> HIDE DEF draft
    <3> QED
      BY <1>1, <2>5 DEF TeamForms
  <2> HIDE DEF Goes, draft
  <2> QED
    BY <1>1, <1>2, <2>2, <2>3, <2>4, <2>5
<1>5. ASSUME NEW o \in Team!Ops PROVE Goes(ui, Team!After(ui, o, "click"))
  <2>1. Team!After(ui, o, "click") \in {ui, [ui EXCEPT !.open = FALSE]}
    BY DEF Team!After
  <2> HIDE DEF Goes
  <2> QED
    BY <1>1, <1>2, <2>1
<1>6. ASSUME NEW o \in Team!Ops
      PROVE  Goes(ui, Team!After(ui, o, "ok")) /\ Team!After(ui, o, "ok") \in TeamForms
  <2> DEFINE more == ui.unsaid \cup Team!Unsaid(ui, o)
  <2>1. more \in SUBSET Team!Queries /\ Team!After(ui, o, "ok") = [ui EXCEPT !.unsaid = more]
    BY <1>1 DEF Team!After, Team!Unsaid, Team!Queries, TeamForms
  <2>2. ui.unsaid \subseteq more
    OBVIOUS
  <2> HIDE DEF more
  <2> QED
    BY <1>1, <2>1, <2>2 DEF TeamForms
<1>7. ASSUME NEW o \in Team!Ops, NEW u \in TeamForms, Goes(ui, u)
      PROVE  \/ Goes(ui, Team!After(u, o, "done"))
             \/ /\ ui.page = "team" /\ Team!After(u, o, "done").page = "teams"
                /\ o \in {"leave", "delete"}
  <2>1. CASE u.page = "team" /\ o \in {"leave", "delete"}
    BY <1>7, <2>1 DEF Team!After, Team!Fresh
  <2>2. CASE ~ (u.page = "team" /\ o \in {"leave", "delete"})
    <3>1. Team!After(u, o, "done") \in {u, [u EXCEPT !.open = FALSE]}
      BY <2>2 DEF Team!After
    <3>2. Goes(u, u) /\ Goes(u, [u EXCEPT !.open = FALSE])
      BY <1>2
    <3> QED
      BY <1>7, <3>1, <3>2
  <2> QED
    BY <2>1, <2>2
<1>8. ASSUME NEW o \in Team!Ops, pending[o].at \in {"ok", "settling"},
             \/ ui' = Team!After(ui, o, "ok")
             \/ /\ pending'[o] = Team!P!None
                /\ \E u \in {ui, Team!After(ui, o, "ok")} : ui' = Team!After(u, o, "done")
      PROVE  \/ Goes(ui, ui')
             \/ /\ ui.page = "team" /\ ui'.page = "teams"
                /\ o \in {"leave", "delete"} /\ pending'[o] = Team!P!None
  <2>1. Goes(ui, ui)
    OBVIOUS
  <2> HIDE DEF Goes
  <2> QED
    BY <1>1, <1>6, <1>7, <1>8, <2>1
<1>9. Goes(ui, ui)
  OBVIOUS
<1>10. \/ Goes(ui, ui')
       \/ /\ ui.page = "team" /\ ui'.page = "teams"
          /\ \E o \in {"leave", "delete"} : TeamUnder(o) /\ pending'[o] = Team!P!None
  <2> HIDE DEF Goes
  <2> QED
    BY <1>1, <1>3, <1>4, <1>5, <1>8, <1>9, Team!P!PageStep DEF Team!OnError, TeamUnder
<1> QED
  BY <1>10

(* How the mutations of a team go on.                                         *)
LEMMA TeamMutations ==
  ASSUME TeamInv, Team!Next, NEW o \in Team!Ops
  PROVE  /\ \/ ui.page = "team" /\ o \in {"create", "ask", "cancel"}
            \/ ui.page = "visit" /\ o \notin {"ask", "cancel"}
            => (pending[o].at = "none" => pending'[o].at = "none")
         /\ o \in {"leave", "delete"} /\ ui.page = "team" /\ TeamUnder(o) =>
              TeamUnder(o)' \/ ui'.page = "teams"
         /\ o = "crown" /\ pending[o].at = "ok" => pending'[o].at = "ok" \/ "requests" \in ui'.unsaid
         /\ o \in {"save", "delete"} /\ ui.page = "teams" /\ pending[o].at = "ok" =>
              pending'[o].at = "ok" \/ "teams" \in ui'.unsaid
         /\ TeamUnder(o) /\ pending'[o] = Team!P!None /\ ui.page = "team" /\ ui'.page = "teams" =>
              \A q \in {"teams", "asked"} : fetch[q] = Team!P!Idle => fetch'[q] = Team!P!Sent
<1>1. Team!P!Shaped /\ Team!P!Next /\ ui \in TeamForms /\ {"teams", "asked"} \subseteq Team!Queries
  BY DEF TeamInv, Team!Next, Team!Queries
<1>0. Team!P!None.at = "none"
  BY DEF Team!P!None
<1>2. ASSUME \/ ui.page = "team" /\ o \in {"create", "ask", "cancel"}
             \/ ui.page = "visit" /\ o \notin {"ask", "cancel"},
             pending[o].at = "none"
      PROVE  pending'[o].at = "none"
  <2>1. CASE ui.page = "team"
    <3>1. o \notin Team!TeamOffers(ui, data, failed, pending)
      <4>1. /\ o \notin Team!MembersTab(data) /\ o \notin Team!RequestsTab(data)
            /\ o \notin Team!SettingsDialog(ui, pending) /\ o \notin Team!LeaveDialog(data)
        BY <1>2, <2>1 DEF Team!MembersTab, Team!TeamMemberCard, Team!RequestsTab,
           Team!JoinRequestCard, Team!SettingsDialog, Team!LeaveDialog
      <4> QED
        BY <4>1 DEF Team!TeamOffers
    <3>2. ~ Team!Offered(ui, data, failed, pending, o)
      BY <2>1, <3>1 DEF Team!Offered
    <3> QED
      BY <1>1, <1>2, <3>2, Team!P!MutationStep
  <2>2. CASE ui.page = "visit"
    <3>1. ~ Team!Offered(ui, data, failed, pending, o)
      BY <1>2, <2>2 DEF Team!Offered, Team!VisitOffers, Team!RenderAction
    <3> QED
      BY <1>1, <1>2, <3>1, Team!P!MutationStep
  <2> QED
    BY <1>2, <2>1, <2>2
<1>3. ASSUME o \in {"leave", "delete"}, ui.page = "team", NEW k \in Nat, Team!P!Settling(o, k)
      PROVE  pending'[o].at = "settling" \/ ui'.page = "teams"
  <2> DEFINE then == [at |-> "settling", k |-> k]
  <2>1. then.at = "settling"
    OBVIOUS
  <2>2. \/ \E u \in {ui, Team!After(ui, o, "ok")} : ui' = Team!After(u, o, "done")
        \/ pending'[o] = then
    BY <1>1, <1>3, Team!P!SettlingStep, Zenon
  <2>3. Team!After(ui, o, "ok").page = "team"
    BY <1>1, <1>3 DEF Team!After, TeamForms
  <2>4. \A u : u.page = "team" => Team!After(u, o, "done").page = "teams"
    BY <1>3 DEF Team!After, Team!Fresh
  <2> HIDE DEF then
  <2> QED
    BY <1>3, <2>1, <2>2, <2>3, <2>4
<1>4. pending[o].at = "settling" => pending[o].k + 1 \in Nat
  BY <1>1 DEF Team!P!Shaped
<1>5. ASSUME o \in {"leave", "delete"}, ui.page = "team", TeamUnder(o)
      PROVE  TeamUnder(o)' \/ ui'.page = "teams"
  <2>1. pending'[o] = pending[o] \/ \E k \in Nat : Team!P!Settling(o, k)
    BY <1>0, <1>1, <1>4, <1>5, Team!P!MutationStep DEF TeamUnder
  <2> QED
    BY <1>3, <1>5, <2>1 DEF TeamUnder
<1>6. ASSUME pending[o].at = "ok"
      PROVE  pending'[o].at = "ok" \/ Team!Unsaid(ui, o) \subseteq ui'.unsaid
             \/ 1 \notin DOMAIN Team!Invalidates(ui, o)
  <2>1. CASE Team!P!Settling(o, 1) /\ ~ 1 > Len(Team!Invalidates(ui, o))
    <3>1. ui' = Team!After(ui, o, "ok")
      BY <1>1, <2>1, Team!P!SettlingStep
    <3> QED
      BY <1>1, <3>1 DEF Team!After, TeamForms
  <2>2. 1 > Len(Team!Invalidates(ui, o)) => 1 \notin DOMAIN Team!Invalidates(ui, o)
    <3>1. Team!P!Listed(Team!Invalidates(ui, o))
      BY <1>1, Team!P!ShortLists DEF Team!Invalidates, Team!VisitInvalidates, Team!TeamsInvalidates,
         Team!CreateInvalidates, Team!CardInvalidates, Team!TeamInvalidates, Team!SaveInvalidates,
         Team!RequestInvalidates, Team!MemberInvalidates, Team!LeaveInvalidates
    <3> QED
      BY <3>1 DEF Team!P!Listed
  <2> QED
    BY <1>0, <1>1, <1>6, <2>1, <2>2, Team!P!MutationStep
<1>7. 1 \in DOMAIN Team!Invalidates(ui, o)
  BY Team!P!ShortLists DEF Team!Invalidates, Team!VisitInvalidates, Team!TeamsInvalidates,
     Team!CreateInvalidates, Team!CardInvalidates, Team!TeamInvalidates, Team!SaveInvalidates,
     Team!RequestInvalidates, Team!MemberInvalidates, Team!LeaveInvalidates
<1>8. /\ o = "crown" => "requests" \in Team!Unsaid(ui, o)
      /\ o \in {"save", "delete"} /\ ui.page = "teams" => "teams" \in Team!Unsaid(ui, o)
  BY DEF Team!Unsaid
<1>9. ASSUME TeamUnder(o), pending'[o] = Team!P!None, ui.page = "team", ui'.page = "teams",
             NEW q \in {"teams", "asked"}, fetch[q] = Team!P!Idle
      PROVE  fetch'[q] = Team!P!Sent
  <2>1. \E k : Team!P!Settling(o, k)
    BY <1>0, <1>1, <1>9, Team!P!MutationStep DEF TeamUnder
  <2>2. ~ Team!Active(ui, q) /\ Team!Active(ui', q)
    BY <1>9 DEF Team!Active, Team!TeamQueries, Team!TeamsQueries
  <2> QED
    BY <1>1, <1>9, <2>1, <2>2, Team!P!NowFetched
<1> QED
  BY <1>2, <1>5, <1>6, <1>7, <1>8, <1>9

(* Every query of the pages comes, unless a change it shows is missed.        *)
LEMMA TeamComing ==
  ASSUME TeamInv, Team!Next, NEW q \in Team!Queries, Team!P!Due({q})
  PROVE  Team!P!Due({q})' \/ Team!P!Missed(q)
<1>1. Team!P!Shaped /\ Team!P!Next /\ ui \in TeamForms
  BY DEF TeamInv, Team!Next
<1> SUFFICES ASSUME q \in owed' PROVE Team!P!Coming(q)' \/ Team!P!Missed(q)
  BY DEF Team!P!Due
<1>2. q \in owed => Team!P!Coming(q)
  BY DEF Team!P!Due
<1>3. ui'.page = "visit" <=> ui.page = "visit"
  BY TeamPageStep
<1>4. \A o \in Team!Ops : /\ Team!P!Listed(Team!Invalidates(ui, o))
                          /\ Team!Invalidates(ui', o) = Team!Invalidates(ui, o)
  <2>1. ASSUME NEW o \in Team!Ops PROVE Team!P!Listed(Team!Invalidates(ui, o))
    BY Team!P!ShortLists DEF Team!Invalidates, Team!VisitInvalidates, Team!TeamsInvalidates,
       Team!CreateInvalidates, Team!CardInvalidates, Team!TeamInvalidates, Team!SaveInvalidates,
       Team!RequestInvalidates, Team!MemberInvalidates, Team!LeaveInvalidates
  <2> QED
    BY <1>3, <2>1 DEF Team!Invalidates
<1>5. \A o \in Team!Ops : Team!Active(Team!After(ui, o, "click"), q) => Team!Active(ui, q)
  <2>1. ASSUME NEW o \in Team!Ops PROVE Team!Active(Team!After(ui, o, "click"), q) => Team!Active(ui, q)
    <3> DEFINE u == Team!After(ui, o, "click")
    <3>1. u.page = ui.page /\ u.known = ui.known
      BY <1>1 DEF Team!After, TeamForms
    <3> HIDE DEF u
    <3>2. Team!Active(u, q) => Team!Active(ui, q)
      BY <3>1 DEF Team!Active, Team!TeamQueries, Team!TeamsQueries, Team!VisitQueries
    <3> QED
      BY <3>2 DEF u
  <2> QED
    BY <2>1
<1> QED
  BY <1>1, <1>2, <1>4, <1>5, Team!P!ComingStep

LEMMA TeamDueStep == ASSUME TeamInv, TeamDue, Team!Next PROVE TeamDue'
<1>1. /\ Team!P!Shaped /\ Team!P!Next /\ ui \in TeamForms /\ db \in TeamTables /\ TeamRoles(db)
      /\ {"details", "members", "requests", "teams", "asked"} \subseteq Team!Queries
      /\ {"save", "crown", "leave", "delete"} \subseteq Team!Ops
  BY DEF TeamInv, TeamDue, Team!Next, Team!Queries, Team!Ops
<1>0. Team!P!None.at = "none" /\ Team!P!Sent.at = "sent"
  BY DEF Team!P!None, Team!P!Sent
<1>2. TeamRoles(db')
  BY <1>1, TeamRolesKept, Team!P!DbStep
<1>3. \A D : Team!P!Due(D) <=> \A q \in D : Team!P!Due({q})
  BY DEF Team!P!Due
<1>4. \A D : Team!P!Due(D)' <=> \A q \in D : Team!P!Due({q})'
  BY DEF Team!P!Due
(* The change that is missed is one of a mutation that was accepted. *)
<1>5. ASSUME NEW q \in Team!Queries, Team!P!Missed(q)
      PROVE  \E o \in Team!Ops :
               /\ pending[o].at = "sent" /\ pending'[o].at = "ok"
               /\ \A k \in DOMAIN Team!Invalidates(ui, o) : q \notin Team!Invalidates(ui, o)[k]
               /\ q = "details"  => o \notin {"reject", "ask", "cancel"}
               /\ q = "members"  => o \notin {"reject", "ask", "cancel", "save"}
               /\ q = "requests" => o \notin {"save", "kick"}
               /\ q = "asked"    => o \in {"create", "ask", "cancel"}
               /\ q = "teams"    => o \in {"create", "ask", "cancel", "save", "delete"}
  <2>1. PICK o \in Team!Ops :
          /\ pending[o].at = "sent" /\ pending' = [pending EXCEPT ![o] = [at |-> "ok"]]
          /\ \E e \in Team!Effects(db, o, pending[o].arg) : Team!Shows(e.db, q) # Team!Shows(db, q)
          /\ \A k \in DOMAIN Team!Invalidates(ui, o) : q \notin Team!Invalidates(ui, o)[k]
    BY <1>5 DEF Team!P!Missed
  <2>2. pending'[o].at = "ok"
    BY <1>1, <2>1 DEF Team!P!Shaped
  <2> QED
    BY <1>1, <2>1, <2>2, TeamShown
(* The page of the own team. *)
<1>6. ASSUME ui.page = "team", ui'.page = "team" PROVE OwnTeamDue'
  <2>0. OwnTeamDue /\ ui.unsaid \subseteq ui'.unsaid
    BY <1>6, TeamPageStep DEF TeamDue
  <2>1. ASSUME NEW q \in {"teams", "asked"} PROVE fetch'[q] = Team!P!Idle
    <3>1. ~ Team!Active(ui, q) /\ ~ Team!Active(ui', q)
      BY <1>6 DEF Team!Active, Team!TeamQueries
    <3> QED
      BY <1>1, <2>0, <3>1, Team!P!StaysIdle DEF OwnTeamDue
  <2>2. \A o \in {"create", "ask", "cancel"} : pending'[o].at = "none"
    BY <1>6, <2>0, TeamMutations DEF OwnTeamDue, Team!Ops
  <2>3. TeamLeaving => TeamLeaving'
    BY <1>1, <1>6, TeamMutations DEF TeamLeaving
  <2>4. ASSUME NEW q \in {"details", "members", "requests"}, Team!P!Missed(q)
        PROVE  TeamLeaving' \/ (q = "requests" /\ pending'["crown"].at = "ok")
    <3>1. PICK o \in Team!Ops :
            /\ pending[o].at = "sent" /\ pending'[o].at = "ok"
            /\ \A k \in DOMAIN Team!Invalidates(ui, o) : q \notin Team!Invalidates(ui, o)[k]
            /\ q = "details"  => o \notin {"reject", "ask", "cancel"}
            /\ q = "members"  => o \notin {"reject", "ask", "cancel", "save"}
            /\ q = "requests" => o \notin {"save", "kick"}
      BY <1>1, <1>5, <2>4
    <3>2. o \notin {"create", "ask", "cancel"}
      BY <2>0, <3>1 DEF OwnTeamDue
    <3>3. Team!Invalidates(ui, o) =
            CASE o = "save" -> <<{"details"}>>
              [] o = "accept" -> <<{"requests", "members", "details"}>>
              [] o = "reject" -> <<{"requests"}>>
              [] o \in {"kick", "crown"} -> <<{"members"}, {"details"}>>
              [] OTHER -> <<{"members"}>>
      BY <1>6, <3>2 DEF Team!Invalidates, Team!TeamInvalidates, Team!SaveInvalidates,
         Team!RequestInvalidates, Team!MemberInvalidates, Team!LeaveInvalidates
    <3>4. o = "save" => q # "details"
      BY <3>1, <3>3, Team!P!ShortLists
    <3>5. o # "accept"
      BY <3>1, <3>3, Team!P!ShortLists
    <3>6. o = "reject" => q # "requests"
      BY <3>1, <3>3, Team!P!ShortLists
    <3>7. o \in {"kick", "crown"} => q = "requests"
      BY <3>1, <3>3, Team!P!ShortLists
    <3>8. o \in {"crown", "leave", "delete"}
      BY <3>1, <3>2, <3>4, <3>5, <3>6, <3>7 DEF Team!Ops
    <3> QED
      BY <3>1, <3>7, <3>8 DEF TeamLeaving, TeamUnder
  <2>5. TeamLeaving' \/ Team!P!Due({"details", "members"})'
    <3>1. CASE Team!P!Due({"details", "members"})
      BY <1>1, <1>3, <1>4, <2>4, <3>1, TeamComing
    <3> QED
      BY <2>0, <2>3, <3>1 DEF OwnTeamDue
  <2>6. TeamLeaving' \/ pending'["crown"].at = "ok" \/ Team!P!Due({"requests"} \ ui.unsaid)'
    <3>1. "requests" \in ui'.unsaid => Team!P!Due({"requests"} \ ui.unsaid)'
      BY DEF Team!P!Due
    <3>2. CASE pending["crown"].at = "ok"
      BY <1>1, <3>1, <3>2, TeamMutations
    <3>3. CASE Team!P!Due({"requests"} \ ui.unsaid) /\ "requests" \notin ui'.unsaid
      <4>1. Team!P!Due({"requests"})
        BY <1>3, <2>0, <3>3
      <4>2. Team!P!Due({"requests"})' => Team!P!Due({"requests"} \ ui.unsaid)'
        BY DEF Team!P!Due
      <4> QED
        BY <1>1, <2>4, <4>1, <4>2, TeamComing
    <3> QED
      BY <2>0, <2>3, <3>1, <3>2, <3>3 DEF OwnTeamDue
  <2> QED
    BY <2>1, <2>2, <2>5, <2>6 DEF OwnTeamDue
(* The page of a visitor. *)
<1>7. ASSUME ui.page = "visit", ui'.page = "visit" PROVE TeamVisitDue'
  <2>0. TeamVisitDue
    BY <1>7 DEF TeamDue
  <2>1. \A o \in Team!Ops \ {"ask", "cancel"} : pending'[o].at = "none"
    BY <1>7, <2>0, TeamMutations DEF TeamVisitDue
  <2>2. ASSUME NEW q \in {"details", "members", "asked"} PROVE ~ Team!P!Missed(q)
    <3>1. \A o \in Team!Ops : /\ 1 \in DOMAIN Team!Invalidates(ui, o)
                              /\ "asked" \in Team!Invalidates(ui, o)[1]
      BY <1>7, Team!P!ShortLists DEF Team!Invalidates, Team!VisitInvalidates
    <3> QED
      BY <1>1, <1>5, <2>0, <3>1 DEF TeamVisitDue
  <2> QED
    BY <1>1, <1>3, <1>4, <2>0, <2>1, <2>2, TeamComing DEF TeamVisitDue
(* The list of teams. *)
<1>8. ASSUME ui.page = "teams", ui'.page = "teams" PROVE TeamListDue'
  <2>0. TeamListDue /\ ui.unsaid \subseteq ui'.unsaid
    BY <1>8, TeamPageStep DEF TeamDue
  <2>1. \A o \in {"create", "ask", "cancel"} :
          /\ 1 \in DOMAIN Team!Invalidates(ui, o)
          /\ {"asked", "teams"} \subseteq Team!Invalidates(ui, o)[1]
    BY <1>8, Team!P!ShortLists DEF Team!Invalidates, Team!TeamsInvalidates,
       Team!CreateInvalidates, Team!CardInvalidates, Team!Queries
  <2>2. ~ Team!P!Missed("asked")
    BY <1>1, <1>5, <2>1
  <2>3. Team!P!Missed("teams") => pending'["save"].at = "ok" \/ pending'["delete"].at = "ok"
    BY <1>1, <1>5, <2>1
  <2>4. Team!P!Due({"asked"})'
    BY <1>1, <2>0, <2>2, TeamComing DEF TeamListDue
  <2>5. \/ pending'["save"].at = "ok" \/ pending'["delete"].at = "ok"
        \/ Team!P!Due({"teams"} \ ui.unsaid)'
    <3>1. "teams" \in ui'.unsaid => Team!P!Due({"teams"} \ ui.unsaid)'
      BY DEF Team!P!Due
    <3>2. CASE pending["save"].at = "ok" \/ pending["delete"].at = "ok"
      BY <1>1, <1>8, <3>1, <3>2, TeamMutations
    <3>3. CASE Team!P!Due({"teams"} \ ui.unsaid) /\ "teams" \notin ui'.unsaid
      <4>1. Team!P!Due({"teams"})
        BY <1>3, <2>0, <3>3
      <4>2. Team!P!Due({"teams"})' => Team!P!Due({"teams"} \ ui.unsaid)'
        BY DEF Team!P!Due
      <4> QED
        BY <1>1, <2>3, <4>1, <4>2, TeamComing
    <3> QED
      BY <2>0, <3>1, <3>2, <3>3 DEF TeamListDue
  <2> QED
    BY <2>4, <2>5 DEF TeamListDue
(* The team is left, and its page with it. *)
<1>9. ASSUME ui.page = "team", ui'.page = "teams" PROVE TeamListDue'
  <2>1. PICK o \in {"leave", "delete"} : TeamUnder(o) /\ pending'[o] = Team!P!None
    BY <1>9, TeamPageStep
  <2>2. fetch["teams"] = Team!P!Idle /\ fetch["asked"] = Team!P!Idle
    BY <1>9 DEF TeamDue, OwnTeamDue
  <2>3. fetch'["teams"] = Team!P!Sent /\ fetch'["asked"] = Team!P!Sent
    BY <1>1, <1>9, <2>1, <2>2, TeamMutations
  <2>4. ASSUME NEW q \in {"teams", "asked"} PROVE Team!P!Coming(q)'
    BY <1>0, <2>3 DEF Team!P!Coming, Team!P!AtHand
  <2> QED
    BY <2>4 DEF TeamListDue, Team!P!Due
<1> QED
  BY <1>1, <1>2, <1>6, <1>7, <1>8, <1>9, TeamPageStep DEF TeamDue, TeamForms

-----------------------------------------------------------------------------
Sections == {"friends", "team", "event", "links", "catalogue", "play", "profile"}

(* The section of the tab keeps its invariant. *)
SiteInv ==
  /\ at \in Sections
  /\ at = "friends"   => FriendsInv
  /\ at = "team"      => TeamInv
  /\ at = "event"     => EventInv
  /\ at = "links"     => LinksInv
  /\ at = "catalogue" => CatalogueInv
  /\ at = "play"      => PlayInv
  /\ at = "profile"   => ProfileInv

(* The tab is opened in one section. *)
LEMMA SiteStart == Init => SiteInv
<1> SUFFICES ASSUME Init PROVE SiteInv
  OBVIOUS
<1> QED
  BY FriendsStart, TeamStart, EventStart, LinksStart, CatalogueStart, PlayStart, ProfileStart
     DEF Init, SiteInv, Sections

(* A step is a step of that section. *)
LEMMA SiteStep == SiteInv /\ [Next]_vars => SiteInv'
<1> SUFFICES ASSUME SiteInv, [Next]_vars PROVE SiteInv'
  OBVIOUS
<1>1. CASE at = "friends" /\ Friends!Next /\ at' = at
  BY <1>1, FriendsStep DEF SiteInv
<1>2. CASE at = "team" /\ Team!Next /\ at' = at
  BY <1>2, TeamStep DEF SiteInv
<1>3. CASE at = "event" /\ Event!Next /\ at' = at
  BY <1>3, EventStep DEF SiteInv
<1>4. CASE at = "links" /\ Links!Next /\ at' = at
  BY <1>4, LinksStep DEF SiteInv
<1>5. CASE at = "catalogue" /\ Catalogue!Next /\ at' = at
  BY <1>5, CatalogueStep DEF SiteInv
<1>6. CASE at = "play" /\ Play!Next /\ at' = at
  BY <1>6, PlayStep DEF SiteInv
<1>7. CASE at = "profile" /\ Profile!Next /\ at' = at
  BY <1>7, ProfileStep DEF SiteInv
<1>8. CASE UNCHANGED vars
  <2>1. UNCHANGED <<at, db, ui, data, fetch, failed, pending, owed, steps>>
    BY <1>8 DEF vars, page
  <2>2. FriendsInv => FriendsInv'
    BY <2>1 DEF FriendsInv
  <2>3. TeamInv => TeamInv'
    BY <2>1 DEF TeamInv, TeamFollows, Team!P!Shaped, Team!SaveKeepsTheRest
  <2>4. EventInv => EventInv'
    BY <2>1 DEF EventInv, EventFollows, Event!P!Shaped, Event!SaveKeepsTheRest
  <2>5. LinksInv => LinksInv'
    BY <2>1 DEF LinksInv, DraftsFollow, Links!P!Shaped, Links!SaveKeepsTheRest
  <2>6. CatalogueInv => CatalogueInv'
    BY <2>1 DEF CatalogueInv, FormFollows, Catalogue!P!Shaped, Catalogue!SaveKeepsTheRest
  <2>7. PlayInv => PlayInv'
    BY <2>1 DEF PlayInv, Play!P!Shaped
  <2>8. ProfileInv => ProfileInv'
    BY <2>1 DEF ProfileInv, FilesAreKept, ProfileFollows, Profile!P!Shaped, Profile!SaveKeepsTheRest
  <2> QED
    BY <2>1, <2>2, <2>3, <2>4, <2>5, <2>6, <2>7, <2>8 DEF SiteInv
<1> QED
  BY <1>1, <1>2, <1>3, <1>4, <1>5, <1>6, <1>7, <1>8 DEF Next

(* The invariant of the site. *)
LEMMA SiteInvariant == Spec => []SiteInv
  BY SiteStart, SiteStep, PTL DEF Spec

(* The avatar a profile names is a file of the store: uploads and deletions *)
(* of two windows, whatever they overlap with, remove only files that no row *)
(* names and that are named by no request under way (Profile, UploadAvatar). *)
THEOREM AvatarsAreThere == Spec => []AvatarIsThere
<1>1. SiteInv => AvatarIsThere
  BY DEF SiteInv, ProfileInv, FilesAreKept, AvatarIsThere, Profile!AvatarIsThere
<1> QED
  BY <1>1, SiteInvariant, PTL

(* A form of a team, an event, a link, a challenge or a profile that is      *)
(* saved sends what its user edited: what somebody else changed meanwhile is *)
(* not put back, however answers, edits and dialogs follow each other.  Two  *)
(* exceptions are in the properties of the pages: a team without a           *)
(* description on the page is sent an empty one, and the times of an event   *)
(* that the form has cut to minutes are sent whether edited or not.          *)
THEOREM SavesKeepTheRest == Spec => []SaveKeepsTheRest
<1>1. SiteInv => SaveKeepsTheRest
  <2> SUFFICES ASSUME SiteInv PROVE SaveKeepsTheRest
    OBVIOUS
  <2>1. CASE at = "team"
    BY <2>1 DEF SiteInv, TeamInv, SaveKeepsTheRest
  <2>2. CASE at = "event"
    BY <2>2 DEF SiteInv, EventInv, SaveKeepsTheRest
  <2>3. CASE at = "links"
    BY <2>3 DEF SiteInv, LinksInv, SaveKeepsTheRest
  <2>4. CASE at = "catalogue"
    BY <2>4 DEF SiteInv, CatalogueInv, SaveKeepsTheRest
  <2>5. CASE at = "profile"
    BY <2>5 DEF SiteInv, ProfileInv, SaveKeepsTheRest
  <2>6. CASE at \notin {"team", "event", "links", "catalogue", "profile"}
    BY <2>6 DEF SaveKeepsTheRest
  <2> QED
    BY <2>1, <2>2, <2>3, <2>4, <2>5, <2>6
<1> QED
  BY <1>1, SiteInvariant, PTL

(* A page that shows the data of the moment offers nothing its handler would *)
(* refuse, but for the offers each section names.                           *)
THEOREM OffersStand == Spec => []OffersAreAccepted
<1>1. SiteInv => OffersAreAccepted
  <2> SUFFICES ASSUME SiteInv PROVE OffersAreAccepted
    OBVIOUS
  <2>1. at \in Sections
    BY DEF SiteInv
  <2>2. CASE at = "friends"
    BY <2>2, FriendsOffers DEF SiteInv, OffersAreAccepted
  <2>3. CASE at = "team"
    BY <2>3, TeamOffers DEF SiteInv, OffersAreAccepted
  <2>4. CASE at = "event"
    BY <2>4, EventOffers DEF SiteInv, OffersAreAccepted
  <2>5. CASE at = "links"
    BY <2>5, LinksOffers DEF SiteInv, OffersAreAccepted
  <2>6. CASE at = "catalogue"
    BY <2>6 DEF OffersAreAccepted
  <2>7. CASE at = "play"
    BY <2>7, PlayOffers DEF SiteInv, OffersAreAccepted
  <2>8. CASE at = "profile"
    BY <2>8, ProfileOffers DEF SiteInv, OffersAreAccepted
  <2> QED
    BY <2>1, <2>2, <2>3, <2>4, <2>5, <2>6, <2>7, <2>8 DEF Sections
<1> QED
  BY <1>1, SiteInvariant, PTL

(* A page that is opened owes nothing.                                        *)
LEMMA FriendsDueStart == ASSUME Friends!Init PROVE FriendsDue
<1>1. /\ Friends!P!InitLoaded(Friends!InitialTables, Friends!InitialPages, Friends!Empty)
      /\ "send" \in Friends!Ops
  BY DEF Friends!Init, Friends!Ops
<1>2. Friends!P!Shaped
  BY <1>1, Friends!P!ShapedInit DEF Friends!Empty
<1> QED
  BY <1>1, <1>2 DEF Friends!P!InitLoaded, Friends!P!None, FriendsDue, Friends!P!Due

LEMMA EventDueStart == ASSUME Event!Init PROVE EventDue
<1>1. /\ Event!P!InitLoaded(Event!InitialEvents, Event!InitialPages, Event!Empty)
      /\ "event" \in Event!Queries /\ Event!Ops = {"join", "leave", "delete", "update", "create"}
  BY DEF Event!Init, Event!Queries, Event!Ops
<1>2. /\ owed = {} /\ fetch["event"] = Event!P!Idle
      /\ \A o \in Event!Ops : pending[o].at = "none"
  BY <1>1 DEF Event!P!InitLoaded, Event!P!None
<1> QED
  BY <1>1, <1>2 DEF EventDue, EventUnder, Event!P!Due

LEMMA TeamDueStart == ASSUME Team!Init PROVE TeamDue
<1>1. /\ Team!P!InitLoaded(Team!InitialTeams, Team!InitialPages, Team!Empty)
      /\ {"teams", "asked"} \subseteq Team!Queries /\ {"create", "ask", "cancel"} \subseteq Team!Ops
  BY DEF Team!Init, Team!Queries, Team!Ops
<1>2. /\ owed = {} /\ fetch["teams"] = Team!P!Idle /\ fetch["asked"] = Team!P!Idle
      /\ \A o \in Team!Ops : pending[o].at = "none"
  BY <1>1 DEF Team!P!InitLoaded, Team!P!None
<1>3. TeamRoles(db)
  <2> DEFINE led(c, m, a) == [Team!NoTeam EXCEPT !.captain = c, !.members = m, !.asked = a]
  <2>1. db \in {Team!NoTeam, led("You", {"You"}, {}), led("You", Team!Users, {}),
                led("Me", {"Me"}, {"You"}), led("Me", Team!Users, {}),
                [led("Me", Team!Users, {}) EXCEPT !.text = 0]}
    BY <1>1, Zenon DEF Team!P!InitLoaded, Team!InitialTeams
  <2>2. ASSUME NEW c, NEW m, NEW a
        PROVE  /\ led(c, m, a).captain = c /\ led(c, m, a).members = m /\ led(c, m, a).asked = a
               /\ [led(c, m, a) EXCEPT !.text = 0].captain = c
               /\ [led(c, m, a) EXCEPT !.text = 0].members = m
               /\ [led(c, m, a) EXCEPT !.text = 0].asked = a
    BY DEF Team!NoTeam
  <2>3. TeamRoles(Team!NoTeam)
    BY DEF TeamRoles, Team!NoTeam
  <2> DEFINE cut == [led("Me", Team!Users, {}) EXCEPT !.text = 0]
  <2>4. cut.captain = "Me" /\ cut.members = Team!Users /\ cut.asked = {}
    BY <2>2
  <2> HIDE DEF led, cut
  <2>5. db \in {Team!NoTeam, led("You", {"You"}, {}), led("You", Team!Users, {}),
                led("Me", {"Me"}, {"You"}), led("Me", Team!Users, {}), cut}
    BY <2>1 DEF cut
  <2> QED
    BY <2>2, <2>3, <2>4, <2>5 DEF TeamRoles, Team!Users
<1> QED
  BY <1>1, <1>2, <1>3 DEF TeamDue, OwnTeamDue, TeamVisitDue, TeamListDue, Team!P!Due

(* The section of the tab: what its page owes comes.                          *)
SiteDue ==
  /\ at = "friends"   => FriendsDue
  /\ at = "team"      => TeamDue
  /\ at = "event"     => EventDue
  /\ at = "links"     => LinksDue
  /\ at = "catalogue" => CatalogueDue
  /\ at = "play"      => PlayDue
  /\ at = "profile"   => ProfileDue

LEMMA SiteDueStart == Init => SiteDue
<1> SUFFICES ASSUME Init PROVE SiteDue
  OBVIOUS
<1>1. CASE at = "links" /\ Links!Init
  BY <1>1 DEF Links!Init, Links!P!InitPage, LinksDue, Links!P!Due, SiteDue
<1>2. CASE at = "catalogue" /\ Catalogue!Init
  BY <1>2 DEF Catalogue!Init, Catalogue!P!InitLoaded, CatalogueDue, Catalogue!P!Due, SiteDue
<1>3. CASE at = "play" /\ Play!Init
  BY <1>3 DEF Play!Init, Play!P!InitLoaded, PlayDue, Play!P!Due, SiteDue
<1>4. CASE at = "profile" /\ Profile!Init
  BY <1>4 DEF Profile!Init, Profile!P!InitLoaded, ProfileDue, Profile!P!Due, SiteDue
<1> QED
  BY <1>1, <1>2, <1>3, <1>4, FriendsDueStart, TeamDueStart, EventDueStart DEF Init, SiteDue

LEMMA SiteDueStep == SiteInv /\ SiteDue /\ [Next]_vars => SiteDue'
<1> SUFFICES ASSUME SiteInv, SiteDue, [Next]_vars PROVE SiteDue'
  OBVIOUS
<1>1. CASE at = "friends" /\ Friends!Next /\ at' = at
  BY <1>1, FriendsDueStep DEF SiteInv, SiteDue
<1>2. CASE at = "team" /\ Team!Next /\ at' = at
  BY <1>2, TeamDueStep DEF SiteInv, SiteDue
<1>3. CASE at = "event" /\ Event!Next /\ at' = at
  BY <1>3, EventDueStep DEF SiteInv, SiteDue
<1>4. CASE at = "links" /\ Links!Next /\ at' = at
  BY <1>4, LinksDueStep DEF SiteInv, SiteDue
<1>5. CASE at = "catalogue" /\ Catalogue!Next /\ at' = at
  BY <1>5, CatalogueDueStep DEF SiteInv, SiteDue
<1>6. CASE at = "play" /\ Play!Next /\ at' = at
  BY <1>6, PlayDueStep DEF SiteInv, SiteDue
<1>7. CASE at = "profile" /\ Profile!Next /\ at' = at
  BY <1>7, ProfileDueStep DEF SiteInv, SiteDue
<1>8. CASE UNCHANGED vars
  <2>1. UNCHANGED <<at, db, ui, data, fetch, failed, pending, owed, steps>>
    BY <1>8 DEF vars, page
  <2>2. FriendsDue => FriendsDue'
    BY <2>1 DEF FriendsDue, Friends!P!Shaped, Friends!P!Due, Friends!P!Coming, Friends!P!AtHand,
       Friends!P!ToCome
  <2>3. TeamDue => TeamDue'
    BY <2>1 DEF TeamDue, OwnTeamDue, TeamVisitDue, TeamListDue, TeamLeaving, TeamUnder,
       Team!P!Due, Team!P!Coming, Team!P!AtHand, Team!P!ToCome
  <2>4. EventDue => EventDue'
    BY <2>1 DEF EventDue, EventUnder, EventLeft, Event!P!Due, Event!P!Coming, Event!P!AtHand,
       Event!P!ToCome
  <2>5. LinksDue => LinksDue'
    BY <2>1 DEF LinksDue, Links!P!Due, Links!P!Coming, Links!P!AtHand, Links!P!ToCome
  <2>6. CatalogueDue => CatalogueDue'
    BY <2>1 DEF CatalogueDue, Catalogue!P!Due, Catalogue!P!Coming, Catalogue!P!AtHand,
       Catalogue!P!ToCome
  <2>7. PlayDue => PlayDue'
    BY <2>1 DEF PlayDue, Play!P!Due, Play!P!Coming, Play!P!AtHand, Play!P!ToCome
  <2>8. ProfileDue => ProfileDue'
    BY <2>1 DEF ProfileDue, Profile!P!Due, Profile!P!Coming, Profile!P!AtHand, Profile!P!ToCome
  <2> QED
    BY <2>1, <2>2, <2>3, <2>4, <2>5, <2>6, <2>7, <2>8 DEF SiteDue
<1> QED
  BY <1>1, <1>2, <1>3, <1>4, <1>5, <1>6, <1>7, <1>8 DEF Next

(* At rest, what comes has come.                                              *)
LEMMA TeamOwed == ASSUME TeamInv, TeamDue PROVE Team!OwnChangesShown
<1> SUFFICES ASSUME Team!P!Quiet PROVE Team!P!NothingOwed(Team!Displayed)
  BY DEF Team!OwnChangesShown, Team!P!NothingOwed
<1>1. \A o \in Team!Ops : pending[o].at = "none"
  BY DEF Team!P!Quiet, Team!P!None
<1>2. {"save", "crown", "leave", "delete"} \subseteq Team!Ops /\ ui \in TeamForms
  BY DEF Team!Ops, TeamInv
<1>3. ASSUME NEW q \in Team!Displayed, Team!Active(ui, q), q \in owed PROVE Team!P!Coming(q)
  <2>1. q \in {"details", "members", "requests", "teams", "asked"} /\ q \notin ui.unsaid
    BY <1>3 DEF Team!Displayed
  <2>2. CASE ui.page = "team"
    <3>1. q \in {"details", "members", "requests"}
      BY <1>3, <2>1, <2>2 DEF Team!Active, Team!TeamQueries
    <3>2. Team!P!Due({"details", "members"}) /\ Team!P!Due({"requests"} \ ui.unsaid)
      BY <1>1, <1>2, <2>2 DEF TeamDue, OwnTeamDue, TeamLeaving, TeamUnder
    <3> QED
      BY <1>3, <2>1, <3>1, <3>2 DEF Team!P!Due
  <2>3. CASE ui.page = "visit"
    <3>1. q \in {"details", "members", "asked"}
      BY <1>3, <2>1, <2>3 DEF Team!Active, Team!VisitQueries
    <3> QED
      BY <1>3, <2>3, <3>1 DEF TeamDue, TeamVisitDue, Team!P!Due
  <2>4. CASE ui.page = "teams"
    <3>1. q \in {"teams", "asked"}
      BY <1>3, <2>1, <2>4 DEF Team!Active, Team!TeamsQueries
    <3>2. Team!P!Due({"asked"}) /\ Team!P!Due({"teams"} \ ui.unsaid)
      BY <1>1, <1>2, <2>4 DEF TeamDue, TeamListDue
    <3> QED
      BY <1>3, <2>1, <3>1, <3>2 DEF Team!P!Due
  <2> QED
    BY <1>2, <2>2, <2>3, <2>4 DEF TeamForms
<1> QED
  BY <1>3, Team!P!RestingDue

LEMMA EventOwed == ASSUME EventInv, EventDue PROVE Event!OwnChangesShown
<1> SUFFICES ASSUME Event!P!Quiet PROVE Event!P!NothingOwed({"event", "events"})
  BY DEF Event!OwnChangesShown, Event!P!NothingOwed
<1>1. ~ EventUnder("delete") /\ ~ EventUnder("create")
  BY DEF Event!P!Quiet, Event!P!None, EventUnder, Event!Ops
<1>2. ASSUME NEW q \in {"event", "events"}, Event!Active(ui, q), q \in owed PROVE Event!P!Coming(q)
  <2>1. ui \in EventForms
    BY DEF EventInv
  <2>2. CASE q = "event"
    <3>1. ui.page # "events"
      BY <1>2, <2>2 DEF Event!Active, Event!EventsQueries
    <3> QED
      BY <1>1, <1>2, <2>2, <3>1 DEF EventDue, EventLeft, Event!P!Due
  <2>3. CASE q = "events"
    <3>1. ui.page = "events"
      BY <1>2, <2>1, <2>3 DEF Event!Active, Event!EventQueries, Event!FormQueries,
         Event!BoardQueries, EventForms
    <3> QED
      BY <1>1, <1>2, <2>3, <3>1 DEF EventDue, Event!P!Due
  <2> QED
    BY <2>2, <2>3
<1> QED
  BY <1>2, Event!P!RestingDue

LEMMA SiteOwed == SiteInv /\ SiteDue => OwnChangesShown
<1> SUFFICES ASSUME SiteInv, SiteDue PROVE OwnChangesShown
  OBVIOUS
<1>0. at \in Sections
  BY DEF SiteInv
<1>1. CASE at = "friends"
  <2>1. Friends!P!Quiet => Friends!P!NothingOwed(Friends!Queries)
    BY <1>1, Friends!P!RestingDue DEF SiteDue, FriendsDue, Friends!P!Due
  <2> QED
    BY <1>1, <2>1 DEF OwnChangesShown, Friends!OwnChangesShown, Friends!P!NothingOwed
<1>2. CASE at = "team"
  BY <1>2, TeamOwed DEF SiteInv, SiteDue, OwnChangesShown
<1>3. CASE at = "event"
  BY <1>3, EventOwed DEF SiteInv, SiteDue, OwnChangesShown
<1>4. CASE at = "links"
  <2>1. Links!P!Quiet => Links!P!NothingOwed(Links!Queries)
    BY <1>4, Links!P!RestingDue DEF SiteDue, LinksDue, Links!P!Due
  <2> QED
    BY <1>4, <2>1 DEF OwnChangesShown, Links!OwnChangesShown, Links!P!NothingOwed
<1>5. CASE at = "catalogue"
  <2>1. Catalogue!P!Quiet => Catalogue!P!NothingOwed(Catalogue!Queries)
    BY <1>5, Catalogue!P!RestingDue DEF SiteDue, CatalogueDue, Catalogue!P!Due
  <2> QED
    BY <1>5, <2>1 DEF OwnChangesShown, Catalogue!OwnChangesShown, Catalogue!P!NothingOwed
<1>6. CASE at = "play"
  <2>1. Play!P!Quiet => Play!P!NothingOwed({"challenges", "status"})
    BY <1>6, Play!P!RestingDue DEF SiteDue, PlayDue, Play!P!Due
  <2> QED
    BY <1>6, <2>1 DEF OwnChangesShown, Play!OwnChangesShown, Play!P!NothingOwed
<1>7. CASE at = "profile"
  <2>1. Profile!P!Quiet => pending["delete"].at # "ok"
    BY DEF Profile!P!Quiet, Profile!P!None, Profile!Ops
  <2>2. Profile!P!Quiet => ui.removed \/ Profile!P!NothingOwed(Profile!Queries)
    BY <1>7, <2>1, Profile!P!RestingDue DEF SiteDue, ProfileDue, Profile!P!Due
  <2> QED
    BY <1>7, <2>2 DEF OwnChangesShown, Profile!OwnChangesShown, Profile!P!NothingOwed
<1> QED
  BY <1>0, <1>1, <1>2, <1>3, <1>4, <1>5, <1>6, <1>7 DEF Sections

(* What a mutation of this browser changed is shown once everything has       *)
(* settled, on every page and for any number of clicks, failures and changes  *)
(* of others: each mutation invalidates the queries that show its change, or   *)
(* its end leads to a page that fetches them.  The exceptions are the ones     *)
(* OwnChangesShown names with each section.                                    *)
THEOREM OwnChangesAreShown == Spec => []OwnChangesShown
<1>1. SiteInv /\ SiteDue /\ [Next]_vars => (SiteInv /\ SiteDue)'
  BY SiteStep, SiteDueStep
<1>2. Init => SiteInv /\ SiteDue
  BY SiteStart, SiteDueStart
<1> QED
  BY <1>1, <1>2, SiteOwed, PTL DEF Spec
=============================================================================
