---------------------------- MODULE FriendsPages ----------------------------
(***************************************************************************)
(* Friend requests between two users: the handlers of the user service, and *)
(* the three pages of one of them, Me, that show and change them: the       *)
(* friends page with its tabs, the list of users, the page of the other one.*)
(*                                                                          *)
(* The other one, You, uses the service too.  Its requests look and write   *)
(* in two steps, as two statements of a transaction at read committed; the  *)
(* handler of a click of Me falls anywhere between them.                    *)
(***************************************************************************)
EXTENDS Naturals, FiniteSets

CONSTANT MaxSteps
VARIABLES db, ui, data, fetch, failed, pending, owed, steps

Mine  == <<"Me", "You">>    \* sender and receiver, or who accepted and who asked
Yours == <<"You", "Me">>

\* req and fr are the tables friend_requests and friends; look: what the
\* transactions of You have seen.
Tables == [req : SUBSET {Mine, Yours}, fr : SUBSET {Mine, Yours}, look : {{}}]
InitialTables == {d \in Tables : Cardinality(d.req) + Cardinality(d.fr) <= 1}

MaySend(d)              == d.req = {}
SendFriendRequest(d, r) == [d EXCEPT !.req = @ \cup {r}]
CancelFriendRequest(d, r) == [d EXCEPT !.req = @ \ {r}]
RejectFriendRequest(d, r) == [d EXCEPT !.req = @ \ {r}]
MayAccept(d, r) == r \in d.req /\ d.fr = {}
AcceptFriendRequest(d, r) ==
    [d EXCEPT !.req = @ \ {r}, !.fr = @ \cup {IF r = Mine THEN Yours ELSE Mine}]
RemoveFriend(d) == [d EXCEPT !.fr = {}]

\* You: a look, or a write after one.  The primary keys stop the second
\* insertion of a row.
Looks(d) == IF d.look # {} THEN {}
            ELSE {[d EXCEPT !.look = {l}] :
                    l \in {x \in {"send", "accept"} :
                             IF x = "send" THEN MaySend(d) ELSE MayAccept(d, Mine)}}
Writes(d) ==
    LET done == [d EXCEPT !.look = {}]
    IN (IF "send" \in d.look
        THEN {IF Yours \in d.req THEN done ELSE SendFriendRequest(done, Yours)} ELSE {})
       \cup (IF "accept" \in d.look
             THEN {IF Yours \in d.fr THEN done ELSE AcceptFriendRequest(done, Mine)} ELSE {})
Others(d) == (Looks(d) \cup Writes(d) \cup
              {CancelFriendRequest(d, Yours), RejectFriendRequest(d, Mine), RemoveFriend(d)}) \ {d}

-----------------------------------------------------------------------------
\* What the service answers.
ListFriends(d)           == {Cardinality(d.fr)}            \* a row each
ListFriendRequests(d, r) == {IF r \in d.req THEN 1 ELSE 0}

\* Mutant: a request hides the friendship.
UserList_RequestFirst(d) ==
    IF d.req # {} THEN {IF r = Mine THEN "sent" ELSE "received" : r \in d.req}
    ELSE {IF d.fr # {} THEN "friends" ELSE "none"}

\* friend_status, of the users and of a profile: of two requests the joins give
\* either.
UserList(d) ==
    IF d.fr # {} THEN {"friends"}
    ELSE IF d.req = {} THEN {"none"}
    ELSE {IF r = Mine THEN "sent" ELSE "received" : r \in d.req}
GetPublicProfile(d) ==
    IF d.fr # {} THEN {"friends"}
    ELSE {IF r = Mine THEN "sent" ELSE "received" : r \in d.req}
         \cup IF d.req = {} THEN {"none"} ELSE {}

Shows(d, q) ==
    CASE q = "friends"  -> ListFriends(d)
      [] q = "received" -> ListFriendRequests(d, Yours)
      [] q = "sent"     -> ListFriendRequests(d, Mine)
      [] q = "users"    -> UserList(d)
      [] q = "profile"  -> GetPublicProfile(d)

\* The page of a user takes an answer that is not ok for no profile, and then
\* shows no friendship.
Left(d, q) == {d[q]} \cup IF q = "profile" THEN {"none"} ELSE {}

Queries == {"friends", "received", "sent", "users", "profile"}
Empty == [q \in Queries |-> CASE q = "users" -> "absent" [] q = "profile" -> "none" [] OTHER -> 0]

-----------------------------------------------------------------------------
\* The pages; tab is the one in the URL.  The dialog that confirms a removal is
\* part of the click.
Tabs == {"friends", "received", "sent"}
InitialPages == [page : {"friends", "users", "profile"}, tab : {"friends"}]

FriendsQueries(u) == {"friends"} \cup {u.tab}
UsersQueries      == {"users"}
ProfileQueries    == {"profile"}
Active(u, q) ==
    q \in CASE u.page = "friends" -> FriendsQueries(u)
            [] u.page = "users"   -> UsersQueries
            [] u.page = "profile" -> ProfileQueries

Ops == {"send", "cancel", "accept", "refuse", "remove"}

\* The buttons of a card of the friends page; nothing disables them.
FriendCard(type) ==
    CASE type = "friend"   -> {"remove"}
      [] type = "received" -> {"accept", "refuse"}
      [] type = "sent"     -> {"cancel"}
FriendsTab(d)  == IF d["friends"] = 0 THEN {} ELSE FriendCard("friend")
ReceivedTab(d) == IF d["received"] = 0 THEN {} ELSE FriendCard("received")
SentTab(d)     == IF d["sent"] = 0 THEN {} ELSE FriendCard("sent")
FriendsOffers(u, d) ==
    CASE u.tab = "friends"  -> FriendsTab(d)
      [] u.tab = "received" -> ReceivedTab(d)
      [] u.tab = "sent"     -> SentTab(d)

ActionPending(p) == \E o \in Ops : p[o] # [at |-> "none"]

\* The buttons of a status in the list of users, and on the page of a user.
UserCard(status) ==
    CASE status = "none"     -> {"send"}
      [] status = "sent"     -> {"cancel"}
      [] status = "received" -> {"accept", "refuse"}
      [] OTHER               -> {}
UsersOffers(d, p) == IF ActionPending(p) THEN {} ELSE UserCard(d["users"])
ProfileOffers(d, p) ==
    LET status == d["profile"]
    IN IF ActionPending(p) THEN {}
       ELSE {o \in Ops : \/ status = "none" /\ o = "send"
                         \/ status = "sent" /\ o = "cancel"
                         \/ status = "received" /\ o \in {"accept", "refuse"}}

Offered(u, d, f, p, o) ==
    o \in CASE u.page = "friends" -> FriendsOffers(u, d)
            [] u.page = "users"   -> UsersOffers(d, p)
            [] u.page = "profile" -> ProfileOffers(d, p)

Arg(u, d, o) == u.page

\* notifyUser runs after the change is committed; when it fails the click is
\* told of a failure.
Notified(d)   == {[db |-> d, ok |-> TRUE], [db |-> d, ok |-> FALSE]}
Unnotified(d) == {[db |-> d, ok |-> TRUE]}

Effects(d, o, page) ==
    CASE o = "send"   -> IF MaySend(d) THEN Notified(SendFriendRequest(d, Mine)) ELSE {}
      [] o = "accept" -> IF MayAccept(d, Yours) THEN Notified(AcceptFriendRequest(d, Yours)) ELSE {}
      [] o = "refuse" -> Notified(RejectFriendRequest(d, Yours))
      [] o = "cancel" -> Unnotified(CancelFriendRequest(d, Mine))
      [] o = "remove" -> Unnotified(RemoveFriend(d))

\* What the success of a mutation invalidates.
FriendsInvalidates(o) ==
    CASE o = "remove" -> <<{"friends"}>>
      [] o = "cancel" -> <<{"sent"}>>
      [] OTHER        -> <<{"received"}, {"friends"}>>
UsersInvalidates == <<{"users"}>>

ProfileInvalidates(o) == <<{"users", "profile"}>>

Invalidates(u, o) ==
    CASE u.page = "friends" -> FriendsInvalidates(o)
      [] u.page = "users"   -> UsersInvalidates
      [] u.page = "profile" -> ProfileInvalidates(o)

After(u, o, when) == u
Sync(u, old, new, q) == u

\* A click on a tab.  The debounce of the search writes back the tab it was set
\* with, which is a turn like any other.
TabTurns(u) == {[u EXCEPT !.tab = t] : t \in Tabs \ {u.tab}}
Turns(u, d, p) == IF u.page = "friends" THEN TabTurns(u) ELSE {}

Polls == {}
OnError(u, q) == u

P == INSTANCE QueryPageProofs

Init == P!InitLoaded(InitialTables, InitialPages, Empty)
Next == P!Next

-----------------------------------------------------------------------------
\* Once the page is quiet and no query has failed, it shows every change of its
\* own that was accepted.
OwnChangesShown == P!NothingOwed(Queries)

\* With the data of the moment, the service does not refuse what the page
\* offers; but the friends page lists a request of somebody who is a friend by
\* now, and accepting that one fails.
OffersAreAccepted ==
    P!Quiet /\ P!Current =>
        \A o \in Ops :
            Offered(ui, data, failed, pending, o) /\ ~(ui.page = "friends" /\ o = "accept" /\ db.fr # {})
                => \E e \in Effects(db, o, Arg(ui, data, o)) : e.ok
=============================================================================
