------------------------------ MODULE Sessions ------------------------------
(***************************************************************************)
(* Accounts, session rows and the session cookie.                          *)
(*                                                                         *)
(* The user service keeps accounts and one row per session, named by its   *)
(* refresh token.  The web server keeps nothing: the tokens live in the    *)
(* cookie of the browser.  Every loader and action reads the cookie that   *)
(* came with its request and may answer with a whole new one, so two       *)
(* requests of one browser are two read-modify-writes of one value.        *)
(*                                                                         *)
(* A browser has two requests in flight at most: its navigation (forms     *)
(* included) and the fetcher of the dashboard layout, which posts to       *)
(* /refresh.  A tick is a part of the life of an access token; a refresh   *)
(* token has the number of its issue, and those up to "ended" have expired.*)
(***************************************************************************)
EXTENDS Naturals

CONSTANTS
    Accounts,      \* ids of the table users
    Admin,         \* the account the service creates when it starts
    Names,         \* usernames
    AdminName,     \* FOILCTF_ADMIN_USERNAME
    Browsers,
    None,          \* no account, no session
    Keep,          \* an answer without a Set-Cookie header
    Life,          \* ticks an access token lives, less the threshold of a refresh
    MaxClicks      \* bound: what the users and the other clients do

ASSUME SessionsAssumption ==
    /\ Admin \in Accounts /\ AdminName \in Names
    /\ None \notin Accounts /\ None \notin Names
    /\ Life \in Nat \ {0} /\ MaxClicks \in Nat

VARIABLES
    users,     \* the username of an account, None when there is no such row
    linked,    \* accounts with an oauth42_login
    rows,      \* the refresh tokens of the table sessions
    rotating,  \* accounts updated whose tokens are not yet rotated
    issued, ended,
    cookie,    \* per browser: the user in the session cookie, or None
    page,      \* per browser: the user in the loader data of the open page
    req,       \* per browser: its two requests
    clicks

service == <<users, linked, rows, rotating>>
clock   == <<issued, ended>>
vars    == <<service, clock, cookie, page, req, clicks>>

Slots == {"nav", "fetcher"}

\* Every click issues one refresh token at most.
Moments       == 1..MaxClicks
AccessTokens  == [id : Accounts, name : Names, age : 0..Life]
RefreshTokens == [id : Accounts, at : Moments]
SessionUsers  == [id : Accounts, name : Names,
                  access : AccessTokens, refresh : RefreshTokens]
MaybeUser     == SessionUsers \cup {None}

\* "undefined" and "no Set-Cookie" are not users.
ASSUME NoUserAssumption ==
    None \notin SessionUsers /\ Keep \notin SessionUsers /\ Keep # None

Kinds  == {"load", "refresh", "signin", "oauth", "register", "profile", "signout"}
Stages == {"sent", "second", "answered"}

\* A request: what it is for, how far it is, the user in the cookie it
\* carried, what the form said, and the cookie its answer sets.
Requests == [kind : Kinds, stage : Stages, user : MaybeUser,
             acct : Accounts \cup {None}, out : MaybeUser \cup {Keep}]
Idle == [kind |-> "idle"]

Sent(k, u, a) == [kind |-> k, stage |-> "sent", user |-> u, acct |-> a, out |-> Keep]

TypeOK ==
    /\ users \in [Accounts -> Names \cup {None}]
    /\ linked \subseteq Accounts /\ rotating \subseteq Accounts
    /\ rows \subseteq RefreshTokens
    /\ issued \in 0..MaxClicks /\ ended \in 0..MaxClicks
    /\ cookie \in [Browsers -> MaybeUser] /\ page \in [Browsers -> MaybeUser]
    /\ req \in [Browsers -> [Slots -> Requests \cup {Idle}]]
    /\ clicks \in 0..MaxClicks

\* The service starts: it makes sure of the administrator, next to the
\* accounts that are there already.  Usernames are UNIQUE.
Init ==
    /\ users \in [Accounts -> Names \cup {None}]
    /\ users[Admin] = AdminName
    /\ \A a, c \in Accounts : users[a] = users[c] /\ users[a] # None => a = c
    /\ linked \in SUBSET {a \in Accounts : users[a] # None}
    /\ rows = {} /\ rotating = {}
    /\ issued = 0 /\ ended = 0
    /\ cookie = [b \in Browsers |-> None] /\ page = [b \in Browsers |-> None]
    /\ req = [b \in Browsers |-> [s \in Slots |-> Idle]]
    /\ clicks = 0

Click == clicks < MaxClicks /\ clicks' = clicks + 1

-----------------------------------------------------------------------------
\* Tokens.

\* Tokens are stamped in seconds: n is the moment of the last issue or the next.
IssueAt(n) ==
    /\ n \in {issued, issued + 1} /\ n \in Moments /\ n > ended
    /\ issued' = n /\ UNCHANGED ended

AccessToken(a, name) == [id |-> a, name |-> name, age |-> 0]
RefreshToken(a, n)   == [id |-> a, at |-> n]
Tokens(a, name, n)   == [id |-> a, name |-> name, access |-> AccessToken(a, name),
                         refresh |-> RefreshToken(a, n)]

ValidAccess(t)  == t.age < Life
ValidRefresh(t) == t.at > ended

Older(u) == IF u = None \/ ~ValidAccess(u.access) THEN u
            ELSE [u EXCEPT !.access.age = @ + 1]

\* Time passes.  A tick is minutes, and waits for the requests under way.
Tick ==
    /\ \A b \in Browsers, s \in Slots : req[b][s] = Idle
    /\ cookie' = [b \in Browsers |-> Older(cookie[b])]
    /\ page' = [b \in Browsers |-> Older(page[b])]
    /\ UNCHANGED <<service, clock, req, clicks>>

End == ended < issued /\ ended' = ended + 1 /\ UNCHANGED <<service, issued, cookie, page, req, clicks>>

-----------------------------------------------------------------------------
\* The user service.

NameTaken(n) == \E a \in Accounts : users[a] = n

\* POST /api/auth/register: the transaction inserts the user and its profile;
\* the name is UNIQUE, whatever the look-up before it saw.
Register(a, n) ==
    /\ users[a] = None /\ ~NameTaken(n)
    /\ users' = [users EXCEPT ![a] = n]
    /\ linked' \in {linked, linked \cup {a}}
    /\ UNCHANGED <<rows, rotating>>

\* POST /api/auth/login
Login(a, n) ==
    /\ users[a] # None
    /\ IssueAt(n)
    /\ rows' = rows \cup {RefreshToken(a, n)}
    /\ UNCHANGED <<users, linked, rotating>>

\* POST /api/auth/refresh: the row is found, its account too; the new access
\* token is signed with what the table says now.
Renewable(t) == ValidRefresh(t) /\ t \in rows /\ users[t.id] # None

\* Mutant: the access token is signed with the name of the token before it.
Renewed_OldName(u) == [u EXCEPT !.access = AccessToken(u.refresh.id, u.access.name)]

Renewed(u) == [u EXCEPT !.access = AccessToken(u.refresh.id, users[u.refresh.id])]

\* DELETE /api/auth/logout
Logout(t) == rows' = rows \ {t} /\ UNCHANGED <<users, linked, rotating>>

\* PUT /api/users/:username as far as its guards: the name in the path is
\* somebody's, the token is valid, and was signed with that name.
MayUpdate(access, name) == NameTaken(name) /\ ValidAccess(access) /\ access.name = name

\* updateTokens: one refresh token for every row of the account.
Rotated(a, n) == {t \in rows : t.id # a} \cup
                 (IF \E t \in rows : t.id = a THEN {RefreshToken(a, n)} ELSE {})

\* DELETE /api/users/:username: the rows go with the user (ON DELETE CASCADE).
DeleteUser(a) ==
    /\ users' = [users EXCEPT ![a] = None]
    /\ rows' = {t \in rows : t.id # a}
    /\ linked' = linked \ {a}
    /\ UNCHANGED rotating

\* A client of the API, not a browser, renames an account ...
Rename(a, n) ==
    /\ Click
    /\ users[a] # None /\ ~NameTaken(n)
    /\ users' = [users EXCEPT ![a] = n]
    /\ rotating' = rotating \cup {a}
    /\ UNCHANGED <<linked, rows, clock, cookie, page, req>>
\* ... and then the tokens are rotated, or the service dies before that.
Rotate(a) ==
    /\ a \in rotating
    /\ rotating' = rotating \ {a}
    /\ \/ \E n \in Moments : IssueAt(n) /\ rows' = Rotated(a, n)
       \/ UNCHANGED <<rows, clock>>
    /\ UNCHANGED <<users, linked, cookie, page, req, clicks>>

-----------------------------------------------------------------------------
\* The browser sends a request, and takes an answer.

Free(b, s) == req[b][s] = Idle
Waiting(b, s, k, stage) == req[b][s] # Idle /\ req[b][s].kind = k /\ req[b][s].stage = stage

Put(b, s, r) == req' = [req EXCEPT ![b][s] = r]
Send(b, s, k, a) == Free(b, s) /\ Put(b, s, Sent(k, cookie[b], a))
Answer(b, s, out) == Put(b, s, [req[b][s] EXCEPT !.stage = "answered", !.out = out])

\* GET of a page.
Open(b) == Click /\ Send(b, "nav", "load", None) /\ UNCHANGED <<service, clock, cookie, page>>

\* The form of /signin, offered to a guest.
SignIn(b, a) ==
    /\ Click /\ page[b] = None
    /\ Send(b, "nav", "signin", a)
    /\ UNCHANGED <<service, clock, cookie, page>>

\* The form of /register.
SubmitRegister(b, a) ==
    /\ Click /\ page[b] = None
    /\ Send(b, "nav", "register", a)
    /\ UNCHANGED <<service, clock, cookie, page>>

\* "Sign in with 42": the browser leaves for the provider.
StartOAuth(b, a) ==
    /\ Click /\ page[b] = None
    /\ Send(b, "nav", "oauth", a)
    /\ UNCHANGED <<service, clock, cookie, page>>

\* "Link" on the profile page, as far as the provider sends the browser back.
LinkOAuth(b) ==
    /\ Click /\ page[b] # None /\ Free(b, "nav")
    /\ ValidAccess(page[b].access) /\ users[page[b].id] # None /\ page[b].id \notin linked
    /\ linked' = linked \cup {page[b].id}
    /\ Send(b, "nav", "load", None)
    /\ UNCHANGED <<users, rows, rotating, clock, cookie, page>>

\* The e-mail and the password form of the profile page.
SubmitProfile(b) ==
    /\ Click /\ page[b] # None
    /\ Send(b, "nav", "profile", None)
    /\ UNCHANGED <<service, clock, cookie, page>>

LogoutOf(b) == [Sent("signout", cookie[b], None) EXCEPT !.out = page[b]]

\* The button "Sign out": the request that deletes the row is sent by the
\* page, with the refresh token of its loader data.
SignOut(b) ==
    /\ Click /\ page[b] # None /\ Free(b, "nav")
    /\ Put(b, "nav", LogoutOf(b))
    /\ UNCHANGED <<service, clock, cookie, page>>

\* The form that deletes the account, whose success signs out.
DeleteAccount(b) ==
    /\ Click /\ page[b] # None
    /\ MayUpdate(page[b].access, page[b].name)
    /\ DeleteUser(page[b].id)
    /\ Free(b, "nav") /\ Put(b, "nav", LogoutOf(b))
    /\ UNCHANGED <<clock, cookie, page>>

\* The interval of the dashboard layout, which runs while its loader data has a user.
SendRefresh(b) ==
    /\ page[b] # None
    /\ Send(b, "fetcher", "refresh", None)
    /\ UNCHANGED <<service, clock, cookie, page, clicks>>

-----------------------------------------------------------------------------
\* The loaders and actions of the web server.

\* The loader of the dashboard layout answers with the session it read.
WebLoad(b, s) ==
    /\ Waiting(b, s, "load", "sent")
    /\ Answer(b, s, req[b][s].user)
    /\ UNCHANGED <<service, clock, cookie, page, clicks>>

\* Mutant: a refused refresh leaves the session as it is.
WebRefresh_KeepsRefused(b) ==
    LET u == req[b]["fetcher"].user
    IN /\ Waiting(b, "fetcher", "refresh", "sent")
       /\ \/ Answer(b, "fetcher", Keep)
          \/ /\ u # None /\ ~ValidAccess(u.access) /\ Renewable(u.refresh)
             /\ Answer(b, "fetcher", Renewed(u))
       /\ UNCHANGED <<service, clock, cookie, page, clicks>>

\* POST /refresh: no session, a token with time to spare, an expired session,
\* a new access token, or no answer from the service.
WebRefresh(b) ==
    LET u == req[b]["fetcher"].user
    IN /\ Waiting(b, "fetcher", "refresh", "sent")
       /\ \/ /\ u # None /\ ValidAccess(u.access)
             /\ Answer(b, "fetcher", Keep)
          \/ /\ u # None /\ ~ValidAccess(u.access) /\ Renewable(u.refresh)
             /\ Answer(b, "fetcher", Renewed(u))
          \/ /\ ~(u # None /\ ValidAccess(u.access))
             /\ Answer(b, "fetcher", None)
       /\ UNCHANGED <<service, clock, cookie, page, clicks>>

\* POST /signin, first fetch: the tokens.  A refusal sets no cookie.
WebSignIn(b) ==
    LET a == req[b]["nav"].acct
    IN /\ Waiting(b, "nav", "signin", "sent")
       /\ \/ \E n \in Moments :
               /\ Login(a, n)
               /\ Put(b, "nav", [req[b]["nav"] EXCEPT !.stage = "second",
                                                      !.out = Tokens(a, users[a], n)])
          \/ Answer(b, "nav", Keep) /\ UNCHANGED <<service, clock>>
       /\ UNCHANGED <<cookie, page, clicks>>

\* Second fetch: who that is.  When it fails the row of the session stays behind.
WebSignInMe(b) ==
    LET r == req[b]["nav"]
    IN /\ Waiting(b, "nav", "signin", "second")
       /\ \/ /\ users[r.acct] # None
             /\ Answer(b, "nav", [r.out EXCEPT !.name = users[r.acct]])
          \/ Answer(b, "nav", Keep)
       /\ UNCHANGED <<service, clock, cookie, page, clicks>>

\* /api/auth/register, which answers the page and touches no cookie.
WebRegister(b) ==
    LET a == req[b]["nav"].acct
    IN /\ Waiting(b, "nav", "register", "sent")
       /\ \/ \E n \in Names : Register(a, n)
          \/ UNCHANGED service
       /\ Answer(b, "nav", Keep)
       /\ UNCHANGED <<clock, cookie, page, clicks>>

\* /api/oauth/42/connect/verify: a linked account gets a session; the browser is
\* sent to /oauth/42 with the tokens, or with the profile to register, or an error.
WebOAuthVerify(b) ==
    LET a == req[b]["nav"].acct
    IN /\ Waiting(b, "nav", "oauth", "sent")
       /\ \/ /\ a \in linked
             /\ \E n \in Moments :
                  /\ Login(a, n)
                  /\ Put(b, "nav", [req[b]["nav"] EXCEPT !.user = cookie[b],
                                      !.stage = "second", !.out = Tokens(a, users[a], n)])
          \/ /\ Put(b, "nav", [req[b]["nav"] EXCEPT !.user = cookie[b],
                                 !.stage = "second", !.out = cookie[b]])
             /\ UNCHANGED <<service, clock>>
       /\ UNCHANGED <<cookie, page, clicks>>

\* The loader of /oauth/42 puts what it was sent into the session it read.
WebOAuth(b) ==
    /\ Waiting(b, "nav", "oauth", "second")
    /\ Answer(b, "nav", req[b]["nav"].out)
    /\ UNCHANGED <<service, clock, cookie, page, clicks>>

\* The action of the profile page: PUT /api/users/:username with the tokens of
\* the cookie, whose rows are then rotated.  The tokens of the answer carry the
\* name of the token that asked.
WebProfile(b) ==
    LET u == req[b]["nav"].user
    IN /\ Waiting(b, "nav", "profile", "sent")
       /\ \/ /\ u # None /\ MayUpdate(u.access, u.name)
             /\ \E n \in Moments :
                  /\ IssueAt(n)
                  /\ rows' = Rotated(u.access.id, n)
                  /\ UNCHANGED <<users, linked, rotating>>
                  /\ Answer(b, "nav",
                       [u EXCEPT !.access = AccessToken(u.access.id, u.access.name),
                                 !.refresh = RefreshToken(u.access.id, n)])
          \/ Answer(b, "nav", Keep) /\ UNCHANGED <<service, clock>>
       /\ UNCHANGED <<cookie, page, clicks>>

\* The row of the session is deleted, or the call fails and is only logged;
\* then the page goes to /signout, with the cookie of that moment.
WebLogout(b) ==
    /\ Waiting(b, "nav", "signout", "sent")
    /\ \/ Logout(req[b]["nav"].out.refresh)
       \/ UNCHANGED service
    /\ Put(b, "nav", [req[b]["nav"] EXCEPT !.user = cookie[b], !.stage = "second"])
    /\ UNCHANGED <<clock, cookie, page, clicks>>

\* The loader of /signout.
WebSignOut(b) ==
    /\ Waiting(b, "nav", "signout", "second")
    /\ Answer(b, "nav", None)
    /\ UNCHANGED <<service, clock, cookie, page, clicks>>

\* Mutant: the loaders do not run again after an answer.
Receive_NoReload(b, s) ==
    LET r == req[b][s]
    IN /\ r # Idle /\ r.stage = "answered"
       /\ cookie' = [cookie EXCEPT ![b] = IF r.out = Keep THEN @ ELSE r.out]
       /\ page' = IF r.kind = "refresh" THEN page ELSE [page EXCEPT ![b] = cookie'[b]]
       /\ Put(b, s, Idle)
       /\ UNCHANGED <<service, clock, clicks>>

\* Mutant: a new access token is put into the cookie of the moment.
Receive_Merges(b, s) ==
    LET r == req[b][s]
        c == IF r.out = Keep THEN cookie[b]
             ELSE IF r.kind = "refresh" /\ None \notin {r.out, cookie[b]}
                  THEN [cookie[b] EXCEPT !.access = r.out.access]
                  ELSE r.out
    IN /\ r # Idle /\ r.stage = "answered"
       /\ cookie' = [cookie EXCEPT ![b] = c]
       /\ IF r.kind = "load"
          THEN page' = [page EXCEPT ![b] = r.user] /\ Put(b, s, Idle)
          ELSE Put(b, s, Sent("load", c, None)) /\ UNCHANGED page
       /\ UNCHANGED <<service, clock, clicks>>

\* An answer arrives.  Its Set-Cookie replaces the whole cookie.  After an
\* action or a redirect the loaders of the page run again.
Receive(b, s) ==
    LET r == req[b][s]
        c == IF r.out = Keep THEN cookie[b] ELSE r.out
    IN /\ r # Idle /\ r.stage = "answered"
       /\ cookie' = [cookie EXCEPT ![b] = c]
       /\ IF r.kind = "load"
          THEN page' = [page EXCEPT ![b] = r.user] /\ Put(b, s, Idle)
          ELSE Put(b, s, Sent("load", c, None)) /\ UNCHANGED page
       /\ UNCHANGED <<service, clock, clicks>>

Nav(b) == WebSignIn(b) \/ WebSignInMe(b) \/ WebRegister(b) \/ WebOAuthVerify(b)
          \/ WebOAuth(b) \/ WebProfile(b) \/ WebLogout(b) \/ WebSignOut(b)
Serve(b, s) == WebLoad(b, s) \/ Receive(b, s) \/ (IF s = "nav" THEN Nav(b) ELSE WebRefresh(b))

User(b) ==
    \/ Open(b) \/ SubmitProfile(b) \/ SignOut(b) \/ DeleteAccount(b) \/ LinkOAuth(b)
    \/ \E a \in Accounts : SignIn(b, a) \/ SubmitRegister(b, a) \/ StartOAuth(b, a)

Next ==
    \/ Tick \/ End
    \/ \E a \in Accounts, n \in Names : Rename(a, n)
    \/ \E a \in Accounts : Rotate(a)
    \/ \E b \in Browsers : SendRefresh(b) \/ User(b) \/ \E s \in Slots : Serve(b, s)

\* Requests are answered, the interval of an open page fires, and leaves the
\* page idle often enough for time to pass.
Fairness ==
    /\ SF_vars(Tick)
    /\ \A b \in Browsers : WF_vars(SendRefresh(b))
                           /\ \A s \in Slots : WF_vars(Serve(b, s))

Spec == Init /\ [][Next]_vars /\ Fairness
=============================================================================
