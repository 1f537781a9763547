--------------------------- MODULE SignedInProofs ---------------------------
(***************************************************************************)
(* What is proved of the session and of the sockets of a browser, for any  *)
(* number of accounts, browsers, connections and goroutines, and buffers    *)
(* of any size.                                                             *)
(*                                                                         *)
(* The session: every cookie, every page and every cookie under way is the  *)
(* session of one account.  Each handler builds the session it answers from *)
(* the one it was sent, so the invariant is the one of the requests as      *)
(* well, with what is known of a request from its kind and how far it is.   *)
(*                                                                         *)
(* The sockets: no panic gets away.  A channel is open as long as its       *)
(* connection is on its way into the hub or listed there, or the hub is at  *)
(* its lock, and in the chat as long as somebody is past the lock.          *)
(***************************************************************************)
EXTENDS SignedIn, TLAPS

USE SessionsAssumption, NoUserAssumption
-----------------------------------------------------------------------------
\* What the two parts keep.

\* What is known of a request from its kind and how far it is: the form named
\* an account, and the first answer of /signin brought tokens.
FormOK(r) ==
    /\ r.kind \in {"signin", "register"} => r.acct \in Accounts
    /\ r.kind = "signin" /\ r.stage = "second" => r.out \in SessionUsers
RequestOK(r) ==
    r # Idle => r \in Requests /\ FormOK(r) /\ OneAccount(r.user) /\ OneAccount(r.out)

\* By part: the service and its clock, what the browsers hold, their requests.
ServiceOK ==
    /\ users \in [Accounts -> Names \cup {None}]
    /\ linked \subseteq Accounts /\ rotating \subseteq Accounts
    /\ rows \subseteq RefreshTokens
ClockOK  == issued \in 0..MaxClicks /\ ended \in 0..MaxClicks
Whole(u) == u \in MaybeUser /\ OneAccount(u)
HeldOK   == /\ cookie \in [Browsers -> MaybeUser] /\ page \in [Browsers -> MaybeUser]
            /\ \A b \in Browsers : Whole(cookie[b]) /\ Whole(page[b])
RequestsOK == /\ req \in [Browsers -> [Slots -> Requests \cup {Idle}]]
              /\ \A b \in Browsers, s \in Slots : RequestOK(req[b][s])
SessionInv == ServiceOK /\ ClockOK /\ HeldOK /\ RequestsOK /\ clicks \in 0..MaxClicks

\* The records of the sockets: only the counters need a type, and the lock.
Conns == [link : {"none", "up", "down"}, handler : {"none", "register", "second", "done"},
          send : {"open", "closed"}, buffer : Nat, reader : BOOLEAN, writer : BOOLEAN,
          register : BOOLEAN, unregister : Nat, leaving : Nat, spawned : Nat, waiting : Nat]
Pushers == [by : {"nobody", "listener", "reader", "hub"},
            left : SUBSET Connections, at : SUBSET Connections]

SocketsOK ==
    /\ hubOf \in S!Services
    /\ conn \in [Connections -> Conns]
    /\ listed \subseteq Connections
    /\ hub \in Connections \cup {"select", "sending"}
    /\ push \in Pushers

\* Why the channel of c, whose record is r, is open.
Because(c, r) ==
    /\ r.handler \in {"none", "register"} =>
          r.register = FALSE /\ c \notin listed /\ r.send = "open" /\ hub # c
    /\ r.register => r.send = "open" /\ c \notin listed /\ hub # c
    /\ c \in listed => r.send = "open" /\ hub # c
    /\ hub = c => r.send = "open"
    /\ hubOf = "chat" /\ (r.waiting > 0 \/ c \in push.at) => r.send = "open"
AllBecause == \A c \in Connections : Because(c, conn[c])

SocketsInv == SocketsOK /\ panicked = FALSE /\ AllBecause
-----------------------------------------------------------------------------
\* The session: what the handlers build.

\* What the invariant says of the two properties.
LEMMA SessionSays == SessionInv => TypeOK /\ OneAccountPerSession
  BY DEF SessionInv, ServiceOK, ClockOK, HeldOK, RequestsOK, RequestOK, Whole,
         TypeOK, OneAccountPerSession

\* A user that is not None has every field.
LEMMA UserFields ==
    ASSUME NEW u \in MaybeUser, u # None
    PROVE  /\ u \in SessionUsers /\ u.id \in Accounts /\ u.name \in Names
           /\ u.access \in AccessTokens /\ u.refresh \in RefreshTokens
           /\ u.access.id \in Accounts /\ u.access.name \in Names /\ u.access.age \in 0..Life
           /\ u.refresh.id \in Accounts
  BY DEF MaybeUser, SessionUsers, AccessTokens, RefreshTokens

\* The tokens of a login.
LEMMA TokensWhole ==
    ASSUME NEW a \in Accounts, NEW name \in Names, NEW n \in Moments
    PROVE  /\ Tokens(a, name, n) \in SessionUsers /\ Whole(Tokens(a, name, n))
           /\ RefreshToken(a, n) \in RefreshTokens
           /\ AccessToken(a, name) \in AccessTokens
  BY DEF Tokens, AccessToken, RefreshToken, SessionUsers, AccessTokens, RefreshTokens,
         Whole, OneAccount, MaybeUser

\* Time changes the age of the access token and nothing else.
LEMMA OlderWhole ==
    ASSUME NEW u, Whole(u)
    PROVE  Whole(Older(u))
<1>1. CASE u = None \/ ~ValidAccess(u.access)
  BY <1>1 DEF Older
<1>2. CASE u # None /\ ValidAccess(u.access)
  <2>1. /\ u \in SessionUsers /\ u.access \in AccessTokens /\ u.access.age \in 0..Life
        /\ u.access.id = u.id /\ u.refresh.id = u.id
    BY <1>2, UserFields DEF Whole, OneAccount
  <2>2. u.access.age + 1 \in 0..Life
    BY <2>1, <1>2 DEF ValidAccess
  <2>3. [u.access EXCEPT !.age = @ + 1] \in AccessTokens
    BY <2>1, <2>2 DEF AccessTokens
  <2>4. Older(u) = [u EXCEPT !.access = [u.access EXCEPT !.age = @ + 1]]
    BY <1>2 DEF Older
  <2>5. /\ Older(u) \in SessionUsers /\ Older(u).id = u.id /\ Older(u).refresh = u.refresh
        /\ Older(u).access.id = u.access.id
    BY <2>1, <2>3, <2>4 DEF SessionUsers, AccessTokens
  <2>6. QED
    BY <2>1, <2>5 DEF Whole, MaybeUser, OneAccount
<1>3. QED
  BY <1>1, <1>2

\* The refresh signs a new access token for the account of the refresh token.
LEMMA RenewedWhole ==
    ASSUME NEW u, Whole(u), u # None, ServiceOK, Renewable(u.refresh)
    PROVE  Whole(Renewed(u))
<1>1. /\ u \in SessionUsers /\ u.refresh.id \in Accounts /\ u.refresh.id = u.id
  BY UserFields DEF Whole, OneAccount
<1>2. users[u.refresh.id] \in Names
  BY <1>1 DEF Renewable, ServiceOK
<1>3. AccessToken(u.refresh.id, users[u.refresh.id]) \in AccessTokens
  BY <1>1, <1>2 DEF AccessToken, AccessTokens
<1>4. /\ Renewed(u) \in SessionUsers /\ Renewed(u).id = u.id /\ Renewed(u).refresh = u.refresh
      /\ Renewed(u).access.id = u.refresh.id
  BY <1>1, <1>3 DEF Renewed, SessionUsers, AccessToken
<1>5. QED
  BY <1>1, <1>4 DEF Whole, MaybeUser, OneAccount

-----------------------------------------------------------------------------
\* The session: requests.

\* A request that is sent.
LEMMA SentOK ==
    ASSUME NEW k \in Kinds, NEW u, Whole(u), NEW a \in Accounts \cup {None},
           k \in {"signin", "register"} => a \in Accounts
    PROVE  Sent(k, u, a) \in Requests /\ RequestOK(Sent(k, u, a))
  BY DEF Sent, Requests, Stages, RequestOK, FormOK, Whole, OneAccount

\* A request that is answered.
LEMMA AnswerOK ==
    ASSUME NEW r \in Requests, RequestOK(r), r # Idle,
           NEW out \in MaybeUser \cup {Keep}, OneAccount(out)
    PROVE  RequestOK([r EXCEPT !.stage = "answered", !.out = out])
<1> DEFINE q == [r EXCEPT !.stage = "answered", !.out = out]
<1>1. q \in Requests
  BY DEF Requests, Stages
<1>2. /\ q.kind = r.kind /\ q.stage = "answered" /\ q.user = r.user /\ q.acct = r.acct
      /\ q.out = out
  BY DEF Requests
<1> HIDE DEF q
<1>3. RequestOK(q)
  BY <1>1, <1>2 DEF RequestOK, FormOK
<1>4. QED
  BY <1>3 DEF q

\* A request that waits for its second call.
LEMMA SecondOK ==
    ASSUME NEW r \in Requests, RequestOK(r), r # Idle,
           NEW u, Whole(u), NEW out \in MaybeUser \cup {Keep}, OneAccount(out),
           r.kind = "signin" => out \in SessionUsers
    PROVE  RequestOK([r EXCEPT !.user = u, !.stage = "second", !.out = out])
<1> DEFINE q == [r EXCEPT !.user = u, !.stage = "second", !.out = out]
<1>1. q \in Requests
  BY DEF Requests, Stages, Whole
<1>2. /\ q.kind = r.kind /\ q.user = u /\ q.acct = r.acct
      /\ q.out = out
  BY DEF Requests
<1> HIDE DEF q
<1>3. RequestOK(q)
  BY <1>1, <1>2 DEF RequestOK, FormOK, Whole
<1>4. QED
  BY <1>3 DEF q

\* One request changes and the others stay as they are.
LEMMA PutOK ==
    ASSUME RequestsOK, NEW b \in Browsers, NEW s \in Slots, NEW r, RequestOK(r), Put(b, s, r)
    PROVE  RequestsOK'
<1>1. r \in Requests \cup {Idle}
  BY DEF RequestOK
<1>2. req' \in [Browsers -> [Slots -> Requests \cup {Idle}]]
  BY <1>1 DEF RequestsOK, Put
<1>3. ASSUME NEW c \in Browsers, NEW z \in Slots
      PROVE  RequestOK(req'[c][z])
  <2>1. req'[c][z] = IF c = b /\ z = s THEN r ELSE req[c][z]
    BY DEF RequestsOK, Put
  <2>2. QED
    BY <2>1 DEF RequestsOK
<1>4. QED
  BY <1>2, <1>3 DEF RequestsOK, RequestOK, FormOK, OneAccount

\* The request that is waiting, as the invariant knows it.
LEMMA WaitingOK ==
    ASSUME RequestsOK, NEW b \in Browsers, NEW s \in Slots, req[b][s] # Idle
    PROVE  /\ req[b][s] \in Requests /\ RequestOK(req[b][s]) /\ FormOK(req[b][s])
           /\ Whole(req[b][s].user)
           /\ req[b][s].acct \in Accounts \cup {None}
           /\ req[b][s].out \in MaybeUser \cup {Keep} /\ OneAccount(req[b][s].out)
  BY DEF RequestsOK, RequestOK, Requests, Whole

\* Sending and answering, with the whole of the new state.
LEMMA SendOK ==
    ASSUME SessionInv, NEW b \in Browsers, NEW s \in Slots, NEW k \in Kinds,
           NEW a \in Accounts \cup {None}, k \in {"signin", "register"} => a \in Accounts,
           Send(b, s, k, a)
    PROVE  RequestsOK'
  BY SentOK, PutOK DEF SessionInv, HeldOK, Send

LEMMA AnswerPutOK ==
    ASSUME SessionInv, NEW b \in Browsers, NEW s \in Slots, req[b][s] # Idle,
           NEW out \in MaybeUser \cup {Keep}, OneAccount(out), Answer(b, s, out)
    PROVE  RequestsOK'
<1>1. RequestsOK /\ req[b][s] \in Requests /\ RequestOK(req[b][s])
  BY WaitingOK DEF SessionInv
<1>2. RequestOK([req[b][s] EXCEPT !.stage = "answered", !.out = out])
  BY <1>1, AnswerOK
<1>3. QED
  BY <1>1, <1>2, PutOK DEF Answer

-----------------------------------------------------------------------------
\* The session: the user service.

\* What a step leaves alone.
LEMMA Stays ==
    /\ ServiceOK /\ UNCHANGED service => ServiceOK'
    /\ ClockOK /\ UNCHANGED clock => ClockOK'
    /\ HeldOK /\ UNCHANGED <<cookie, page>> => HeldOK'
    /\ RequestsOK /\ UNCHANGED req => RequestsOK'
    /\ clicks \in 0..MaxClicks /\ (Click \/ UNCHANGED clicks) => clicks' \in 0..MaxClicks
  BY DEF service, clock, ServiceOK, ClockOK, HeldOK, Whole, OneAccount, RequestsOK, RequestOK,
         FormOK, Click

\* A token is issued at a moment, and not after the last one.
LEMMA IssueOK ==
    ASSUME ClockOK, NEW n \in Moments, IssueAt(n)
    PROVE  ClockOK'
  BY DEF ClockOK, IssueAt, Moments

LEMMA LoginOK ==
    ASSUME ServiceOK, ClockOK, NEW a \in Accounts, NEW n \in Moments, Login(a, n)
    PROVE  ServiceOK' /\ ClockOK' /\ users[a] \in Names
<1>1. ClockOK' /\ users[a] \in Names
  BY IssueOK DEF Login, ServiceOK
<1>2. RefreshToken(a, n) \in RefreshTokens
  BY DEF RefreshToken, RefreshTokens
<1>3. ServiceOK'
  BY <1>2 DEF Login, ServiceOK
<1>4. QED
  BY <1>1, <1>3

\* The new rows of an account whose tokens are rotated.
LEMMA RotatedOK ==
    ASSUME ServiceOK, NEW a \in Accounts, NEW n \in Moments
    PROVE  Rotated(a, n) \subseteq RefreshTokens
<1>1. RefreshToken(a, n) \in RefreshTokens
  BY DEF RefreshToken, RefreshTokens
<1>2. QED
  BY <1>1 DEF Rotated, ServiceOK

-----------------------------------------------------------------------------
\* The session: every step.

LEMMA SessionInit == Init => SessionInv
<1> SUFFICES ASSUME Init PROVE SessionInv
  OBVIOUS
<1>1. ServiceOK
  BY DEF Init, ServiceOK
<1>2. ClockOK /\ clicks \in 0..MaxClicks
  BY DEF Init, ClockOK
<1>3. HeldOK
  BY DEF Init, HeldOK, Whole, MaybeUser, OneAccount
<1>4. RequestsOK
  BY DEF Init, RequestsOK, RequestOK
<1>5. QED
  BY <1>1, <1>2, <1>3, <1>4 DEF SessionInv

\* Time, and the clients that are not browsers.
LEMMA TimePasses ==
    ASSUME SessionInv, Tick \/ End
    PROVE  SessionInv'
<1>1. CASE Tick
  <2>1. ServiceOK' /\ ClockOK' /\ RequestsOK' /\ clicks' \in 0..MaxClicks
    BY <1>1, Stays DEF Tick, SessionInv
  <2>2. ASSUME NEW b \in Browsers
        PROVE  Whole(Older(cookie[b])) /\ Whole(Older(page[b]))
    BY OlderWhole DEF SessionInv, HeldOK
  <2>3. HeldOK'
    BY <1>1, <2>2 DEF Tick, HeldOK, Whole, OneAccount
  <2>4. QED
    BY <2>1, <2>3 DEF SessionInv
<1>2. CASE End
  BY <1>2, Stays DEF End, SessionInv, ClockOK
<1>3. QED
  BY <1>1, <1>2

LEMMA OthersRename ==
    ASSUME SessionInv, NEW a \in Accounts, (\E n \in Names : Rename(a, n)) \/ Rotate(a)
    PROVE  SessionInv'
<1>1. ASSUME NEW n \in Names, Rename(a, n)
      PROVE  SessionInv'
  BY <1>1, Stays DEF Rename, SessionInv, ServiceOK
<1>2. CASE Rotate(a)
  <2>1. /\ HeldOK' /\ RequestsOK' /\ clicks' \in 0..MaxClicks
        /\ users' = users /\ linked' = linked /\ rotating' \subseteq rotating
    BY <1>2, Stays DEF Rotate, SessionInv
  <2>2. ASSUME NEW n \in Moments, IssueAt(n), rows' = Rotated(a, n)
        PROVE  ServiceOK' /\ ClockOK'
    BY <2>1, <2>2, IssueOK, RotatedOK DEF SessionInv, ServiceOK
  <2>3. CASE UNCHANGED <<rows, clock>>
    BY <2>1, <2>3, Stays DEF SessionInv, ServiceOK, clock
  <2>4. QED
    BY <1>2, <2>1, <2>2, <2>3 DEF Rotate, SessionInv
<1>3. QED
  BY <1>1, <1>2

\* What the user of a browser does sends one request.
LEMMA PagesSend ==
    ASSUME SessionInv, NEW b \in Browsers,
           \/ Open(b) \/ SubmitProfile(b) \/ SendRefresh(b)
           \/ \E a \in Accounts : SignIn(b, a) \/ SubmitRegister(b, a) \/ StartOAuth(b, a)
    PROVE  SessionInv'
<1>1. ServiceOK' /\ ClockOK' /\ HeldOK' /\ clicks' \in 0..MaxClicks
  BY Stays DEF SessionInv, Open, SubmitProfile, SendRefresh, SignIn, SubmitRegister, StartOAuth
<1>2. PICK s \in Slots, k \in Kinds, a \in Accounts \cup {None} :
          (k \in {"signin", "register"} => a \in Accounts) /\ Send(b, s, k, a)
  BY DEF Open, SubmitProfile, SendRefresh, SignIn, SubmitRegister, StartOAuth, Slots, Kinds
<1>3. RequestsOK'
  BY <1>2, SendOK
<1>4. QED
  BY <1>1, <1>3 DEF SessionInv

LEMMA LinkSends ==
    ASSUME SessionInv, NEW b \in Browsers, LinkOAuth(b)
    PROVE  SessionInv'
<1>1. ClockOK' /\ HeldOK' /\ clicks' \in 0..MaxClicks
  BY Stays DEF SessionInv, LinkOAuth
<1>2. page[b].id \in Accounts
  BY UserFields DEF LinkOAuth, SessionInv, HeldOK, Whole
<1>3. ServiceOK'
  BY <1>2 DEF LinkOAuth, SessionInv, ServiceOK
<1>4. RequestsOK'
  BY SendOK DEF LinkOAuth, Slots, Kinds
<1>5. QED
  BY <1>1, <1>3, <1>4 DEF SessionInv

\* The logout is sent with the user of the page, after the account was deleted
\* or without.
LEMMA LogoutSends ==
    ASSUME SessionInv, NEW b \in Browsers, SignOut(b) \/ DeleteAccount(b)
    PROVE  SessionInv'
<1>1. ClockOK' /\ HeldOK' /\ clicks' \in 0..MaxClicks
  BY Stays DEF SessionInv, SignOut, DeleteAccount
<1>2. Whole(page[b]) /\ Whole(cookie[b]) /\ page[b] # None
  BY DEF SessionInv, HeldOK, SignOut, DeleteAccount
<1>3. ServiceOK'
  <2>1. CASE UNCHANGED service
    BY <2>1, Stays DEF SessionInv
  <2>2. CASE DeleteUser(page[b].id)
    BY <2>2 DEF DeleteUser, SessionInv, ServiceOK
  <2>3. QED
    BY <2>1, <2>2 DEF SignOut, DeleteAccount
<1>4. RequestOK(LogoutOf(b))
  <2>1. Sent("signout", cookie[b], None) \in Requests
    BY <1>2, SentOK DEF Kinds
  <2>2. /\ LogoutOf(b) \in Requests
        /\ LogoutOf(b).kind = "signout" /\ LogoutOf(b).user = cookie[b]
        /\ LogoutOf(b).out = page[b]
    BY <1>2, <2>1 DEF LogoutOf, Requests, Sent, Whole
  <2>3. QED
    BY <1>2, <2>2 DEF RequestOK, FormOK, Whole
<1>5. RequestsOK'
  BY <1>4, PutOK DEF SessionInv, SignOut, DeleteAccount, Slots
<1>6. QED
  BY <1>1, <1>3, <1>5 DEF SessionInv

\* The loaders and actions that ask the service nothing that changes it.
LEMMA WebAnswers ==
    ASSUME SessionInv, NEW b \in Browsers, NEW s \in Slots,
           \/ WebLoad(b, s) \/ WebRefresh(b) \/ WebSignInMe(b) \/ WebOAuth(b) \/ WebSignOut(b)
    PROVE  SessionInv'
<1>1. ServiceOK' /\ ClockOK' /\ HeldOK' /\ clicks' \in 0..MaxClicks
  BY Stays DEF SessionInv, WebLoad, WebRefresh, WebSignInMe, WebOAuth, WebSignOut
<1>2. "nav" \in Slots /\ "fetcher" \in Slots /\ OneAccount(Keep) /\ OneAccount(None)
  BY DEF Slots, OneAccount
<1>3. SUFFICES \E z \in Slots, out \in MaybeUser \cup {Keep} :
                   req[b][z] # Idle /\ OneAccount(out) /\ Answer(b, z, out)
  BY <1>1, AnswerPutOK DEF SessionInv
<1>4. ASSUME NEW z \in Slots, req[b][z] # Idle
      PROVE  /\ Whole(req[b][z].user)
             /\ req[b][z].out \in MaybeUser \cup {Keep} /\ OneAccount(req[b][z].out)
             /\ FormOK(req[b][z])
  BY <1>4, WaitingOK DEF SessionInv
<1>5. CASE WebLoad(b, s)
  BY <1>4, <1>5 DEF WebLoad, Waiting, Whole
<1>6. CASE WebRefresh(b)
  <2> DEFINE u == req[b]["fetcher"].user
  <2>1. req[b]["fetcher"] # Idle /\ Whole(u)
    BY <1>2, <1>4, <1>6 DEF WebRefresh, Waiting
  <2>2. CASE Answer(b, "fetcher", Keep) \/ Answer(b, "fetcher", None)
    BY <1>2, <2>1, <2>2 DEF MaybeUser
  <2>3. CASE u # None /\ Renewable(u.refresh) /\ Answer(b, "fetcher", Renewed(u))
    <3>1. Whole(Renewed(u))
      BY <2>1, <2>3, RenewedWhole DEF SessionInv
    <3>2. QED
      BY <1>2, <2>1, <2>3, <3>1 DEF Whole
  <2>4. QED
    BY <1>6, <2>2, <2>3 DEF WebRefresh
<1>7. CASE WebSignInMe(b)
  <2> DEFINE r == req[b]["nav"]
  <2>1. r # Idle /\ r.acct \in Accounts /\ r.out \in SessionUsers /\ OneAccount(r.out)
    BY <1>2, <1>4, <1>7 DEF WebSignInMe, Waiting, FormOK
  <2>2. CASE Answer(b, "nav", Keep)
    BY <1>2, <2>1, <2>2
  <2>3. CASE users[r.acct] # None /\ Answer(b, "nav", [r.out EXCEPT !.name = users[r.acct]])
    <3>1. users[r.acct] \in Names
      BY <2>1, <2>3 DEF SessionInv, ServiceOK
    <3>2. ASSUME NEW o, o = [r.out EXCEPT !.name = users[r.acct]]
          PROVE  o \in MaybeUser /\ OneAccount(o)
      BY <2>1, <3>1, <3>2 DEF SessionUsers, MaybeUser, OneAccount
    <3>3. QED
      BY <1>2, <2>1, <2>3, <3>2
  <2>4. QED
    BY <1>7, <2>2, <2>3 DEF WebSignInMe
<1>8. CASE WebOAuth(b)
  BY <1>2, <1>4, <1>8 DEF WebOAuth, Waiting
<1>9. CASE WebSignOut(b)
  BY <1>2, <1>9 DEF WebSignOut, Waiting, MaybeUser
<1>10. QED
  BY <1>5, <1>6, <1>7, <1>8, <1>9

\* A request that waits for its second call, with the rest of its handler.
LEMMA PutSecondOK ==
    ASSUME SessionInv, NEW b \in Browsers, req[b]["nav"] # Idle,
           NEW u, Whole(u), NEW out \in MaybeUser \cup {Keep}, OneAccount(out),
           req[b]["nav"].kind = "signin" => out \in SessionUsers,
           Put(b, "nav", [req[b]["nav"] EXCEPT !.user = u, !.stage = "second", !.out = out])
    PROVE  RequestsOK'
<1>1. "nav" \in Slots /\ RequestsOK
  BY DEF Slots, SessionInv
<1>2. req[b]["nav"] \in Requests /\ RequestOK(req[b]["nav"])
  BY <1>1, WaitingOK
<1>3. QED
  BY <1>1, <1>2, SecondOK, PutOK

LEMMA WebLogsIn ==
    ASSUME SessionInv, NEW b \in Browsers, WebSignIn(b) \/ WebOAuthVerify(b)
    PROVE  SessionInv'
<1> DEFINE r == req[b]["nav"]
<1>1. HeldOK' /\ clicks' \in 0..MaxClicks
  BY Stays DEF SessionInv, WebSignIn, WebOAuthVerify
<1>2. "nav" \in Slots /\ OneAccount(Keep) /\ Whole(cookie[b]) /\ r # Idle
  BY DEF Slots, OneAccount, SessionInv, HeldOK, WebSignIn, WebOAuthVerify, Waiting
<1>3. r \in Requests /\ Whole(r.user) /\ FormOK(r)
  BY <1>2, WaitingOK DEF SessionInv
<1>4. SUFFICES ServiceOK' /\ ClockOK' /\ RequestsOK'
  BY <1>1 DEF SessionInv
<1>5. CASE WebSignIn(b)
  <2>1. r.acct \in Accounts
    BY <1>3, <1>5 DEF WebSignIn, Waiting, FormOK
  <2>2. CASE Answer(b, "nav", Keep) /\ UNCHANGED <<service, clock>>
    BY <1>2, <2>2, Stays, AnswerPutOK DEF SessionInv
  <2>3. ASSUME NEW n \in Moments, Login(r.acct, n),
               Put(b, "nav", [r EXCEPT !.stage = "second",
                                       !.out = Tokens(r.acct, users[r.acct], n)])
        PROVE  ServiceOK' /\ ClockOK' /\ RequestsOK'
    <3>1. ServiceOK' /\ ClockOK' /\ users[r.acct] \in Names
      BY <2>1, <2>3, LoginOK DEF SessionInv
    <3>2. ASSUME NEW t, t = Tokens(r.acct, users[r.acct], n)
          PROVE  t \in SessionUsers /\ Whole(t)
      BY <2>1, <3>1, <3>2, TokensWhole
    <3>3. ASSUME NEW t
          PROVE  [r EXCEPT !.stage = "second", !.out = t]
                   = [r EXCEPT !.user = r.user, !.stage = "second", !.out = t]
      BY <1>3 DEF Requests
    <3>4. RequestsOK'
      BY <1>2, <1>3, <2>3, <3>2, <3>3, PutSecondOK DEF Whole
    <3>5. QED
      BY <3>1, <3>4
  <2>4. QED
    BY <1>5, <2>2, <2>3 DEF WebSignIn
<1>6. CASE WebOAuthVerify(b)
  <2>1. r.kind # "signin"
    BY <1>6 DEF WebOAuthVerify, Waiting
  <2>2. CASE /\ Put(b, "nav", [r EXCEPT !.user = cookie[b], !.stage = "second",
                                        !.out = cookie[b]])
             /\ UNCHANGED <<service, clock>>
    BY <1>2, <2>1, <2>2, Stays, PutSecondOK DEF SessionInv, Whole
  <2>3. ASSUME r.acct \in linked, NEW n \in Moments, Login(r.acct, n),
               Put(b, "nav", [r EXCEPT !.user = cookie[b], !.stage = "second",
                                       !.out = Tokens(r.acct, users[r.acct], n)])
        PROVE  ServiceOK' /\ ClockOK' /\ RequestsOK'
    <3>1. r.acct \in Accounts
      BY <2>3 DEF SessionInv, ServiceOK
    <3>2. ServiceOK' /\ ClockOK' /\ users[r.acct] \in Names
      BY <2>3, <3>1, LoginOK DEF SessionInv
    <3>3. ASSUME NEW t, t = Tokens(r.acct, users[r.acct], n)
          PROVE  t \in SessionUsers /\ Whole(t)
      BY <3>1, <3>2, <3>3, TokensWhole
    <3>4. RequestsOK'
      BY <1>2, <2>1, <2>3, <3>3, PutSecondOK DEF Whole
    <3>5. QED
      BY <3>2, <3>4
  <2>4. QED
    BY <1>6, <2>2, <2>3 DEF WebOAuthVerify
<1>7. QED
  BY <1>5, <1>6

LEMMA WebRegisters ==
    ASSUME SessionInv, NEW b \in Browsers, WebRegister(b)
    PROVE  SessionInv'
<1>1. ClockOK' /\ HeldOK' /\ clicks' \in 0..MaxClicks
  BY Stays DEF SessionInv, WebRegister
<1>2. "nav" \in Slots /\ OneAccount(Keep) /\ req[b]["nav"] # Idle
  BY DEF Slots, OneAccount, WebRegister, Waiting
<1>3. req[b]["nav"].acct \in Accounts
  BY <1>2, WaitingOK DEF SessionInv, FormOK, WebRegister, Waiting
<1>4. ServiceOK'
  <2>1. CASE UNCHANGED service
    BY <2>1, Stays DEF SessionInv
  <2>2. ASSUME NEW n \in Names, Register(req[b]["nav"].acct, n)
        PROVE  ServiceOK'
    BY <1>3, <2>2 DEF Register, SessionInv, ServiceOK
  <2>3. QED
    BY <2>1, <2>2 DEF WebRegister
<1>5. RequestsOK'
  BY <1>2, AnswerPutOK, SMTT(30) DEF WebRegister
<1>6. QED
  BY <1>1, <1>4, <1>5 DEF SessionInv

LEMMA WebSaves ==
    ASSUME SessionInv, NEW b \in Browsers, WebProfile(b)
    PROVE  SessionInv'
<1> DEFINE u == req[b]["nav"].user
<1>1. HeldOK' /\ clicks' \in 0..MaxClicks
  BY Stays, ZenonT(30) DEF SessionInv, WebProfile
<1>2. "nav" \in Slots /\ OneAccount(Keep) /\ req[b]["nav"] # Idle
  BY DEF Slots, OneAccount, WebProfile, Waiting
<1>3. Whole(u)
  BY <1>2, WaitingOK DEF SessionInv
<1>4. CASE Answer(b, "nav", Keep) /\ UNCHANGED <<service, clock>>
  <2>1. ServiceOK' /\ ClockOK'
    BY <1>4, Stays DEF SessionInv
  <2>2. RequestsOK'
    BY <1>2, <1>4, AnswerPutOK
  <2>3. QED
    BY <1>1, <2>1, <2>2 DEF SessionInv
<1>5. ASSUME u # None, NEW n \in Moments, IssueAt(n), rows' = Rotated(u.access.id, n),
             UNCHANGED <<users, linked, rotating>>,
             Answer(b, "nav", [u EXCEPT !.access = AccessToken(u.access.id, u.access.name),
                                        !.refresh = RefreshToken(u.access.id, n)])
      PROVE  SessionInv'
  <2>1. /\ u \in SessionUsers /\ u.access.id \in Accounts /\ u.access.name \in Names
        /\ u.access.id = u.id
    BY <1>3, <1>5, UserFields DEF Whole, OneAccount
  <2>2. ServiceOK' /\ ClockOK'
    BY <1>5, <2>1, IssueOK, RotatedOK DEF SessionInv, ServiceOK
  <2>3. /\ AccessToken(u.access.id, u.access.name) \in AccessTokens
        /\ RefreshToken(u.access.id, n) \in RefreshTokens
    BY <2>1, TokensWhole
  <2>4. ASSUME NEW o, o = [u EXCEPT !.access = AccessToken(u.access.id, u.access.name),
                                    !.refresh = RefreshToken(u.access.id, n)]
        PROVE  o \in MaybeUser /\ OneAccount(o)
    <3>1. /\ o \in SessionUsers /\ o.id = u.id
          /\ o.access.id = u.access.id /\ o.refresh.id = u.access.id
      BY <2>1, <2>3, <2>4 DEF SessionUsers, AccessToken, RefreshToken
    <3>2. QED
      BY <2>1, <3>1 DEF MaybeUser, OneAccount
  <2>5. RequestsOK'
    BY <1>2, <1>5, <2>4, AnswerPutOK
  <2>6. QED
    BY <1>1, <2>2, <2>5 DEF SessionInv
<1>6. QED
  BY <1>4, <1>5, ZenonT(30) DEF WebProfile

LEMMA WebLogsOut ==
    ASSUME SessionInv, NEW b \in Browsers, WebLogout(b)
    PROVE  SessionInv'
<1> DEFINE r == req[b]["nav"]
<1>1. ClockOK' /\ HeldOK' /\ clicks' \in 0..MaxClicks
  BY Stays DEF SessionInv, WebLogout
<1>2. "nav" \in Slots /\ r # Idle /\ r.kind # "signin" /\ Whole(cookie[b])
  BY DEF Slots, WebLogout, Waiting, SessionInv, HeldOK
<1>3. ServiceOK'
  BY Stays DEF SessionInv, WebLogout, Logout, ServiceOK
<1>4. r \in Requests /\ r.out \in MaybeUser \cup {Keep} /\ OneAccount(r.out)
  BY <1>2, WaitingOK DEF SessionInv
<1>5. [r EXCEPT !.user = cookie[b], !.stage = "second"]
        = [r EXCEPT !.user = cookie[b], !.stage = "second", !.out = r.out]
  BY <1>4 DEF Requests
<1>6. RequestsOK'
  BY <1>2, <1>4, <1>5, PutSecondOK DEF WebLogout
<1>7. QED
  BY <1>1, <1>3, <1>6 DEF SessionInv

\* An answer arrives: the cookie, and the page it was for or a load after it.
LEMMA AnswerArrives ==
    ASSUME SessionInv, NEW b \in Browsers, NEW s \in Slots, Receive(b, s)
    PROVE  SessionInv'
<1> DEFINE r == req[b][s]
           c == IF r.out = Keep THEN cookie[b] ELSE r.out
<1>1. ServiceOK' /\ ClockOK' /\ clicks' \in 0..MaxClicks
  BY Stays DEF SessionInv, Receive
<1>2. /\ r # Idle /\ Whole(r.user)
      /\ r.out \in MaybeUser \cup {Keep} /\ OneAccount(r.out)
  BY WaitingOK DEF Receive, SessionInv
<1>3. Whole(c)
  BY <1>2 DEF SessionInv, HeldOK, Whole
<1>4. /\ cookie' = [cookie EXCEPT ![b] = c]
      /\ \/ page' = [page EXCEPT ![b] = r.user] /\ Put(b, s, Idle)
         \/ Put(b, s, Sent("load", c, None)) /\ UNCHANGED page
  BY DEF Receive
<1> HIDE DEF r, c
<1>5. HeldOK'
  BY <1>2, <1>3, <1>4 DEF SessionInv, HeldOK, Whole, OneAccount
<1>6. RequestOK(Idle) /\ RequestOK(Sent("load", c, None))
  BY <1>3, SentOK DEF RequestOK, Kinds
<1>7. RequestsOK'
  BY <1>4, <1>6, PutOK DEF SessionInv
<1>8. QED
  BY <1>1, <1>5, <1>7 DEF SessionInv

LEMMA SessionStep == SessionInv /\ [Next]_vars => SessionInv'
<1> SUFFICES ASSUME SessionInv, [Next]_vars PROVE SessionInv'
  OBVIOUS
<1>1. CASE UNCHANGED vars
  BY <1>1, Stays DEF vars, SessionInv
<1>2. CASE Tick \/ End
  BY <1>2, TimePasses
<1>3. ASSUME NEW a \in Accounts, (\E n \in Names : Rename(a, n)) \/ Rotate(a)
      PROVE  SessionInv'
  BY <1>3, OthersRename
<1>4. ASSUME NEW b \in Browsers, SendRefresh(b) \/ User(b)
      PROVE  SessionInv'
  BY <1>4, PagesSend, LinkSends, LogoutSends DEF User
<1>5. ASSUME NEW b \in Browsers, NEW s \in Slots, Serve(b, s)
      PROVE  SessionInv'
  BY <1>5, WebAnswers, WebLogsIn, WebRegisters, WebSaves, WebLogsOut, AnswerArrives
     DEF Serve, Nav
<1>6. QED
  BY <1>1, <1>2, <1>3, <1>4, <1>5 DEF Next

-----------------------------------------------------------------------------
\* The sockets: what a step does to a connection.

\* One connection changes, and the hub and the senders do not.
LEMMA OneConnection ==
    ASSUME SocketsInv, NEW c \in Connections, NEW r \in Conns, Because(c, r), S!Set(c, r),
           UNCHANGED <<hubOf, listed, hub, push>>, panicked' = FALSE
    PROVE  SocketsInv'
<1>1. conn' = [conn EXCEPT ![c] = r]
  BY DEF S!Set
<1>2. SocketsOK'
  BY <1>1 DEF SocketsInv, SocketsOK
<1>3. ASSUME NEW d \in Connections
      PROVE  Because(d, conn'[d])
  BY <1>1 DEF SocketsInv, SocketsOK, AllBecause
<1>4. AllBecause'
  BY <1>3 DEF AllBecause, Because
<1>5. QED
  BY <1>2, <1>4 DEF SocketsInv

\* What the invariant needs to know of the new record: as open as before, as
\* far as before, and nobody is past the lock who was not.
Alike(r, q) ==
    /\ r \in Conns
    /\ r.handler = q.handler /\ r.register = q.register /\ r.send = q.send
    /\ hubOf = "chat" /\ r.waiting > 0 => q.waiting > 0 \/ q.send = "open"

LEMMA AlikeBecause ==
    ASSUME SocketsInv, NEW c \in Connections, NEW r, Alike(r, conn[c])
    PROVE  Because(c, r)
  BY DEF SocketsInv, AllBecause, Because, Alike

\* The counters of a connection, one more and one less.
LEMMA Counting ==
    ASSUME NEW q \in Conns
    PROVE  /\ q.buffer + 1 \in Nat /\ (q.buffer > 0 => q.buffer - 1 \in Nat)
           /\ q.unregister + 1 \in Nat /\ (q.unregister > 0 => q.unregister - 1 \in Nat)
           /\ q.leaving + 1 \in Nat /\ (q.leaving > 0 => q.leaving - 1 \in Nat)
           /\ q.spawned + 1 \in Nat /\ (q.spawned > 0 => q.spawned - 1 \in Nat)
           /\ q.waiting + 1 \in Nat /\ (q.waiting > 0 => q.waiting - 1 \in Nat)
  BY DEF Conns

\* The changes of a record that leave it alike.
LEMMA Changes ==
    ASSUME NEW q \in Conns, NEW m \in Nat, NEW n \in Nat
    PROVE  /\ Alike([q EXCEPT !.link = "down"], q)
           /\ Alike([q EXCEPT !.reader = FALSE, !.leaving = m], q)
           /\ Alike([q EXCEPT !.writer = FALSE, !.leaving = m], q)
           /\ Alike([q EXCEPT !.buffer = m], q)
           /\ Alike([q EXCEPT !.buffer = n, !.writer = FALSE, !.leaving = m], q)
           /\ Alike([q EXCEPT !.leaving = m], q)
           /\ Alike([q EXCEPT !.unregister = m], q)
           /\ Alike([q EXCEPT !.leaving = n, !.unregister = m], q)
           /\ Alike([q EXCEPT !.spawned = n, !.leaving = m], q)
           /\ q.send = "open" => Alike([q EXCEPT !.spawned = n, !.waiting = m], q)
           /\ q.waiting > 0 => Alike([q EXCEPT !.waiting = n], q)
<1>1. Alike([q EXCEPT !.link = "down"], q)
  BY DEF Conns, Alike
<1>2. Alike([q EXCEPT !.reader = FALSE, !.leaving = m], q)
  BY DEF Conns, Alike
<1>3. Alike([q EXCEPT !.writer = FALSE, !.leaving = m], q)
  BY DEF Conns, Alike
<1>4. Alike([q EXCEPT !.buffer = m], q)
  BY DEF Conns, Alike
<1>5. Alike([q EXCEPT !.buffer = n, !.writer = FALSE, !.leaving = m], q)
  BY DEF Conns, Alike
<1>6. Alike([q EXCEPT !.leaving = m], q)
  BY DEF Conns, Alike
<1>7. Alike([q EXCEPT !.unregister = m], q)
  BY DEF Conns, Alike
<1>8. Alike([q EXCEPT !.leaving = n, !.unregister = m], q)
  BY DEF Conns, Alike
<1>9. Alike([q EXCEPT !.spawned = n, !.leaving = m], q)
  BY DEF Conns, Alike
<1>10. q.send = "open" => Alike([q EXCEPT !.spawned = n, !.waiting = m], q)
  BY DEF Conns, Alike
<1>11. q.waiting > 0 => Alike([q EXCEPT !.waiting = n], q)
  BY DEF Conns, Alike
<1>12. QED
  BY <1>1, <1>2, <1>3, <1>4, <1>5, <1>6, <1>7, <1>8, <1>9, <1>10, <1>11

\* Alike is alike in two steps as well.
LEMMA AlikeTwice ==
    ASSUME NEW q, NEW r, NEW t, Alike(r, q), Alike(t, r)
    PROVE  Alike(t, q)
  BY DEF Alike

LEMMA SpawnAlike ==
    ASSUME NEW q \in Conns
    PROVE  Alike(S!Spawn(q), q)
<1> DEFINE r == [q EXCEPT !.spawned = @ + 1]
           w == [q EXCEPT !.waiting = @ + 1]
<1>1. /\ r \in Conns /\ r.handler = q.handler /\ r.register = q.register /\ r.send = q.send
      /\ r.waiting = q.waiting
  BY DEF Conns
<1>2. w \in Conns /\ w.handler = q.handler /\ w.register = q.register /\ w.send = q.send
  BY DEF Conns
<1>3. S!Spawn(q) = IF hubOf = "chat" THEN r ELSE w
  BY DEF S!Spawn
<1> HIDE DEF r, w
<1>4. QED
  BY <1>1, <1>2, <1>3 DEF Alike

-----------------------------------------------------------------------------
\* The sockets: every step.

LEMMA SocketsInit == S!Init => SocketsInv
<1> SUFFICES ASSUME S!Init PROVE SocketsInv
  OBVIOUS
<1>1. SocketsOK
  BY DEF S!Init, S!Idle, S!Services, S!Unused, S!Nobody, SocketsOK, Conns, Pushers
<1>2. AllBecause
  BY ConnectionsAssumption DEF S!Init, S!Idle, S!Unused, S!Nobody, AllBecause, Because
<1>3. QED
  BY <1>1, <1>2 DEF S!Init, S!Idle, SocketsInv

\* A connection is opened and its handler ends.
LEMMA Opens ==
    ASSUME SocketsInv, NEW c \in Connections,
           S!Upgrade(c) \/ S!RegisterConn(c) \/ S!Second(c)
    PROVE  SocketsInv'
<1> DEFINE q == conn[c]
<1>1. q \in Conns /\ Because(c, q) /\ panicked = FALSE
  BY DEF SocketsInv, SocketsOK, AllBecause
<1>2. CASE S!Upgrade(c)
  <2> DEFINE r == [S!Unused EXCEPT !.link = "up", !.handler = "register",
                     !.reader = hubOf # "notification", !.writer = hubOf # "notification"]
  <2>1. /\ r \in Conns /\ r.handler = "register" /\ r.register = FALSE /\ r.send = "open"
        /\ r.waiting = 0
    BY DEF S!Unused, Conns
  <2>2. q.handler = "none" /\ S!Set(c, r) /\ UNCHANGED <<hubOf, listed, hub, push, panicked>>
    BY <1>2 DEF S!Upgrade
  <2> HIDE DEF r
  <2>3. Because(c, r)
    BY <1>1, <2>1, <2>2 DEF Because
  <2>4. QED
    BY <1>1, <2>1, <2>2, <2>3, OneConnection
<1>3. CASE S!RegisterConn(c)
  <2>1. PICK h \in {"second", "done"} : S!Set(c, [q EXCEPT !.register = TRUE, !.handler = h])
    BY <1>3 DEF S!RegisterConn
  <2> DEFINE r == [q EXCEPT !.register = TRUE, !.handler = h]
  <2>2. /\ r \in Conns /\ r.handler = h /\ r.send = q.send /\ r.waiting = q.waiting
    BY <1>1 DEF Conns
  <2>3. q.handler = "register" /\ UNCHANGED <<hubOf, listed, hub, push, panicked>>
    BY <1>3 DEF S!RegisterConn
  <2> HIDE DEF r
  <2>4. Because(c, r)
    BY <1>1, <2>2, <2>3 DEF Because
  <2>5. S!Set(c, r)
    BY <2>1 DEF r
  <2>6. QED
    BY <1>1, <2>2, <2>3, <2>4, <2>5, OneConnection
<1>4. CASE S!Second(c)
  <2>1. PICK r :
            /\ S!Set(c, r)
            /\ \/ r = [q EXCEPT !.handler = "done", !.reader = TRUE, !.writer = TRUE]
               \/ /\ hubOf # "chat"
                  /\ \E n \in {q.waiting + 0, q.waiting + 1} :
                        r = [q EXCEPT !.handler = "done", !.waiting = n]
    BY <1>4 DEF S!Second
  <2>2. q.handler = "second" /\ UNCHANGED <<hubOf, listed, hub, push, panicked>>
    BY <1>4 DEF S!Second
  <2>3. /\ r \in Conns /\ r.handler = "done" /\ r.register = q.register
        /\ r.send = q.send /\ (hubOf = "chat" => r.waiting = q.waiting)
    <3>1. CASE r = [q EXCEPT !.handler = "done", !.reader = TRUE, !.writer = TRUE]
      BY <1>1, <3>1 DEF Conns
    <3>2. ASSUME hubOf # "chat", NEW n \in Nat, r = [q EXCEPT !.handler = "done", !.waiting = n]
          PROVE  /\ r \in Conns /\ r.handler = "done" /\ r.register = q.register
                 /\ r.send = q.send
      BY <1>1, <3>2 DEF Conns
    <3>3. q.waiting + 0 \in Nat /\ q.waiting + 1 \in Nat
      BY <1>1 DEF Conns
    <3>4. QED
      BY <2>1, <3>1, <3>2, <3>3
  <2>4. Because(c, r)
    BY <1>1, <2>2, <2>3, SMTT(30) DEF Because
  <2>5. QED
    BY <1>1, <2>1, <2>2, <2>3, <2>4, OneConnection
<1>5. QED
  BY <1>2, <1>3, <1>4

\* The link, the reader, the writer, and who unregisters.
LEMMA Tunnels ==
    ASSUME SocketsInv, NEW c \in Connections,
           \/ S!Lose(c) \/ S!ReadFails(c) \/ S!Write(c) \/ S!WriteFails(c) \/ S!WriterEnds(c)
           \/ S!Unregister(c)
    PROVE  SocketsInv'
<1> DEFINE q == conn[c]
<1>1. q \in Conns /\ panicked = FALSE /\ UNCHANGED <<hubOf, listed, hub, push, panicked>>
  BY DEF SocketsInv, SocketsOK, S!Lose, S!ReadFails, S!Write, S!WriteFails, S!WriterEnds,
         S!Unregister
<1>2. SUFFICES \E r : S!Set(c, r) /\ Alike(r, q)
  BY <1>1, AlikeBecause, OneConnection DEF Alike
<1>3. PICK b, l, f, u :
          /\ b = q.buffer - 1 /\ l = q.leaving + 1 /\ f = q.leaving - 1
          /\ u = q.unregister + 1
  OBVIOUS
<1>4. /\ l \in Nat /\ u \in Nat /\ (q.buffer > 0 => b \in Nat) /\ (q.leaving > 0 => f \in Nat)
  BY <1>1, <1>3, Counting
<1>5. \/ S!Set(c, [q EXCEPT !.link = "down"])
      \/ S!Set(c, [q EXCEPT !.reader = FALSE, !.leaving = l])
      \/ S!Set(c, [q EXCEPT !.writer = FALSE, !.leaving = l])
      \/ q.buffer > 0 /\ S!Set(c, [q EXCEPT !.buffer = b])
      \/ q.buffer > 0 /\ S!Set(c, [q EXCEPT !.buffer = b, !.writer = FALSE, !.leaving = l])
      \/ q.leaving > 0 /\ S!Set(c, [q EXCEPT !.leaving = f, !.unregister = u])
  BY <1>3, SMTT(30) DEF S!Lose, S!ReadFails, S!Write, S!WriteFails, S!WriterEnds, S!Unregister
<1> HIDE DEF q
<1>6. QED
  BY <1>1, <1>4, <1>5, Changes, ZenonT(30)

\* A goroutine that sends: past the lock if the channel is open, and then it
\* stays open, so that it can only panic where somebody recovers.
LEMMA Enters ==
    ASSUME SocketsInv, NEW c \in Connections, S!Enter(c)
    PROVE  SocketsInv'
<1> DEFINE q == conn[c]
<1>1. q \in Conns /\ panicked = FALSE /\ UNCHANGED <<hubOf, listed, hub, push, panicked>>
  BY DEF SocketsInv, SocketsOK, S!Enter
<1>2. SUFFICES \E r : S!Set(c, r) /\ Alike(r, q)
  BY <1>1, AlikeBecause, OneConnection DEF Alike
<1>3. PICK n, l, w : n = q.spawned - 1 /\ l = q.leaving + 1 /\ w = q.waiting + 1
  OBVIOUS
<1>4. n \in Nat /\ l \in Nat /\ w \in Nat /\ q.send \in {"open", "closed"}
  BY <1>1, <1>3, Counting DEF S!Enter, Conns
<1>5. S!Set(c, IF q.send = "closed" THEN [q EXCEPT !.spawned = n, !.leaving = l]
                                    ELSE [q EXCEPT !.spawned = n, !.waiting = w])
  BY <1>3 DEF S!Enter
<1> HIDE DEF q
<1>6. QED
  BY <1>1, <1>4, <1>5, Changes, ZenonT(30)

LEMMA Sends ==
    ASSUME SocketsInv, NEW c \in Connections, S!SendToClient(c)
    PROVE  SocketsInv'
<1> DEFINE q == conn[c]
<1>1. /\ q \in Conns /\ Because(c, q) /\ panicked = FALSE /\ q.waiting > 0
      /\ UNCHANGED <<hubOf, listed, hub, push>>
  BY DEF SocketsInv, SocketsOK, AllBecause, S!SendToClient
<1>2. panicked' = FALSE
  <2>1. CASE q.send = "closed"
    <3>1. hubOf # "chat"
      BY <1>1, <2>1 DEF Because
    <3>2. panicked' = panicked \/ panicked' = (panicked \/ hubOf = "chat")
      BY DEF S!SendToClient
    <3>3. QED
      BY <1>1, <3>1, <3>2
  <2>2. CASE q.send # "closed"
    BY <1>1, <2>2 DEF S!SendToClient
  <2>3. QED
    BY <2>1, <2>2
<1>3. SUFFICES \E r : S!Set(c, r) /\ Alike(r, q)
  BY <1>1, <1>2, AlikeBecause, OneConnection DEF Alike
<1>4. PICK n : n = q.waiting - 1
  OBVIOUS
<1>5. n \in Nat
  BY <1>1, <1>4, Counting
<1>6. PICK w : w = [q EXCEPT !.waiting = n]
  OBVIOUS
<1>7. \/ S!Set(c, [w EXCEPT !.buffer = @ + 1])
      \/ S!Set(c, [w EXCEPT !.leaving = @ + 1])
  BY <1>4, <1>6 DEF S!SendToClient, S!Put
<1> HIDE DEF q
<1>8. Alike(w, q) /\ w \in Conns
  BY <1>1, <1>5, <1>6, Changes, ZenonT(30) DEF Alike
<1>9. Alike([w EXCEPT !.buffer = w.buffer + 1], w) /\ Alike([w EXCEPT !.leaving = w.leaving + 1], w)
  BY <1>8, Changes, Counting, ZenonT(30)
<1>10. QED
  BY <1>7, <1>8, <1>9, AlikeTwice

\* Somebody who sends to one after the other: the listener, a reader, the hub.
\* Nobody puts the hub to a lock by that.
LEMMA PushStep ==
    ASSUME SocketsInv, NEW p \in Pushers, push' = p,
           \A c \in p.at : c \in push.at \/ (hubOf = "chat" => conn[c].send = "open"),
           hub' = hub \/ hub' \in {"select", "sending"},
           UNCHANGED <<hubOf, conn, listed, panicked>>
    PROVE  SocketsInv'
<1>1. SocketsOK'
  BY DEF SocketsInv, SocketsOK
<1>2. ASSUME NEW c \in Connections
      PROVE  Because(c, conn[c])'
  BY ConnectionsAssumption DEF SocketsInv, SocketsOK, AllBecause, Because
<1>3. QED
  BY <1>1, <1>2 DEF SocketsInv, AllBecause

LEMMA Pushes ==
    ASSUME SocketsInv,
           \/ S!Listener \/ S!RefuseEvent \/ S!PushEnds
           \/ \E c \in Connections : S!ReaderSendsError(c) \/ S!PushTo(c)
    PROVE  SocketsInv'
<1>1. SocketsOK
  BY DEF SocketsInv
<1>2. CASE S!Listener \/ S!RefuseEvent \/ (\E c \in Connections : S!ReaderSendsError(c))
  <2>1. PICK who \in {"listener", "reader", "hub"} :
            push' = [by |-> who, left |-> listed, at |-> {}]
    BY <1>2 DEF S!Listener, S!RefuseEvent, S!ReaderSendsError
  <2>2. [by |-> who, left |-> listed, at |-> {}] \in Pushers
    BY <1>1 DEF SocketsOK, Pushers
  <2>3. QED
    BY <1>2, <2>1, <2>2, PushStep DEF S!Listener, S!RefuseEvent, S!ReaderSendsError
<1>3. CASE S!PushEnds
  <2>1. S!Nobody \in Pushers
    BY DEF S!Nobody, Pushers
  <2>2. QED
    BY <1>3, <2>1, PushStep DEF S!PushEnds, S!Nobody
<1>4. ASSUME NEW c \in Connections, S!PushTo(c)
      PROVE  SocketsInv'
  <2>1. PICK to \in {{}, {c}} :
            /\ hubOf = "chat" => (to = {} <=> conn[c].send = "closed")
            /\ push' = [push EXCEPT !.left = @ \ {c}, !.at = to]
    BY <1>4 DEF S!PushTo
  <2>2. PICK p : p = [push EXCEPT !.left = @ \ {c}, !.at = to]
    OBVIOUS
  <2>3. p \in Pushers /\ p.at = to
    BY <1>1, <2>2 DEF SocketsOK, Pushers
  <2>4. conn[c].send \in {"open", "closed"}
    BY <1>1 DEF SocketsOK, Conns
  <2>5. QED
    BY <1>4, <2>1, <2>2, <2>3, <2>4, PushStep DEF S!PushTo
<1>5. QED
  BY <1>2, <1>3, <1>4

\* It sends: as a goroutine would, with the lock of the connection it is at.
LEMMA PushSends ==
    ASSUME SocketsInv, NEW c \in Connections, S!PushSends(c)
    PROVE  SocketsInv'
<1> DEFINE q == conn[c]
<1>1. /\ q \in Conns /\ Because(c, q) /\ panicked = FALSE /\ push.at = {c} /\ push \in Pushers
      /\ push' = [push EXCEPT !.at = {}]
      /\ UNCHANGED <<hubOf, listed, hub>>
  BY DEF SocketsInv, SocketsOK, AllBecause, S!PushSends
<1>2. panicked' = FALSE
  <2>1. CASE q.send = "closed"
    <3>1. hubOf # "chat"
      BY <1>1, <2>1 DEF Because
    <3>2. panicked' = panicked \/ panicked' = (panicked \/ hubOf = "chat")
      BY DEF S!PushSends
    <3>3. QED
      BY <1>1, <3>1, <3>2
  <2>2. CASE q.send # "closed"
    BY <1>1, <2>2 DEF S!PushSends
  <2>3. QED
    BY <2>1, <2>2
<1>3. PICK r : conn' = [conn EXCEPT ![c] = r] /\ Alike(r, q)
  <2>1. Alike(q, q) /\ conn = [conn EXCEPT ![c] = q]
    BY <1>1 DEF Alike, SocketsInv, SocketsOK
  <2>2. Alike([q EXCEPT !.buffer = q.buffer + 1], q) /\ Alike([q EXCEPT !.leaving = q.leaving + 1], q)
    BY <1>1, Changes, Counting, ZenonT(30)
  <2>3. \/ S!Set(c, [q EXCEPT !.buffer = q.buffer + 1])
        \/ S!Set(c, [q EXCEPT !.leaving = q.leaving + 1])
        \/ UNCHANGED conn
    BY DEF S!PushSends, S!Put
  <2>4. QED
    BY <2>1, <2>2, <2>3 DEF S!Set
<1>4. push' \in Pushers /\ push'.at = {}
  BY <1>1 DEF Pushers
<1>5. SocketsOK'
  BY <1>1, <1>3, <1>4 DEF SocketsInv, SocketsOK, Alike
<1>6. ASSUME NEW d \in Connections
      PROVE  Because(d, conn[d])'
  <2>1. Because(d, conn'[d])
    BY <1>3, AlikeBecause DEF SocketsInv, SocketsOK, AllBecause
  <2>2. QED
    BY <1>1, <1>4, <2>1 DEF Because
<1>7. QED
  BY <1>2, <1>5, <1>6 DEF SocketsInv, AllBecause

\* A step of the hub: what it says of each connection is what it has to show.
LEMMA HubStep ==
    ASSUME SocketsInv, NEW f, conn' = [d \in Connections |-> f[d]],
           \A d \in Connections : f[d] \in Conns,
           listed' \subseteq Connections, hub' \in Connections \cup {"select", "sending"},
           push' = push \/ push' = S!Nobody, UNCHANGED hubOf, panicked' = FALSE,
           \A d \in Connections : Because(d, conn[d])'
    PROVE  SocketsInv'
<1>1. conn' \in [Connections -> Conns]
  OBVIOUS
<1>2. S!Nobody \in Pushers
  BY DEF S!Nobody, Pushers
<1>3. SocketsOK'
  BY <1>1, <1>2 DEF SocketsInv, SocketsOK
<1>4. QED
  BY <1>3 DEF SocketsInv, AllBecause

\* The others, whom the event may be spawned for.
Others(f, c, told) ==
    \A d \in Connections \ {c} : f[d] = IF d \in told THEN S!Spawn(conn[d]) ELSE conn[d]

LEMMA OthersAlike ==
    ASSUME SocketsInv, NEW f, NEW c, NEW told, Others(f, c, told)
    PROVE  \A d \in Connections \ {c} : Alike(f[d], conn[d])
<1>1. TAKE d \in Connections \ {c}
<1>2. conn[d] \in Conns
  BY DEF SocketsInv, SocketsOK
<1>3. Alike(conn[d], conn[d]) /\ Alike(S!Spawn(conn[d]), conn[d])
  BY <1>2, SpawnAlike DEF Alike
<1>4. QED
  BY <1>3 DEF Others

LEMMA Joins ==
    ASSUME SocketsInv, NEW c \in Connections, S!HandleJoin(c)
    PROVE  SocketsInv'
<1>1. /\ SocketsOK /\ AllBecause /\ panicked' = FALSE /\ hub = "select"
      /\ conn[c].register /\ listed' = listed \cup {c} /\ UNCHANGED <<hubOf, hub, push>>
  BY DEF SocketsInv, S!HandleJoin
<1>2. PICK told :
          conn' = [d \in Connections |->
                     LET r == IF d \in told THEN S!Spawn(conn[d]) ELSE conn[d]
                     IN IF d = c THEN [r EXCEPT !.register = FALSE] ELSE r]
  BY DEF S!HandleJoin
<1>3. PICK q : q = (IF c \in told THEN S!Spawn(conn[c]) ELSE conn[c])
  OBVIOUS
<1>4. conn[c] \in Conns /\ Because(c, conn[c])
  BY <1>1 DEF SocketsOK, AllBecause
<1>5. Alike(q, conn[c])
  BY <1>3, <1>4, SpawnAlike DEF Alike
<1>6. PICK f : f = conn'
  OBVIOUS
<1>7. f[c] = [q EXCEPT !.register = FALSE] /\ Others(f, c, told)
  BY <1>2, <1>3, <1>6 DEF Others
<1>8. /\ f[c] \in Conns /\ f[c].handler = q.handler /\ f[c].register = FALSE
      /\ f[c].send = q.send /\ f[c].waiting = q.waiting
  BY <1>5, <1>7 DEF Alike, Conns
<1>9. ASSUME NEW d \in Connections
      PROVE  f[d] \in Conns /\ Because(d, conn[d])'
  <2>1. CASE d = c
    <3>1. conn[c].send = "open" /\ conn[c].handler \notin {"none", "register"}
      BY <1>1, <1>4 DEF Because
    <3>2. f[c].send = "open" /\ f[c].handler \notin {"none", "register"} /\ hub # c
      BY <1>1, <1>5, <1>8, <3>1, ConnectionsAssumption DEF Alike
    <3>3. QED
      BY <1>1, <1>6, <1>8, <2>1, <3>2 DEF Because
  <2>2. CASE d # c
    <3>1. Alike(f[d], conn[d]) /\ Because(d, conn[d])
      BY <1>1, <1>7, <2>2, OthersAlike DEF AllBecause
    <3>2. Because(d, f[d])
      BY <3>1, AlikeBecause
    <3>3. QED
      BY <1>1, <1>6, <2>2, <3>1, <3>2 DEF Because, Alike
  <2>3. QED
    BY <2>1, <2>2
<1>10. conn' = [d \in Connections |-> f[d]]
  BY <1>2, <1>6
<1>11. QED
  BY <1>1, <1>9, <1>10, HubStep DEF SocketsOK

\* A connection that is listed is taken out: the channel is open until the hub
\* closes it, at once or at the lock.
LEMMA Unjoins ==
    ASSUME SocketsInv, NEW c \in Connections, S!HandleUnjoin(c)
    PROVE  SocketsInv'
<1>1. /\ SocketsOK /\ AllBecause /\ panicked = FALSE /\ hub = "select"
      /\ conn[c].unregister > 0 /\ listed' = listed \ {c} /\ UNCHANGED <<hubOf, push>>
      /\ conn[c] \in Conns /\ Because(c, conn[c]) /\ hub # c
  BY ConnectionsAssumption DEF SocketsInv, SocketsOK, AllBecause, S!HandleUnjoin
<1>2. PICK n : n = conn[c].unregister - 1
  OBVIOUS
<1>3. n \in Nat
  BY <1>1, <1>2, Counting
<1>4. PICK q : q = [conn[c] EXCEPT !.unregister = n]
  BY ZenonT(30)
<1>5. Alike(q, conn[c])
  BY <1>1, <1>3, <1>4, Changes, ZenonT(30)
<1>6. \/ S!Set(c, q) /\ c \notin listed /\ hub' = hub /\ panicked' = panicked
      \/ S!Set(c, q) /\ c \in listed /\ hub' = c /\ panicked' = panicked
      \/ /\ S!Set(c, S!Closed(q)) /\ c \in listed /\ hubOf # "chat" /\ hub' = hub
         /\ panicked' = (panicked \/ conn[c].send = "closed")
  BY <1>2, <1>4 DEF S!HandleUnjoin
<1>7. c \in listed => /\ conn[c].send = "open" /\ ~conn[c].register
                      /\ conn[c].handler \notin {"none", "register"}
  BY <1>1 DEF Because
<1>8. panicked' = FALSE
  <2>1. CASE panicked' = panicked
    BY <1>1, <2>1
  <2>2. CASE c \in listed /\ panicked' = (panicked \/ conn[c].send = "closed")
    <3>1. conn[c].send # "closed"
      BY <1>7, <2>2
    <3>2. QED
      BY <1>1, <2>2, <3>1
  <2>3. QED
    BY <1>6, <2>1, <2>2
<1>9. PICK f : f = conn'
  OBVIOUS
<1>10. /\ S!Closed(q) \in Conns /\ S!Closed(q).handler = q.handler
       /\ S!Closed(q).register = q.register /\ S!Closed(q).send = "closed"
  BY <1>5 DEF Alike, S!Closed, Conns
<1>11. ASSUME NEW d \in Connections
       PROVE  f[d] \in Conns /\ Because(d, conn[d])'
  <2>1. CASE d = c
    <3>1. c \notin listed'
      BY <1>1
    <3>2. CASE f[c] = q
      <4>1. Because(c, q)
        BY <1>5, AlikeBecause
      <4>2. QED
        BY <1>1, <1>5, <1>6, <1>7, <1>9, <2>1, <3>1, <3>2, <4>1 DEF Because, Alike
    <3>3. CASE f[c] = S!Closed(q) /\ c \in listed /\ hubOf # "chat" /\ hub' = hub
      BY <1>1, <1>5, <1>7, <1>9, <1>10, <2>1, <3>1, <3>3 DEF Because, Alike
    <3>4. f[c] = q \/ (f[c] = S!Closed(q) /\ c \in listed /\ hubOf # "chat" /\ hub' = hub)
      BY <1>1, <1>6, <1>9 DEF S!Set, SocketsOK
    <3>5. QED
      BY <3>2, <3>3, <3>4
  <2>2. CASE d # c
    <3>1. f[d] = conn[d]
      BY <1>1, <1>6, <1>9, <2>2 DEF S!Set, SocketsOK
    <3>2. f[d] \in Conns /\ Because(d, conn[d])
      BY <1>1, <3>1 DEF SocketsOK, AllBecause
    <3>3. hub' # d
      BY <1>1, <1>6, <2>2, ConnectionsAssumption
    <3>4. QED
      BY <1>1, <1>9, <2>2, <3>1, <3>2, <3>3 DEF Because
  <2>3. QED
    BY <2>1, <2>2
<1>12. conn' = [d \in Connections |-> f[d]]
  BY <1>1, <1>6, <1>9 DEF S!Set, SocketsOK
<1>13. hub' \in Connections \cup {"select", "sending"}
  BY <1>1, <1>6
<1>14. QED
  BY <1>1, <1>8, <1>11, <1>12, <1>13, HubStep DEF SocketsOK

\* At the lock: nobody is past it any more.
LEMMA Closes ==
    ASSUME SocketsInv, NEW c \in Connections, S!SafeClose(c)
    PROVE  SocketsInv'
<1>1. /\ SocketsOK /\ AllBecause /\ panicked' = FALSE /\ hub = c /\ hub' = "select"
      /\ conn[c].waiting = 0 /\ c \notin push.at /\ UNCHANGED <<hubOf, listed, push>>
      /\ conn[c] \in Conns /\ Because(c, conn[c])
  BY DEF SocketsInv, SocketsOK, AllBecause, S!SafeClose
<1>2. PICK told :
          conn' = [d \in Connections |-> IF d = c THEN S!Closed(conn[d])
                                         ELSE IF d \in told THEN S!Spawn(conn[d]) ELSE conn[d]]
  BY DEF S!SafeClose
<1>3. PICK f : f = conn'
  OBVIOUS
<1>4. f[c] = S!Closed(conn[c]) /\ Others(f, c, told)
  BY <1>2, <1>3 DEF Others
<1>5. /\ f[c] \in Conns /\ f[c].handler = conn[c].handler
      /\ f[c].register = conn[c].register /\ f[c].waiting = 0
  BY <1>1, <1>4 DEF S!Closed, Conns
<1>6. ASSUME NEW d \in Connections
      PROVE  f[d] \in Conns /\ Because(d, conn[d])'
  <2>1. CASE d = c
    <3>1. conn[c].handler \notin {"none", "register"} /\ ~conn[c].register /\ c \notin listed
      BY <1>1 DEF Because
    <3>2. QED
      BY <1>1, <1>3, <1>5, <2>1, <3>1, ConnectionsAssumption DEF Because
  <2>2. CASE d # c
    <3>1. Alike(f[d], conn[d])
      BY <1>4, <2>2, OthersAlike
    <3>2. Because(d, f[d])
      BY <3>1, AlikeBecause
    <3>3. hub' # d
      BY <1>1, ConnectionsAssumption
    <3>4. QED
      BY <1>1, <1>3, <3>1, <3>2, <3>3 DEF Because, Alike
  <2>3. QED
    BY <2>1, <2>2
<1>7. conn' = [d \in Connections |-> f[d]]
  BY <1>2, <1>3
<1>8. QED
  BY <1>1, <1>6, <1>7, HubStep DEF SocketsOK

LEMMA Events ==
    ASSUME SocketsInv, S!HandleEvent
    PROVE  SocketsInv'
<1>1. /\ SocketsOK /\ AllBecause /\ panicked' = FALSE /\ UNCHANGED <<hubOf, listed, hub, push>>
  BY DEF SocketsInv, S!HandleEvent
<1>2. conn' = [d \in Connections |-> IF d \in listed THEN S!Spawn(conn[d]) ELSE conn[d]]
  BY DEF S!HandleEvent, S!Broadcast
<1>3. PICK f : f = conn'
  OBVIOUS
<1>4. Others(f, "select", listed)
  BY <1>2, <1>3 DEF Others
<1>5. ASSUME NEW d \in Connections
      PROVE  f[d] \in Conns /\ Because(d, conn[d])'
  <2>1. Alike(f[d], conn[d])
    BY <1>4, OthersAlike, ConnectionsAssumption
  <2>2. Because(d, f[d])
    BY <2>1, AlikeBecause
  <2>3. QED
    BY <1>1, <1>3, <2>1, <2>2 DEF Because, Alike
<1>6. conn' = [d \in Connections |-> f[d]]
  BY <1>2, <1>3
<1>7. QED
  BY <1>1, <1>5, <1>6, HubStep DEF SocketsOK

\* A service that starts again has nobody listed and nobody on the way.
LEMMA StartsAgain ==
    ASSUME SocketsInv, S!Race
    PROVE  SocketsInv'
<1>1. /\ SocketsOK /\ AllBecause /\ panicked' = FALSE /\ hub = "select"
      /\ listed' = {} /\ push' = S!Nobody /\ UNCHANGED <<hubOf, hub>>
      /\ conn' = [c \in Connections |-> IF conn[c].handler = "none" THEN conn[c] ELSE S!Gone]
  BY DEF SocketsInv, S!Race
<1>2. PICK f : f = conn'
  OBVIOUS
<1>3. /\ S!Gone \in Conns /\ S!Gone.handler = "done" /\ S!Gone.register = FALSE
      /\ S!Gone.waiting = 0
  BY DEF S!Gone, S!Unused, Conns
<1>4. ASSUME NEW d \in Connections
      PROVE  f[d] \in Conns /\ Because(d, conn[d])'
  <2>1. conn[d] \in Conns /\ Because(d, conn[d]) /\ hub # d
    BY <1>1, ConnectionsAssumption DEF SocketsOK, AllBecause
  <2>2. f[d] = IF conn[d].handler = "none" THEN conn[d] ELSE S!Gone
    BY <1>1, <1>2
  <2>3. d \notin push'.at
    BY <1>1 DEF S!Nobody
  <2>4. QED
    BY <1>1, <1>2, <1>3, <2>1, <2>2, <2>3 DEF Because
<1>5. conn' = [d \in Connections |-> f[d]]
  BY <1>1, <1>2
<1>6. QED
  BY <1>1, <1>4, <1>5, HubStep DEF SocketsOK

LEMMA SocketsStep == SocketsInv /\ [S!Next]_sockets => SocketsInv'
<1> SUFFICES ASSUME SocketsInv, [S!Next]_sockets PROVE SocketsInv'
  OBVIOUS
<1>1. CASE UNCHANGED sockets
  BY <1>1 DEF sockets, SocketsInv, SocketsOK, AllBecause, Because
<1>2. ASSUME NEW c \in Connections,
             \/ S!Upgrade(c) \/ S!Lose(c) \/ S!Write(c) \/ S!ReaderSendsError(c)
             \/ S!Tunnels(c) \/ S!Leaves(c) \/ S!Senders(c)
      PROVE  SocketsInv'
  BY <1>2, Opens, Tunnels, Pushes, Joins, Unjoins, Closes, Enters, Sends
     DEF S!Tunnels, S!Leaves, S!Senders
<1>3. CASE S!Pushes
  BY <1>3, Pushes, PushSends DEF S!Pushes
<1>4. CASE S!Listener \/ S!HandleEvent \/ S!RefuseEvent \/ S!Race
  BY <1>4, Pushes, Events, StartsAgain
<1>5. QED
  BY <1>1, <1>2, <1>3, <1>4 DEF S!Next

-----------------------------------------------------------------------------
\* The two together.

SignedInInv == SessionInv /\ SocketsInv

LEMMA SignedInInit == AllInit => SignedInInv
<1> SUFFICES ASSUME AllInit PROVE SignedInInv
  OBVIOUS
<1>1. Init
  BY DEF AllInit, NoSession
<1>2. S!Init
  BY DEF AllInit, NoSocket, S!Init, S!Services
<1>3. QED
  BY <1>1, <1>2, SessionInit, SocketsInit DEF SignedInInv

LEMMA SignedInStep == SignedInInv /\ [AllNext]_all => SignedInInv'
<1> SUFFICES ASSUME SignedInInv, [AllNext]_all PROVE SignedInInv'
  OBVIOUS
<1>1. [Next]_vars /\ [S!Next]_sockets
  BY DEF AllNext, all
<1>2. QED
  BY <1>1, SessionStep, SocketsStep DEF SignedInInv

LEMMA SignedInAlways == AllSpec => []SignedInInv
<1>1. QED
  BY SignedInInit, SignedInStep, PTL DEF AllSpec

\* Whatever the requests of a browser overtake, the tokens, cookies, pages and
\* requests are what Sessions says they are (session.ts, auth.ts, signin.tsx).
THEOREM SessionsKeepType == AllSpec => []TypeOK
<1>1. SignedInInv => TypeOK
  BY SessionSays DEF SignedInInv
<1>2. QED
  BY <1>1, SignedInAlways, PTL

\* For any number of accounts and browsers: a cookie, a page, or an answer
\* still under way never mixes the tokens of two accounts (refresh.tsx,
\* profile.tsx, signin.tsx, oauth.42.tsx).
THEOREM SessionsAreWhole == AllSpec => []OneAccountPerSession
<1>1. SignedInInv => OneAccountPerSession
  BY SessionSays DEF SignedInInv
<1>2. QED
  BY <1>1, SignedInAlways, PTL

\* For any number of connections, goroutines and room in the channels: no hub
\* closes a channel twice, and nobody in the chat sends on a closed one
\* (HandleUnjoin, SafeClose, SafeSend, SendToClient).
THEOREM HubsDoNotPanic == AllSpec => []NeverPanics
<1>1. SignedInInv => NeverPanics
  BY DEF SignedInInv, SocketsInv, NeverPanics, S!NeverPanics
<1>2. QED
  BY <1>1, SignedInAlways, PTL
=============================================================================
