------------------------- MODULE SessionsProperties -------------------------
EXTENDS Sessions

\* The two tokens of a session, and the account it says to be, are of one
\* account, in the cookie, in the page and in every cookie still under way:
\* every loader and action writes the whole user it read, never a part of the
\* cookie of the moment, so that a late answer can undo a change but cannot
\* mix two sessions (refresh.tsx, profile.tsx, signin.tsx).
OneAccount(u) == u \in SessionUsers => u.access.id = u.id /\ u.refresh.id = u.id
OneAccountPerSession ==
    \A b \in Browsers :
        /\ OneAccount(cookie[b]) /\ OneAccount(page[b])
        /\ \A s \in Slots : req[b][s] # Idle => OneAccount(req[b][s].user) /\ OneAccount(req[b][s].out)

\* A page that stays open is not left with an expired access token: the
\* interval of the dashboard layout brings a fresh one, or the end of the
\* session (dashboard.tsx, refresh.tsx).
PageTokenRenewed ==
    \A b \in Browsers :
        []<>(page[b] # None => ValidAccess(page[b].access))

\* A cookie whose refresh token has no row left does not keep the browser
\* signed in: neither a late answer that brings it back, nor an access token
\* that is still valid, saves it for good (refresh.tsx, signout.tsx, auth.ts).
DeadSessionEnds ==
    \A b \in Browsers :
        []<>(cookie[b] # None => cookie[b].refresh \in rows)

\* A session does not keep an access token with a name its account has left:
\* updateTokens signs the old name again, the refresh the name of the table
\* (profile.ts, auth.ts).
TokenNameCatchesUp ==
    \A b \in Browsers :
        []<>(cookie[b] # None => cookie[b].access.name = users[cookie[b].access.id])
=============================================================================
