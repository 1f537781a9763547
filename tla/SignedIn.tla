------------------------------- MODULE SignedIn -------------------------------
(***************************************************************************)
(* What a browser keeps while its user is signed in: the session, in its    *)
(* cookie and its pages (Sessions), and the sockets its pages open with the *)
(* access token of that session (Sockets).  A token is looked at when a     *)
(* socket is opened and never again, so after that the two have nothing to  *)
(* do with each other: "watched" says which of them this behaviour is.      *)
(***************************************************************************)
EXTENDS SessionsProperties

CONSTANTS Connections, ClientBuffer, RegisterBuffer, MaxSenders

\* A connection is not one of the other two things a hub's goroutine can do.
ASSUME ConnectionsAssumption == Connections \cap {"select", "sending"} = {}

VARIABLES watched, hubOf, conn, listed, hub, push, panicked

sockets == <<hubOf, conn, listed, hub, push, panicked>>
all     == <<watched, vars, sockets>>

S == INSTANCE Sockets WITH service <- hubOf

\* Nobody but the administrator is there, and nobody is signed in.
NoSession == Init /\ users = [a \in Accounts |-> IF a = Admin THEN AdminName ELSE None]
                  /\ linked = {}
NoSocket  == hubOf = "chat" /\ S!Idle

AllInit == \/ watched = "session" /\ Init /\ NoSocket
           \/ watched = "sockets" /\ NoSession /\ S!Init

AllNext == \/ watched = "session" /\ Next /\ UNCHANGED <<watched, sockets>>
           \/ watched = "sockets" /\ S!Next /\ UNCHANGED <<watched, vars>>

AllSpec == AllInit /\ [][AllNext]_all /\ Fairness /\ S!Fairness
-----------------------------------------------------------------------------
\* What the hubs of the sockets promise, as stated in Sockets: no panic ends a
\* service (chat, notification and event hubs, HandleUnjoin and SafeClose).
NeverPanics == S!NeverPanics
\* The hub always comes back to its channels (SafeSend, SafeClose, SendToClient).
HubReturns == S!HubReturns
\* A lost connection leaves nothing behind (HandleJoin, HandleUnjoin, the tunnels).
LostLeaves == S!LostLeaves
=============================================================================
