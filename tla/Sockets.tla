------------------------------- MODULE Sockets -------------------------------
(***************************************************************************)
(* The WebSocket hubs.  The chat, the notifications and the live            *)
(* scoreboard are three services built alike: one goroutine of the hub      *)
(* takes connections in, takes them out and broadcasts; each connection     *)
(* has a reader and a writer, and a channel "Send" between the hub and the  *)
(* writer; each event is put into that channel by a goroutine of its own.   *)
(*                                                                         *)
(* "service" says which of the three it is.  They differ in what comes      *)
(* first when a connection is opened, in what protects the channel when it  *)
(* is closed, and in who sends without the hub.  The connections are those  *)
(* of one room, one event or one user; an event is for all of them.         *)
(***************************************************************************)
EXTENDS Naturals, FiniteSets, Functions

CONSTANTS
    Connections,     \* the connections that are ever opened
    ClientBuffer,    \* room in the channel of a connection
    RegisterBuffer,  \* room in the channels to the hub
    MaxSenders       \* bound: goroutines that send to one connection

VARIABLES
    service,
    conn,      \* per connection: what its goroutines and channels are doing
    listed,    \* hub.Clients
    hub,       \* the hub's goroutine: "select", "sending", or what it closes
    push,      \* somebody who sends to one connection after the other
    panicked   \* a panic nobody recovered from

vars == <<service, conn, listed, hub, push, panicked>>

Services == {"notification", "chat", "scoreboard"}

Unused == [link |-> "none", handler |-> "none", send |-> "open", buffer |-> 0,
           reader |-> FALSE, writer |-> FALSE,
           register |-> FALSE, unregister |-> 0,  \* in the channels to the hub
           leaving |-> 0,                         \* goroutines about to unregister it
           spawned |-> 0, waiting |-> 0]          \* goroutines about to send to it

Nobody == [by |-> "nobody", left |-> {}, at |-> {}]

Idle ==
    /\ conn = [c \in Connections |-> Unused]
    /\ listed = {} /\ hub = "select" /\ push = Nobody /\ panicked = FALSE
Init == service \in Services /\ Idle

Set(c, r) == conn' = [conn EXCEPT ![c] = r]

-----------------------------------------------------------------------------
\* A connection.

\* The upgrade.  The chat and the scoreboard start the goroutines of the
\* connection before they register it.
Upgrade(c) ==
    /\ conn[c].handler = "none"
    /\ Set(c, [Unused EXCEPT !.link = "up", !.handler = "register",
                 !.reader = service # "notification", !.writer = service # "notification"])
    /\ UNCHANGED <<service, listed, hub, push, panicked>>

RegisterConn(c) ==
    /\ conn[c].handler = "register"
    /\ Cardinality({d \in Connections : conn[d].register}) < RegisterBuffer
    /\ Set(c, [conn[c] EXCEPT !.register = TRUE,
                 !.handler = IF service = "chat" THEN "done" ELSE "second"])
    /\ UNCHANGED <<service, listed, hub, push, panicked>>

\* Notifications: the goroutines start now.  Scoreboard: the handler sends the
\* scores of the moment itself, unless it fails to read them.
Second(c) ==
    /\ conn[c].handler = "second"
    /\ \/ /\ service = "notification"
          /\ Set(c, [conn[c] EXCEPT !.handler = "done", !.reader = TRUE, !.writer = TRUE])
       \/ /\ service = "scoreboard"
          /\ \E sent \in {0, 1} :
                Set(c, [conn[c] EXCEPT !.handler = "done", !.waiting = @ + sent])
    /\ UNCHANGED <<service, listed, hub, push, panicked>>

\* The page is closed, or the network fails.
Lose(c) ==
    /\ conn[c].link = "up"
    /\ Set(c, [conn[c] EXCEPT !.link = "down"])
    /\ UNCHANGED <<service, listed, hub, push, panicked>>

ReadFails(c) ==
    /\ conn[c].reader /\ conn[c].link = "down"
    /\ Set(c, [conn[c] EXCEPT !.reader = FALSE, !.leaving = @ + 1])
    /\ UNCHANGED <<service, listed, hub, push, panicked>>

\* A write to a peer that is gone may still succeed, until the service itself
\* has closed the connection.
Write(c) ==
    /\ conn[c].writer /\ conn[c].buffer > 0
    /\ conn[c].link = "up" \/ conn[c].send = "open"
    /\ Set(c, [conn[c] EXCEPT !.buffer = @ - 1])
    /\ UNCHANGED <<service, listed, hub, push, panicked>>

WriteFails(c) ==
    /\ conn[c].writer /\ conn[c].buffer > 0 /\ conn[c].link = "down"
    /\ Set(c, [conn[c] EXCEPT !.buffer = @ - 1, !.writer = FALSE, !.leaving = @ + 1])
    /\ UNCHANGED <<service, listed, hub, push, panicked>>

\* The range over a closed and empty channel ends.
WriterEnds(c) ==
    /\ conn[c].writer /\ conn[c].buffer = 0 /\ conn[c].send = "closed"
    /\ Set(c, [conn[c] EXCEPT !.writer = FALSE, !.leaving = @ + 1])
    /\ UNCHANGED <<service, listed, hub, push, panicked>>

\* Whoever found the connection broken puts it into the channel to the hub,
\* and waits while that is full.
Unregister(c) ==
    /\ conn[c].leaving > 0
    /\ SumFunction([d \in Connections |-> conn[d].unregister]) < RegisterBuffer
    /\ Set(c, [conn[c] EXCEPT !.leaving = @ - 1, !.unregister = @ + 1])
    /\ UNCHANGED <<service, listed, hub, push, panicked>>

-----------------------------------------------------------------------------
\* Sending.

\* The goroutines that will send one event to every connection in S.  In the
\* chat they first take the read lock of the connection (SafeSend).
Goroutines(c) == conn[c].spawned + conn[c].waiting + conn[c].leaving
MaySpawn(S) == \A c \in S : Goroutines(c) < MaxSenders
Spawn(r) == IF service = "chat" THEN [r EXCEPT !.spawned = @ + 1]
                                ELSE [r EXCEPT !.waiting = @ + 1]
Broadcast(S) == conn' = [c \in Connections |-> IF c \in S THEN Spawn(conn[c]) ELSE conn[c]]

\* SafeSend, as far as the read lock and the look at the flag.  A goroutine
\* that waits for the write lock keeps new readers out.
Enter(c) ==
    /\ conn[c].spawned > 0 /\ hub # c
    /\ Set(c, IF conn[c].send = "closed"
              THEN [conn[c] EXCEPT !.spawned = @ - 1, !.leaving = @ + 1]
              ELSE [conn[c] EXCEPT !.spawned = @ - 1, !.waiting = @ + 1])
    /\ UNCHANGED <<service, listed, hub, push, panicked>>

Full(c) == conn[c].send = "open" /\ conn[c].buffer = ClientBuffer
Room(c) == conn[c].send = "open" /\ conn[c].buffer < ClientBuffer

Put(c, r) == Set(c, [r EXCEPT !.buffer = @ + 1])

\* Mutant: a sender waits for room in the channel as long as it takes.
SendToClient_NoTimeout(c) ==
    /\ conn[c].waiting > 0
    /\ LET r == [conn[c] EXCEPT !.waiting = @ - 1]
       IN \/ Room(c) /\ Put(c, r) /\ UNCHANGED panicked
          \/ /\ conn[c].send = "closed"
             /\ Set(c, [r EXCEPT !.leaving = @ + 1])
             /\ panicked' = (panicked \/ service = "chat")
    /\ UNCHANGED <<service, listed, hub, push>>

\* Mutant: a connection that does not take its events stays in the hub.
SendToClient_NoUnregister(c) ==
    /\ conn[c].waiting > 0
    /\ LET r == [conn[c] EXCEPT !.waiting = @ - 1]
       IN \/ Room(c) /\ Put(c, r) /\ UNCHANGED panicked
          \/ Full(c) /\ Set(c, r) /\ UNCHANGED panicked
          \/ /\ conn[c].send = "closed"
             /\ Set(c, [r EXCEPT !.leaving = @ + 1])
             /\ panicked' = (panicked \/ service = "chat")
    /\ UNCHANGED <<service, listed, hub, push>>

\* The event is put into the channel, or BroadcastTimeout passes while it is
\* full, or the channel has been closed and the send panics.  The chat does not
\* recover from that.
SendToClient(c) ==
    /\ conn[c].waiting > 0
    /\ LET r == [conn[c] EXCEPT !.waiting = @ - 1]
       IN \/ Room(c) /\ Put(c, r) /\ UNCHANGED panicked
          \/ Full(c) /\ Set(c, [r EXCEPT !.leaving = @ + 1]) /\ UNCHANGED panicked
          \/ /\ conn[c].send = "closed"
             /\ Set(c, [r EXCEPT !.leaving = @ + 1])
             /\ panicked' = (panicked \/ service = "chat")
    /\ UNCHANGED <<service, listed, hub, push>>

\* One after the other: what PostgreSQL announces to the notification service,
\* and SendError of the chat, in a reader or in the goroutine of the hub.
Listener ==
    /\ service = "notification" /\ push = Nobody /\ listed # {}
    /\ push' = [by |-> "listener", left |-> listed, at |-> {}]
    /\ UNCHANGED <<service, conn, listed, hub, panicked>>

ReaderSendsError(c) ==
    /\ service = "chat" /\ push = Nobody /\ listed # {}
    /\ conn[c].reader /\ conn[c].link = "up"
    /\ hub \in {"select", "sending"}
    /\ push' = [by |-> "reader", left |-> listed, at |-> {}]
    /\ UNCHANGED <<service, conn, listed, hub, panicked>>

\* (Whom the hub takes out meanwhile, the listener may miss.)
PushTo(c) ==
    /\ c \in push.left /\ push.at = {} /\ hub # c
    /\ service = "chat" \/ Goroutines(c) < MaxSenders
    /\ \E to \in {{}, {c}} :
          /\ to = {} => c \notin listed
          /\ service = "chat" => (to = {} <=> conn[c].send = "closed")
          /\ push' = [push EXCEPT !.left = @ \ {c}, !.at = to]
    /\ UNCHANGED <<service, conn, listed, hub, panicked>>

\* SafeSend of SendError gives up after its 100 milliseconds and tells nobody.
PushSends(c) ==
    /\ push.at = {c}
    /\ push' = [push EXCEPT !.at = {}]
    /\ \/ Room(c) /\ Put(c, conn[c]) /\ UNCHANGED panicked
       \/ /\ Full(c)
          /\ IF service = "chat" THEN UNCHANGED conn
             ELSE Set(c, [conn[c] EXCEPT !.leaving = @ + 1])
          /\ UNCHANGED panicked
       \/ /\ conn[c].send = "closed"
          /\ Set(c, [conn[c] EXCEPT !.leaving = @ + 1])
          /\ panicked' = (panicked \/ service = "chat")
    /\ UNCHANGED <<service, listed, hub>>

PushEnds ==
    /\ push # Nobody /\ push.left = {} /\ push.at = {}
    /\ push' = Nobody
    /\ hub' = IF push.by = "hub" THEN "select" ELSE hub
    /\ UNCHANGED <<service, conn, listed, panicked>>

-----------------------------------------------------------------------------
\* The goroutine of the hub.  The chat stores what it broadcasts; when that
\* fails, nothing is sent but an error to its author.

\* HandleJoin, HandleJoinEvent
HandleJoin(c) ==
    /\ hub = "select" /\ conn[c].register
    /\ listed' = listed \cup {c}
    /\ \E told \in IF service = "chat" THEN {{}, listed'} ELSE {{}} :
          /\ MaySpawn(told)
          /\ conn' = [d \in Connections |->
                        LET r == IF d \in told THEN Spawn(conn[d]) ELSE conn[d]
                        IN IF d = c THEN [r EXCEPT !.register = FALSE] ELSE r]
    /\ UNCHANGED <<service, hub, push, panicked>>

Closed(r) == [r EXCEPT !.send = "closed", !.link = "down"]

\* Mutant: a connection that is unregistered twice is closed twice.
HandleUnjoin_NoLook(c) ==
    /\ hub = "select" /\ conn[c].unregister > 0
    /\ listed' = listed \ {c}
    /\ LET r == [conn[c] EXCEPT !.unregister = @ - 1]
       IN IF service = "chat"
          THEN Set(c, r) /\ hub' = c /\ UNCHANGED panicked
          ELSE /\ Set(c, Closed(r)) /\ UNCHANGED hub
               /\ panicked' = (panicked \/ conn[c].send = "closed")
    /\ UNCHANGED <<service, push>>

\* HandleUnjoin, HandleLeaveEvent: out of hub.Clients, if it is in there, and closed.
HandleUnjoin(c) ==
    /\ hub = "select" /\ conn[c].unregister > 0
    /\ listed' = listed \ {c}
    /\ LET r == [conn[c] EXCEPT !.unregister = @ - 1]
       IN IF c \notin listed THEN Set(c, r) /\ UNCHANGED <<hub, panicked>>
          ELSE IF service = "chat"
          THEN Set(c, r) /\ hub' = c /\ UNCHANGED panicked
          ELSE /\ Set(c, Closed(r)) /\ UNCHANGED hub
               /\ panicked' = (panicked \/ conn[c].send = "closed")
    /\ UNCHANGED <<service, push>>

\* SafeClose takes the write lock: whoever is sending to this connection is
\* waited for.  closeOnce closes the channel once.  Then the others are told.
SafeClose(c) ==
    /\ hub = c /\ conn[c].waiting = 0 /\ c \notin push.at
    /\ hub' = "select"
    /\ \E told \in {{}, listed} :
          /\ MaySpawn(told)
          /\ conn' = [d \in Connections |-> IF d = c THEN Closed(conn[d])
                                            ELSE IF d \in told THEN Spawn(conn[d]) ELSE conn[d]]
    /\ UNCHANGED <<service, listed, push, panicked>>

\* An event for all: a message, a reading or a dismissal, new scores.
HandleEvent ==
    /\ hub = "select" /\ listed # {}
    /\ MaySpawn(listed)
    /\ Broadcast(listed)
    /\ UNCHANGED <<service, listed, hub, push, panicked>>

\* An event of the chat that could not be stored, or was refused.
RefuseEvent ==
    /\ service = "chat" /\ hub = "select" /\ listed # {} /\ push = Nobody
    /\ push' = [by |-> "hub", left |-> listed, at |-> {}]
    /\ hub' = "sending"
    /\ UNCHANGED <<service, conn, listed, panicked>>

\* The listener of the notifications reads hub.Clients without the mutex.  A
\* change meanwhile may end the process, which is then started again.
Gone == [Unused EXCEPT !.link = "down", !.handler = "done", !.send = "closed"]
Race ==
    /\ push.by = "listener" /\ hub = "select"
    /\ \E c \in Connections : conn[c].register \/ (conn[c].unregister > 0 /\ c \in listed)
    /\ conn' = [c \in Connections |-> IF conn[c].handler = "none" THEN conn[c] ELSE Gone]
    /\ listed' = {} /\ push' = Nobody
    /\ UNCHANGED <<service, hub, panicked>>

-----------------------------------------------------------------------------
\* The steps a connection takes once, and those that take it out.
Tunnels(c) == RegisterConn(c) \/ Second(c) \/ ReadFails(c) \/ WriteFails(c) \/ WriterEnds(c)
Leaves(c)  == Unregister(c) \/ HandleJoin(c) \/ HandleUnjoin(c) \/ SafeClose(c)
Senders(c) == Enter(c) \/ SendToClient(c)
Pushes     == PushEnds \/ \E c \in Connections : PushTo(c) \/ PushSends(c)

Next ==
    \/ \E c \in Connections :
          \/ Upgrade(c) \/ Lose(c) \/ Write(c) \/ ReaderSendsError(c)
          \/ Tunnels(c) \/ Leaves(c) \/ Senders(c)
    \/ Pushes \/ Listener \/ HandleEvent \/ RefuseEvent \/ Race

\* Every goroutine goes on while it can; the hub takes from each of its
\* channels again and again; writes to a peer that is gone fail sooner or later.
\* Nothing has to be opened, lost or sent, and a live peer may never read.
Fairness ==
    /\ WF_vars(Pushes)
    /\ \A c \in Connections :
          SF_vars(Tunnels(c)) /\ SF_vars(Leaves(c)) /\ WF_vars(Senders(c))

Spec == Init /\ [][Next]_vars /\ Fairness
-----------------------------------------------------------------------------
\* No panic gets away: a channel is closed once, however many readers, writers
\* and senders unregister the connection ("now guaranteed to be closed once" in
\* events.go of the notifications, "ensures close only once" in client.go of the
\* chat), and nobody sends on a channel of the chat that is closed ("protects
\* sending").
NeverPanics == ~panicked

\* The hub always comes back to its channels: a connection that does not take
\* its events holds it up for a time only, also where it waits for the lock of
\* the connection.
HubReturns == []<>(hub = "select")

\* A lost connection is taken out for good, as long as there are events: also
\* the one whose unregistration the hub handled before its registration, and the
\* one whose buffer is full.  And once its channel is closed, its goroutines end.
\* (A connection that is lost, or closed, stays so.)
LostLeaves ==
    \A c \in Connections :
        /\ []<><<HandleEvent>>_vars => <>[](conn[c].link = "down" => c \notin listed)
        /\ <>[](conn[c].send = "closed" =>
                  ~conn[c].reader /\ ~conn[c].writer /\ Goroutines(c) + conn[c].unregister = 0)
=============================================================================
