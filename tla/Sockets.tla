------------------------------- MODULE Sockets -------------------------------
(***************************************************************************)
(* Web sockets: the upgrade of a connection (src/src/Server.ts), the       *)
(* routes that are made on demand and closed when nobody is left           *)
(* (ApiRoutes.ts, routes/SocketRoute.ts), the registry of clients          *)
(* (routes/WsClients.ts) and the end of the process (src/cli.ts), which    *)
(* waits for plain HTTP connections, too.                                  *)
(*                                                                         *)
(* A client asks for one upgrade.  A step runs from one await of the       *)
(* handler to the next; the 'close' event of a web socket server is        *)
(* emitted before anything else is served, so it is part of the step that  *)
(* closes the server.  A route carries the name of the client whose        *)
(* upgrade made it.                                                        *)
(***************************************************************************)
EXTENDS FiniteSets

CONSTANTS
    Clients, People,
    Anonymous, NoSession, \* a session that nobody signed in to, and none
    Urls, Kind,           \* Kind[u]: the class of route getOrCreateWs makes
    User, Url,            \* what a client's token says and where it connects
    Readers,              \* the <<person, URL>> that checkAccess admits
    Circles,              \* URLs of files that are above themselves
    Visitors,             \* plain HTTP connections
    Gatherings            \* bound: the clients and visitors of one behaviour

VARIABLES
    conn,      \* Clients -> the state of the connection
    held,      \* Clients -> the route its upgrade found or made, or NoRoute
    lost,      \* clients that hung up before they were answered
    server,    \* routes -> its WebSocketServer: "none", "running", "closed"
    wsRoutes,  \* routes that getOrCreateWs finds
    watched,   \* routes whose server has its 'close' listener
    readers,   \* what is left of Readers, as far as these clients use it
    plain,     \* Visitors -> the state of the connection
    phase      \* of the process

vars == <<conn, held, lost, server, wsRoutes, watched, readers, plain, phase>>
routes == <<server, wsRoutes, watched>>

NoRoute == "no route"
Kinds == {"auth", "history", "files", "file", "other"}

ASSUME ClientsTyped == /\ Kind \in [Urls -> Kinds]
                       /\ Url \in [Clients -> Urls]
                       /\ User \in [Clients -> People \cup {Anonymous, NoSession}]
                       /\ Readers \subseteq People \X Urls
                       /\ Circles \subseteq Urls
                       /\ Gatherings \subseteq SUBSET (Clients \cup Visitors)
ASSUME SentinelsDistinct == /\ Anonymous \notin People /\ NoSession \notin People
                            /\ Anonymous # NoSession /\ NoRoute \notin Clients

Pending == {"session", "authorise"}
Connected == {"open", "leaving", "closing"}
Over == {"gone", "401", "403", "404", "503", "aborted"}
\* The server waits for the visitor or for somebody his request needs; it
\* answers him; it keeps the connection for his next request.
Plugged == {"silent", "asking", "kept"}
Ended == {"exited", "crashed"}

At(c, state) == conn[c] = state
Authenticates(c) == Kind[Url[c]] = "auth"
\* The registry keeps a client from its 'connection' to its 'close', and counts
\* it, or closes it, while it is open.
OpenAt(u) == {c \in Clients : Url[c] = u /\ At(c, "open")}

Init ==
    /\ \E some \in Gatherings :
          /\ conn = [c \in Clients |-> IF c \in some THEN "idle" ELSE "away"]
          /\ plain = [v \in Visitors |-> IF v \in some THEN "idle" ELSE "away"]
          /\ readers = {<<User[c], Url[c]>> : c \in Clients \cap some} \cap Readers
    /\ held = [c \in Clients |-> NoRoute]
    /\ lost = {}
    /\ server = [c \in Clients |-> "none"]
    /\ wsRoutes = {}
    /\ watched = {}
    /\ phase = "up"

-----------------------------------------------------------------------------
\* Upgrading

Upgrade(c) ==
    /\ At(c, "idle") /\ phase \in {"up", "storeless"}
    /\ conn' = [conn EXCEPT ![c] = "session"]
    /\ UNCHANGED <<held, lost, routes, readers, plain, phase>>

\* getSessionId and getSessionUser throw: no session, or no store to read the
\* user from.  A session that nobody signed in to has no user, and goes on.
RefuseSession(c) ==
    /\ At(c, "session")
    /\ User[c] = NoSession \/ (phase # "up" /\ ~Authenticates(c))
    /\ conn' = [conn EXCEPT ![c] = "401"]
    /\ UNCHANGED <<held, lost, routes, readers, plain, phase>>

MayGoOn(c) ==
    /\ At(c, "session")
    /\ Authenticates(c) \/ User[c] = Anonymous \/ (User[c] \in People /\ phase = "up")

\* Mutant of NotFound: it returns without a word.
NotFoundSilent(c) ==
    /\ MayGoOn(c) /\ Kind[Url[c]] = "other"
    /\ UNCHANGED vars

NotFound(c) ==
    /\ MayGoOn(c) /\ Kind[Url[c]] = "other"
    /\ conn' = [conn EXCEPT ![c] = "404"]
    /\ UNCHANGED <<held, lost, routes, readers, plain, phase>>

\* Only the routes of files are looked for before one is made.
Found(c) == IF Kind[Url[c]] \in {"files", "file"}
            THEN {r \in wsRoutes : Url[r] = Url[c]} ELSE {}

\* getOrCreateWs, addWsRoute: c holds r from here on, and with r = c made it.
Attach(c, r) ==
    /\ MayGoOn(c) /\ Kind[Url[c]] # "other"
    /\ IF Found(c) = {} THEN r = c ELSE r \in Found(c)
    /\ held' = [held EXCEPT ![c] = r]

ServerFrom(r, c) == IF r = c THEN [server EXCEPT ![r] = "running"] ELSE server

\* Mutant of Handshake: the connection is what its server is.
HandshakeRaw(c, state) == IF c \in lost THEN "aborted" ELSE state

\* What handleUpgrade makes of the connection.
Handshake(c, state) == IF c \in lost THEN "aborted"
                       ELSE IF state = "running" THEN "open" ELSE "503"

\* The auth route admits anybody, those of the files and of the history
\* anybody who is signed in: no other step comes between.
Connect(c, r) ==
    /\ Attach(c, r)
    /\ Authenticates(c) \/ (User[c] \in People /\ Kind[Url[c]] # "file")
    /\ server' = ServerFrom(r, c)
    /\ wsRoutes' = wsRoutes \cup {r} /\ watched' = watched \cup {r}
    /\ conn' = [conn EXCEPT ![c] = Handshake(c, server'[r])]
    /\ UNCHANGED <<lost, readers, plain, phase>>

\* FileWsRoute.isAuthorized: checkAccess is awaited with the route at hand.
Await(c, r) ==
    /\ Attach(c, r)
    /\ User[c] \in People /\ Kind[Url[c]] = "file"
    /\ server' = ServerFrom(r, c)
    /\ wsRoutes' = wsRoutes \cup {r} /\ watched' = watched \cup {r}
    /\ conn' = [conn EXCEPT ![c] = "authorise"]
    /\ UNCHANGED <<lost, readers, plain, phase>>

\* Mutant of Dismissed: removeWsRoute takes the listeners off before it closes.
DismissedOnly(c, r) == [conn EXCEPT ![c] = "403"]

\* removeWsRoute closes the server, and every client of the URL with it while
\* the server has its listener; a server that was closed emits again.
Dismissed(c, r) ==
    [d \in Clients |-> IF d = c THEN "403"
                       ELSE IF r \in watched' /\ d \in OpenAt(Url[r]) THEN "closing"
                       ELSE conn[d]]

RefuseAnonymous(c, r) ==
    /\ Attach(c, r)
    /\ User[c] = Anonymous /\ ~Authenticates(c)
    /\ server' = [server EXCEPT ![r] = "closed"]
    /\ wsRoutes' = wsRoutes \ {r} /\ watched' = watched \cup {r}
    /\ conn' = Dismissed(c, r)
    /\ UNCHANGED <<lost, readers, plain, phase>>

Admitted(c) == phase = "up" /\ <<User[c], Url[c]>> \in readers

\* The walk of checkAccess goes round, until somebody removes one of the files
\* or the store is closed; either is a refusal.
Circling(c) == At(c, "authorise") /\ Url[c] \in Circles /\ phase = "up" /\ ~Admitted(c)

Admit(c) ==
    /\ At(c, "authorise") /\ Admitted(c)
    /\ conn' = [conn EXCEPT ![c] = Handshake(c, server[held[c]])]
    /\ UNCHANGED <<held, lost, routes, readers, plain, phase>>

Refuse(c) ==
    /\ At(c, "authorise") /\ ~Admitted(c)
    /\ server' = [server EXCEPT ![held[c]] = "closed"]
    /\ wsRoutes' = wsRoutes \ {held[c]}
    /\ watched' = watched
    /\ conn' = Dismissed(c, held[c])
    /\ UNCHANGED <<held, lost, readers, plain, phase>>

-----------------------------------------------------------------------------
\* Leaving

\* Mutants of LastToLeave: whoever leaves closes the route, or nobody does.
AlwaysLast(c) == TRUE
NeverLast(c) == FALSE

\* closeWhenNeeded counts the open clients of the URL, whatever route they hold.
LastToLeave(c) == OpenAt(Url[c]) \ {c} = {}

\* The socket's 'close': unregister, closeWhenNeeded and, for the last, shutDown.
Gone(c) ==
    LET r == held[c]
    IN  IF LastToLeave(c)
        THEN /\ conn' = [d \in Clients |-> IF d = c THEN "gone"
                                           ELSE IF d \in OpenAt(Url[c]) THEN "closing"
                                           ELSE conn[d]]
             /\ server' = [server EXCEPT ![r] = "closed"]
             /\ wsRoutes' = wsRoutes \ {r} /\ watched' = watched \ {r}
        ELSE /\ conn' = [conn EXCEPT ![c] = "gone"]
             /\ UNCHANGED routes

\* The client goes, or its connection breaks: from then on nobody counts it ...
Leave(c) == /\ At(c, "open")
            /\ conn' = [conn EXCEPT ![c] = "leaving"]
            /\ UNCHANGED <<held, lost, routes, readers, plain, phase>>

\* ... and the closing handshake, whoever began it, is over or has timed out.
Closed(c) == /\ conn[c] \in {"leaving", "closing"} /\ Gone(c)
             /\ UNCHANGED <<held, lost, readers, plain, phase>>

\* The client hangs up while the upgrade is being looked into.
Drop(c) == /\ conn[c] \in Pending /\ c \notin lost
           /\ lost' = lost \cup {c}
           /\ UNCHANGED <<conn, held, routes, readers, plain, phase>>

\* Its connection is reset meanwhile.  Nothing listens for an error of the raw
\* socket, and an 'error' event that nobody hears ends the process.
Reset(c) ==
    /\ conn[c] \in Pending /\ c \notin lost
    /\ phase' = "crashed"
    /\ conn' = [d \in Clients |-> IF conn[d] \in Pending THEN "aborted"
                                  ELSE IF conn[d] \in Connected THEN "gone" ELSE conn[d]]
    /\ plain' = [v \in Visitors |-> IF plain[v] \in Plugged THEN "gone" ELSE plain[v]]
    /\ server' = [r \in Clients |-> "none"] /\ wsRoutes' = {} /\ watched' = {}
    /\ UNCHANGED <<held, lost, readers>>

\* Somebody's access to a file ends: their web sockets stay.
Revoke(p, u) == /\ <<p, u>> \in readers /\ phase = "up"
                /\ readers' = readers \ {<<p, u>>}
                /\ UNCHANGED <<conn, held, lost, routes, plain, phase>>

-----------------------------------------------------------------------------
\* Plain connections

Still == <<conn, held, lost, routes, readers, phase>>
Plug(v, from, to) == /\ plain[v] \in from
                     /\ plain' = [plain EXCEPT ![v] = to]
                     /\ UNCHANGED Still

Visit(v) == phase \in {"up", "storeless"} /\ Plug(v, {"idle"}, "silent")
\* A request has come whole, or the answer that it waited for ...
Ask(v) == Plug(v, {"silent", "kept"}, "asking")
\* ... or its handler waits for the rest, or for the identity provider.
Stall(v) == Plug(v, {"asking"}, "silent")
AnswerPlain(v) == Plug(v, {"asking"}, "kept")
\* The keep-alive timeout, or the visitor.
HangUp(v) == Plug(v, {"kept"}, "gone")
Abandon(v) == Plug(v, {"silent"}, "gone")

Answering == \E v \in Visitors : AnswerPlain(v) \/ HangUp(v)

-----------------------------------------------------------------------------
\* The end: store.cleanup, server.stop, server.cleanup, each awaited

Interrupt == /\ phase = "up" /\ phase' = "storeless"
             /\ UNCHANGED <<conn, held, lost, routes, readers, plain>>

Stop == /\ phase = "storeless" /\ phase' = "stopping"
        /\ UNCHANGED <<conn, held, lost, routes, readers, plain>>

\* A connection that was upgraded, or is being, is still the http server's, and
\* half open when the client has hung up.
Used == \/ \E c \in Clients : conn[c] \in Pending \cup Connected
        \/ \E v \in Visitors : plain[v] \in Plugged

\* Mutant of Stopped: it waits for the routes, too.
StoppedRoutes == /\ phase = "stopping" /\ ~Used
                 /\ wsRoutes = {}
                 /\ phase' = "stopped"
                 /\ UNCHANGED <<conn, held, lost, routes, readers, plain>>

Stopped == /\ phase = "stopping" /\ ~Used
           /\ phase' = "stopped"
           /\ UNCHANGED <<conn, held, lost, routes, readers, plain>>

\* ApiRoutes.cleanup shuts the routes down that are listed, and leaves the list.
Cleanup ==
    /\ phase = "stopped" /\ phase' = "exited"
    /\ server' = [r \in Clients |-> IF r \in wsRoutes THEN "closed" ELSE server[r]]
    /\ watched' = watched \ wsRoutes
    /\ conn' = [c \in Clients |-> IF At(c, "open") /\ \E r \in wsRoutes : Url[r] = Url[c]
                                  THEN "closing" ELSE conn[c]]
    /\ UNCHANGED <<held, lost, wsRoutes, readers, plain>>

\* The process waits for connections to end, or is gone.
Rest == phase \in {"stopping"} \cup Ended /\ UNCHANGED vars

Serve(c) ==
    \/ RefuseSession(c) \/ NotFound(c) \/ Admit(c) \/ Refuse(c) \/ Closed(c)
    \/ \E r \in Clients : Connect(c, r) \/ Await(c, r) \/ RefuseAnonymous(c, r)

ShutDown == Stop \/ Stopped \/ Cleanup

Next ==
    \/ \E c \in Clients : Upgrade(c) \/ Serve(c) \/ Leave(c) \/ Drop(c) \/ Reset(c)
    \/ \E v \in Visitors : Visit(v) \/ Ask(v) \/ Stall(v) \/ Abandon(v)
    \/ Answering
    \/ \E p \in People, u \in Urls : Revoke(p, u)
    \/ Interrupt \/ ShutDown \/ Rest

Spec == Init /\ [][Next]_vars

\* The event loop does not rest while there is an upgrade or the end of the
\* process to take further, and ws ends a closing handshake after a timeout at
\* the latest.  Which it takes first is open, a walk in a circle may go on for
\* ever, and nothing makes a client connect or leave.  Plain requests that have
\* all they need are answered, and connections kept for a next one closed, in
\* between.
FairSpec == /\ Spec
            /\ WF_vars(ShutDown \/ \E c \in Clients : ~Circling(c) /\ Serve(c))
            /\ WF_vars(Answering)
-----------------------------------------------------------------------------
\* Properties

\* The variables keep their types.
TypeOK ==
    /\ conn \in [Clients -> {"away", "idle"} \cup Pending \cup Connected \cup Over]
    /\ held \in [Clients -> Clients \cup {NoRoute}]
    /\ lost \subseteq Clients
    /\ server \in [Clients -> {"none", "running", "closed"}]
    /\ wsRoutes \subseteq Clients /\ watched \subseteq Clients
    /\ readers \subseteq People \X Urls
    /\ plain \in [Visitors -> {"away", "idle", "gone"} \cup Plugged]
    /\ phase \in {"up", "storeless", "stopping", "stopped"} \cup Ended

\* However refusals, leaves and new upgrades of one URL overlap: an open client
\* is on a route of its URL that runs, hears of its end and is listed, so that
\* the upgrades that follow join it and the shutdown finds it.
OpenClientsListed ==
    \A c \in Clients : At(c, "open") =>
        /\ held[c] \in wsRoutes \cap watched /\ server[held[c]] = "running"
        /\ Url[held[c]] = Url[c]

\* A file's URL has one listed route; its server runs, and somebody came for it
\* and was neither refused nor is gone: no upgrade finds a route that was closed,
\* or that all its clients have left.  One who hung up during his upgrade is gone
\* without a word to the route: it is listed until a later client leaves.
FileRoutesInUse ==
    phase # "exited" =>
    \A r \in wsRoutes : Kind[Url[r]] \in {"files", "file"} =>
        /\ \A s \in wsRoutes : Url[s] = Url[r] => s = r
        /\ server[r] = "running"
        /\ \E c \in Clients : held[c] = r /\ conn[c] \in {"authorise", "aborted"} \cup Connected

\* closeByUrl closes everybody's connection to a URL, whatever the route.  An
\* open client's connection ends by its own leaving, or because an upgrade at
\* its URL is refused, or the process dies of one; never because another client
\* leaves (SocketRoute.ts:70-75, ApiRoutes.ts:164).
LeavingDisturbsNobody ==
    [][\A c \in Clients :
          (At(c, "open") /\ conn'[c] \notin {"open", "leaving"}) =>
              \/ \E d \in Clients : Url[d] = Url[c] /\ ~At(d, "403") /\ conn'[d] = "403"
              \/ phase' = "crashed"]_vars

\* Every upgrade is answered or breaks off, also when its route is closed
\* under it or the store is gone: again and again nobody waits, but for those
\* whose walk goes round in a circle of files.
EveryUpgradeAnswered == []<>(\A c \in Clients : conn[c] \in Pending => Circling(c))

\* After an interrupt the process ends, unless a client keeps its web socket for
\* good, or there is always a plain connection that waits for its client or for
\* another server, or a next request: no upgrade that is under way, refused, broken
\* off or going round, and no route that was left behind holds it.
OnlyClientsDelayTheEnd ==
    \/ <>[](\E c \in Clients : At(c, "open"))
    \/ []<>(\E v \in Visitors : plain[v] \in {"silent", "asking"})
    \/ phase = "storeless" ~> phase \in Ended

\* What src/cli.ts:49 says of an interrupt, "Gracefully shutting down the
\* server..."; Server.cleanup "signals all processes to end".
ShutdownCompletes == phase = "storeless" ~> phase \in Ended
=============================================================================
