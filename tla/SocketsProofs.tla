---------------------------- MODULE SocketsProofs ----------------------------
(***************************************************************************)
(* Theorems about Sockets, for any clients, people, URLs and rights: the   *)
(* types, that whoever is open is on a listed route that runs, that the    *)
(* route of a file is in use, and that leaving disturbs nobody.            *)
(***************************************************************************)
EXTENDS Sockets, TLAPS

\* What a client holds is a route of its URL, from its authorisation on.
HeldFits ==
    \A c \in Clients :
        /\ conn[c] \in {"authorise"} \cup Connected => held[c] \in Clients
        /\ held[c] # NoRoute => Url[held[c]] = Url[c]

\* A server that runs is found by the upgrades that follow, and hears of its end.
RunningListed == \A r \in Clients : server[r] = "running" => r \in wsRoutes \cap watched

OpenOnRunning == \A c \in Clients : At(c, "open") => server[held[c]] = "running"

Attached == TypeOK /\ HeldFits /\ RunningListed /\ OpenOnRunning

\* When the http server has ended, or the process, nobody has a connection.
EndedAlone == phase \in {"stopped"} \cup Ended => ~Used

-----------------------------------------------------------------------------
\* What attaching gives

LEMMA AttachFits ==
    ASSUME Attached, NEW c \in Clients, NEW r \in Clients, Attach(c, r)
    PROVE  /\ Url[r] = Url[c] /\ At(c, "session")
           /\ held' = [held EXCEPT ![c] = r]
           /\ r # c => r \in wsRoutes
  BY DEF Attach, Found, MayGoOn

LEMMA DismissedTyped ==
    ASSUME TypeOK, NEW c \in Clients, NEW r
    PROVE  Dismissed(c, r) \in [Clients -> {"away", "idle"} \cup Pending \cup Connected \cup Over]
  BY DEF Dismissed, TypeOK, Connected, Over

-----------------------------------------------------------------------------
\* Everybody who is open is attached: one step for each action

LEMMA InitAttached == Init => Attached
  BY ClientsTyped, SentinelsDistinct
  DEF Init, Attached, TypeOK, HeldFits, RunningListed, OpenOnRunning, At, Connected, Ended, OpenAt

LEMMA ConnectAttached ==
    ASSUME Attached, NEW c \in Clients, NEW r \in Clients, Connect(c, r)
    PROVE  Attached'
<1>1. /\ Url[r] = Url[c] /\ At(c, "session") /\ held' = [held EXCEPT ![c] = r]
  BY AttachFits DEF Connect
<1>2. Handshake(c, server'[r]) \in {"aborted", "open", "503"}
  BY DEF Handshake
<1>3. /\ conn' = [conn EXCEPT ![c] = Handshake(c, server'[r])]
      /\ server' = IF r = c THEN [server EXCEPT ![r] = "running"] ELSE server
      /\ wsRoutes' = wsRoutes \cup {r} /\ watched' = watched \cup {r}
      /\ UNCHANGED <<lost, readers, plain, phase>>
  BY DEF Connect, ServerFrom
<1>4. TypeOK'
  BY <1>1, <1>2, <1>3 DEF Attached, TypeOK, Over, Connected
<1>5. HeldFits'
  BY <1>1, <1>2, <1>3 DEF Attached, TypeOK, HeldFits, At
<1>6. RunningListed'
  BY <1>3 DEF Attached, TypeOK, RunningListed
<1>7. OpenOnRunning'
  BY <1>1, <1>3 DEF Attached, TypeOK, HeldFits, OpenOnRunning, At, Handshake
<1>. QED  BY <1>4, <1>5, <1>6, <1>7 DEF Attached

LEMMA AwaitAttached ==
    ASSUME Attached, NEW c \in Clients, NEW r \in Clients, Await(c, r)
    PROVE  Attached'
<1>1. /\ Url[r] = Url[c] /\ At(c, "session") /\ held' = [held EXCEPT ![c] = r]
  BY AttachFits DEF Await
<1>2. /\ conn' = [conn EXCEPT ![c] = "authorise"]
      /\ server' = IF r = c THEN [server EXCEPT ![r] = "running"] ELSE server
      /\ wsRoutes' = wsRoutes \cup {r} /\ watched' = watched \cup {r}
      /\ UNCHANGED <<lost, readers, plain, phase>>
  BY DEF Await, ServerFrom
<1>3. TypeOK'
  BY <1>1, <1>2 DEF Attached, TypeOK, Pending
<1>4. HeldFits'
  BY <1>1, <1>2 DEF Attached, TypeOK, HeldFits
<1>5. RunningListed'
  BY <1>2 DEF Attached, TypeOK, RunningListed
<1>6. OpenOnRunning'
  BY <1>1, <1>2 DEF Attached, TypeOK, HeldFits, OpenOnRunning, At
<1>. QED  BY <1>3, <1>4, <1>5, <1>6 DEF Attached

\* A refusal closes the route and, with its listener, everybody on its URL.
LEMMA DismissalAttached ==
    ASSUME Attached, NEW c \in Clients, NEW r \in Clients,
           Url[r] = Url[c], conn[c] \in Pending,
           \/ held' = [held EXCEPT ![c] = r]
           \/ UNCHANGED held,
           server' = [server EXCEPT ![r] = "closed"],
           wsRoutes' = wsRoutes \ {r},
           watched' = watched \/ watched' = watched \cup {r},
           conn' = Dismissed(c, r),
           UNCHANGED <<lost, readers, plain, phase>>
    PROVE  Attached'
<1>1. TypeOK'
  BY DismissedTyped DEF Attached, TypeOK
<1>2. HeldFits'
  BY DEF Attached, TypeOK, HeldFits, Dismissed, OpenAt, At, Connected
<1>3. RunningListed'
  BY DEF Attached, TypeOK, RunningListed
<1>4. OpenOnRunning'
  <2>. SUFFICES ASSUME NEW d \in Clients, At(d, "open")' PROVE server'[held'[d]] = "running"
    BY DEF OpenOnRunning
  <2>1. d # c /\ At(d, "open") /\ ~(r \in watched' /\ d \in OpenAt(Url[r]))
    BY DEF Dismissed, At
  <2>2. held'[d] = held[d] /\ held[d] \in Clients /\ Url[held[d]] = Url[d]
    BY <2>1, SentinelsDistinct DEF Attached, TypeOK, HeldFits, At, Connected
  <2>3. server[held[d]] = "running" /\ held[d] \in watched
    BY <2>1, <2>2 DEF Attached, OpenOnRunning, RunningListed
  <2>4. held[d] # r
    BY <2>1, <2>2, <2>3 DEF OpenAt
  <2>. QED  BY <2>2, <2>3, <2>4 DEF Attached, TypeOK
<1>. QED  BY <1>1, <1>2, <1>3, <1>4 DEF Attached

LEMMA GoneAttached ==
    ASSUME Attached, NEW c \in Clients, conn[c] \in Connected, Gone(c),
           UNCHANGED <<held, lost, readers, plain, phase>>
    PROVE  Attached'
<1>1. held[c] \in Clients /\ Url[held[c]] = Url[c]
  BY SentinelsDistinct DEF Attached, HeldFits, Connected
<1>2. CASE LastToLeave(c)
  <2>1. /\ conn' = [d \in Clients |-> IF d = c THEN "gone"
                                      ELSE IF d \in OpenAt(Url[c]) THEN "closing"
                                      ELSE conn[d]]
        /\ server' = [server EXCEPT ![held[c]] = "closed"]
        /\ wsRoutes' = wsRoutes \ {held[c]} /\ watched' = watched \ {held[c]}
    BY <1>2 DEF Gone
  <2>2. TypeOK'
    BY <2>1 DEF Attached, TypeOK, Connected, Over
  <2>3. HeldFits'
    BY <2>1 DEF Attached, TypeOK, HeldFits, OpenAt, At, Connected
  <2>4. RunningListed'
    BY <2>1 DEF Attached, TypeOK, RunningListed
  <2>5. OpenOnRunning'
    BY <2>1, <1>1, SentinelsDistinct DEF Attached, TypeOK, HeldFits, OpenOnRunning, OpenAt, At
  <2>. QED  BY <2>2, <2>3, <2>4, <2>5 DEF Attached
<1>3. CASE ~LastToLeave(c)
  BY <1>3 DEF Gone, routes, Attached, TypeOK, HeldFits, RunningListed, OpenOnRunning, At, Over
<1>. QED  BY <1>2, <1>3

LEMMA AdmitAttached ==
    ASSUME Attached, NEW c \in Clients, Admit(c)
    PROVE  Attached'
<1>1. /\ conn' = [conn EXCEPT ![c] = Handshake(c, server[held[c]])]
      /\ At(c, "authorise") /\ UNCHANGED <<held, lost, server, wsRoutes, watched, readers, plain, phase>>
  BY DEF Admit, routes
<1>2. Handshake(c, server[held[c]]) \in {"aborted", "open", "503"}
  BY DEF Handshake
<1>3. TypeOK'
  BY <1>1, <1>2 DEF Attached, TypeOK, Over, Connected
<1>4. HeldFits' /\ RunningListed'
  BY <1>1, <1>2 DEF Attached, TypeOK, HeldFits, RunningListed, At
<1>5. OpenOnRunning'
  BY <1>1 DEF Attached, TypeOK, OpenOnRunning, At, Handshake
<1>. QED  BY <1>3, <1>4, <1>5 DEF Attached

\* Every open client's route is listed, so the shutdown closes them all.
LEMMA CleanupAttached == ASSUME Attached, Cleanup PROVE Attached'
<1>1. TypeOK'
  BY DEF Cleanup, Attached, TypeOK, Connected, Ended
<1>2. HeldFits' /\ RunningListed'
  BY DEF Cleanup, Attached, TypeOK, HeldFits, RunningListed, At, Connected
<1>3. \A c \in Clients : At(c, "open") => \E r \in wsRoutes : Url[r] = Url[c]
  BY SentinelsDistinct DEF Attached, HeldFits, OpenOnRunning, RunningListed, At, Connected
<1>4. OpenOnRunning'
  BY <1>3 DEF Cleanup, Attached, TypeOK, OpenOnRunning, At
<1>. QED  BY <1>1, <1>2, <1>4 DEF Attached

\* Steps that open no client, give no route and close none.
LEMMA QuietAttached ==
    ASSUME Attached, UNCHANGED <<held, routes>>, TypeOK',
           \A c \in Clients : conn'[c] = conn[c]
                              \/ conn'[c] \notin {"authorise"} \cup Connected
                              \/ (conn[c] = "open" /\ conn'[c] = "leaving")
    PROVE  Attached'
  BY DEF Attached, routes, HeldFits, RunningListed, OpenOnRunning, At, Connected

VisitorStep == \/ \E v \in Visitors : Visit(v) \/ Ask(v) \/ Stall(v) \/ Abandon(v)
               \/ Answering

LEMMA VisitorsStill == VisitorStep => UNCHANGED Still
  BY DEF VisitorStep, Answering, Visit, Ask, Stall, AnswerPlain, HangUp, Abandon, Plug

LEMMA StepAttached == Attached /\ [Next]_vars => Attached'
<1>. SUFFICES ASSUME Attached, [Next]_vars PROVE Attached'
  OBVIOUS
<1>1. ASSUME NEW c \in Clients,
             Upgrade(c) \/ RefuseSession(c) \/ NotFound(c) \/ Drop(c) \/ Leave(c)
      PROVE  Attached'
  <2>1. TypeOK'
    BY <1>1
    DEF Attached, TypeOK, Upgrade, RefuseSession, NotFound, Drop, Leave, routes, Pending,
        Connected, Over
  <2>. QED
    BY <1>1, <2>1, QuietAttached
    DEF Attached, TypeOK, Upgrade, RefuseSession, NotFound, Drop, Leave, routes, At, Connected
<1>2. ASSUME NEW c \in Clients, NEW r \in Clients, RefuseAnonymous(c, r) PROVE Attached'
  <2>1. Url[r] = Url[c] /\ At(c, "session") /\ held' = [held EXCEPT ![c] = r]
    BY <1>2, AttachFits DEF RefuseAnonymous
  <2>. QED  BY <1>2, <2>1, DismissalAttached DEF RefuseAnonymous, Pending, At
<1>3. ASSUME NEW c \in Clients, Refuse(c) PROVE Attached'
  <2>1. held[c] \in Clients /\ Url[held[c]] = Url[c] /\ conn[c] \in Pending
    BY <1>3, SentinelsDistinct DEF Refuse, Attached, HeldFits, At, Pending
  <2>. QED  BY <1>3, <2>1, DismissalAttached DEF Refuse
<1>4. ASSUME NEW c \in Clients, Closed(c) PROVE Attached'
  BY <1>4, GoneAttached DEF Closed, Connected
<1>5. ASSUME NEW p \in People, NEW u \in Urls, Revoke(p, u) PROVE Attached'
  BY <1>5 DEF Revoke, Attached, TypeOK, HeldFits, RunningListed, OpenOnRunning, At, routes
<1>6. CASE Interrupt \/ Stop \/ Stopped \/ Rest \/ UNCHANGED vars
  BY <1>6 DEF Interrupt, Stop, Stopped, Rest, vars, Attached, TypeOK, HeldFits,
              RunningListed, OpenOnRunning, At, routes, Ended
<1>7. ASSUME NEW c \in Clients, Reset(c) PROVE Attached'
  <2>1. TypeOK'
    BY <1>7 DEF Reset, Attached, TypeOK, Over, Ended
  <2>. QED
    BY <1>7, <2>1
    DEF Reset, Attached, TypeOK, HeldFits, RunningListed, OpenOnRunning, At, Connected, Pending
<1>8. CASE VisitorStep
  <2>1. TypeOK'
    BY <1>8 DEF VisitorStep, Answering, Visit, Ask, Stall, AnswerPlain, HangUp, Abandon, Plug,
                Still, routes, Attached, TypeOK, Plugged
  <2>2. UNCHANGED Still
    BY <1>8, VisitorsStill
  <2>. QED  BY <2>1, <2>2, QuietAttached DEF Still
<1>. QED
  BY <1>1, <1>2, <1>3, <1>4, <1>5, <1>6, <1>7, <1>8, ConnectAttached, AwaitAttached,
     AdmitAttached, CleanupAttached
  DEF Next, Serve, ShutDown, VisitorStep

\* The variables keep their types.
THEOREM TypeCorrect == Spec => []TypeOK
<1>1. Attached => TypeOK
  BY DEF Attached
<1>. QED  BY <1>1, InitAttached, StepAttached, PTL DEF Spec

\* Whoever is open is on a route of its URL that runs, is listed and hears of
\* its end, however refusals, leaves, upgrades and the shutdown overlap.
THEOREM OpenListed == Spec => []OpenClientsListed
<1>1. Attached => OpenClientsListed
  BY SentinelsDistinct DEF Attached, OpenClientsListed, HeldFits, RunningListed, OpenOnRunning, At, Connected
<1>. QED  BY <1>1, InitAttached, StepAttached, PTL DEF Spec

-----------------------------------------------------------------------------
\* Routes of files are in use

Serving == {"authorise", "aborted"} \cup Connected

Serves(r) ==
    /\ \A s \in wsRoutes : Url[s] = Url[r] => s = r
    /\ server[r] = "running"
    /\ \E c \in Clients : held[c] = r /\ conn[c] \in Serving

FileRoute(r) == r \in wsRoutes /\ Kind[Url[r]] \in {"files", "file"}

InUse == phase # "exited" => \A r \in Clients : FileRoute(r) => Serves(r)

LEMMA InUseIsFileRoutesInUse == TypeOK => (InUse <=> FileRoutesInUse)
  BY DEF TypeOK, InUse, FileRoutesInUse, FileRoute, Serves, Serving

\* An upgrade joins the only route there is of its URL, or makes it.
LEMMA AttachInUse ==
    ASSUME Attached, InUse, NEW c \in Clients, NEW r \in Clients, Attach(c, r),
           server' = ServerFrom(r, c), wsRoutes' = wsRoutes \cup {r},
           conn'[c] \in {"authorise", "open", "aborted"} \/ server'[r] # "running",
           \A d \in Clients \ {c} : conn'[d] = conn[d],
           UNCHANGED phase
    PROVE  InUse'
<1>1. /\ Url[r] = Url[c] /\ At(c, "session") /\ held' = [held EXCEPT ![c] = r]
      /\ r # c => r \in wsRoutes
  BY AttachFits
<1>. SUFFICES ASSUME phase # "exited", NEW s \in Clients, FileRoute(s)' PROVE Serves(s)'
  BY DEF InUse
<1>2. Kind[Url[c]] \in {"files", "file"} => \A t \in wsRoutes : Url[t] = Url[c] => t = r
  BY <1>1 DEF Attach, Found, Attached, TypeOK, InUse, FileRoute, Serves
<1>3. \A t \in wsRoutes' : Url[t] = Url[s] => t = s
  BY <1>1, <1>2 DEF Attached, TypeOK, InUse, FileRoute, Serves
<1>4. CASE s # r
  <2>1. Serves(s) /\ s \in wsRoutes
    BY <1>4 DEF InUse, FileRoute
  <2>2. PICK d \in Clients : held[d] = s /\ conn[d] \in Serving
    BY <2>1 DEF Serves
  <2>3. d # c /\ held'[d] = s /\ conn'[d] = conn[d]
    BY <1>1, <2>2 DEF At, Attached, TypeOK, Serving, Connected
  <2>4. server'[s] = "running"
    BY <1>4, <2>1 DEF Serves, ServerFrom
  <2>. QED  BY <1>3, <2>2, <2>3, <2>4 DEF Serves
<1>5. CASE s = r
  <2>1. server'[s] = "running"
    BY <1>1, <1>5 DEF Attached, TypeOK, InUse, FileRoute, Serves, ServerFrom
  <2>2. held'[c] = s /\ conn'[c] \in {"authorise", "open", "aborted"}
    BY <1>1, <1>5, <2>1 DEF Attached, TypeOK
  <2>. QED  BY <1>3, <2>1, <2>2 DEF Serves, Serving, Connected
<1>. QED  BY <1>4, <1>5

\* Closing r leaves the other routes, whose clients are at most being closed.
LEMMA ClosingInUse ==
    ASSUME Attached, InUse, NEW c \in Clients, NEW r \in Clients,
           server' = [server EXCEPT ![r] = "closed"], wsRoutes' = wsRoutes \ {r},
           \A d \in Clients \ {c} : conn'[d] \in {conn[d], "closing"} /\ held'[d] = held[d],
           held[c] = r \/ At(c, "session"),
           UNCHANGED phase
    PROVE  InUse'
<1>. SUFFICES ASSUME phase # "exited", NEW s \in Clients, FileRoute(s)' PROVE Serves(s)'
  BY DEF InUse
<1>1. s # r /\ Serves(s)
  BY DEF InUse, FileRoute
<1>2. PICK d \in Clients : held[d] = s /\ conn[d] \in Serving
  BY <1>1 DEF Serves
<1>3. d # c
  BY <1>1, <1>2 DEF At, Serving, Connected
<1>4. held'[d] = s /\ conn'[d] \in Serving
  BY <1>2, <1>3 DEF Serving, Connected
<1>5. server'[s] = "running" /\ \A t \in wsRoutes' : Url[t] = Url[s] => t = s
  BY <1>1 DEF Serves, Attached, TypeOK
<1>. QED  BY <1>4, <1>5 DEF Serves

\* A client that leaves when others are open on its URL leaves them its route.
LEMMA LeavingInUse ==
    ASSUME Attached, InUse, NEW c \in Clients, ~LastToLeave(c),
           conn' = [conn EXCEPT ![c] = "gone"], UNCHANGED <<held, routes, phase>>
    PROVE  InUse'
<1>. SUFFICES ASSUME phase # "exited", NEW s \in Clients, FileRoute(s)' PROVE Serves(s)'
  BY DEF InUse
<1>1. Serves(s) /\ s \in wsRoutes /\ Kind[Url[s]] \in {"files", "file"}
  BY DEF InUse, FileRoute, routes
<1>2. PICK d \in Clients : held[d] = s /\ conn[d] \in Serving
  BY <1>1 DEF Serves
<1>3. \E e \in Clients : e # c /\ held[e] = s /\ conn[e] \in Serving
  <2>1. CASE d # c
    BY <1>2, <2>1
  <2>2. CASE d = c
    <3>1. PICK e \in Clients : e # c /\ Url[e] = Url[c] /\ At(e, "open")
      BY DEF LastToLeave, OpenAt
    <3>2. Url[s] = Url[c]
      BY <1>2, <2>2, SentinelsDistinct DEF Attached, HeldFits
    <3>3. held[e] \in wsRoutes /\ Url[held[e]] = Url[s]
      BY <3>1, <3>2, SentinelsDistinct DEF Attached, HeldFits, RunningListed, OpenOnRunning, At, Connected
    <3>4. held[e] = s
      BY <1>1, <3>3 DEF Serves
    <3>. QED  BY <3>1, <3>4 DEF At, Serving, Connected
  <2>. QED  BY <2>1, <2>2
<1>. QED  BY <1>1, <1>3 DEF Serves, routes, Attached, TypeOK

\* Steps that close no connection and no route, but those of clients that hold none.
LEMMA QuietInUse ==
    ASSUME InUse, UNCHANGED <<held, routes>>, phase' = "exited" \/ phase # "exited" \/ UNCHANGED phase,
           \A c \in Clients : conn'[c] = conn[c]
                              \/ conn[c] \notin Serving
                              \/ conn'[c] \in Serving
    PROVE  InUse'
<1>. SUFFICES ASSUME phase' # "exited", NEW s \in Clients, FileRoute(s)' PROVE Serves(s)'
  BY DEF InUse
<1>1. Serves(s)
  BY DEF InUse, FileRoute, routes
<1>2. PICK d \in Clients : held[d] = s /\ conn[d] \in Serving
  BY <1>1 DEF Serves
<1>3. conn'[d] \in Serving
  BY <1>2
<1>. QED  BY <1>1, <1>2, <1>3 DEF Serves, routes

LEMMA StepInUse == Attached /\ InUse /\ [Next]_vars => InUse'
<1>. SUFFICES ASSUME Attached, InUse, [Next]_vars PROVE InUse'
  OBVIOUS
<1>1. ASSUME NEW c \in Clients,
             Upgrade(c) \/ RefuseSession(c) \/ NotFound(c) \/ Drop(c) \/ Leave(c)
      PROVE  InUse'
  BY <1>1, QuietInUse
  DEF Attached, TypeOK, Upgrade, RefuseSession, NotFound, MayGoOn, Drop, Leave, routes, At,
      Pending, Connected, Serving
<1>2. ASSUME NEW c \in Clients, NEW r \in Clients, Connect(c, r) \/ Await(c, r) PROVE InUse'
  <2>1. Attach(c, r) /\ server' = ServerFrom(r, c) /\ wsRoutes' = wsRoutes \cup {r} /\ UNCHANGED phase
    BY <1>2 DEF Connect, Await
  <2>2. conn'[c] \in {"authorise", "open", "aborted"} \/ server'[r] # "running"
    BY <1>2 DEF Connect, Await, Handshake, Attached, TypeOK
  <2>3. \A d \in Clients \ {c} : conn'[d] = conn[d]
    BY <1>2 DEF Connect, Await, Attached, TypeOK
  <2>. QED  BY <2>1, <2>2, <2>3, AttachInUse
<1>3. ASSUME NEW c \in Clients, NEW r \in Clients, RefuseAnonymous(c, r) PROVE InUse'
  <2>1. held' = [held EXCEPT ![c] = r] /\ At(c, "session")
    BY <1>3, AttachFits DEF RefuseAnonymous
  <2>. QED
    BY <1>3, <2>1, ClosingInUse DEF RefuseAnonymous, Dismissed, Attached, TypeOK
<1>4. ASSUME NEW c \in Clients, Refuse(c) PROVE InUse'
  <2>1. held[c] \in Clients
    BY <1>4 DEF Refuse, Attached, HeldFits, At
  <2>. QED
    BY <1>4, <2>1, ClosingInUse DEF Refuse, Dismissed
<1>5. ASSUME NEW c \in Clients, Admit(c) PROVE InUse'
  <2>. SUFFICES ASSUME phase # "exited", NEW s \in Clients, FileRoute(s)' PROVE Serves(s)'
    BY <1>5 DEF InUse, Admit
  <2>1. Serves(s) /\ UNCHANGED <<held, routes>>
    BY <1>5 DEF InUse, FileRoute, routes, Admit
  <2>2. PICK d \in Clients : held[d] = s /\ conn[d] \in Serving
    BY <2>1 DEF Serves
  <2>3. conn'[d] \in Serving
    BY <1>5, <2>1, <2>2 DEF Admit, Handshake, Serves, Attached, TypeOK, Serving, Connected
  <2>. QED  BY <2>1, <2>2, <2>3 DEF Serves, routes
<1>6. ASSUME NEW c \in Clients, Closed(c) PROVE InUse'
  <2>1. held[c] \in Clients
    BY <1>6 DEF Closed, Attached, HeldFits, Connected
  <2>2. CASE LastToLeave(c)
    BY <1>6, <2>1, <2>2, ClosingInUse DEF Closed, Gone
  <2>3. CASE ~LastToLeave(c)
    BY <1>6, <2>3, LeavingInUse DEF Closed, Gone
  <2>. QED  BY <2>2, <2>3
<1>7. ASSUME NEW p \in People, NEW u \in Urls, Revoke(p, u) PROVE InUse'
  BY <1>7, QuietInUse DEF Revoke
<1>8. CASE Interrupt \/ Stop \/ Stopped \/ Rest \/ UNCHANGED vars
  BY <1>8, QuietInUse DEF Interrupt, Stop, Stopped, Rest, vars, routes
<1>9. CASE Cleanup
  BY <1>9 DEF Cleanup, InUse
<1>10. ASSUME NEW c \in Clients, Reset(c) PROVE InUse'
  BY <1>10 DEF Reset, InUse, FileRoute
<1>11. CASE VisitorStep
  BY <1>11, VisitorsStill, QuietInUse DEF Still
<1>. QED
  BY <1>1, <1>2, <1>3, <1>4, <1>5, <1>6, <1>7, <1>8, <1>9, <1>10, <1>11
  DEF Next, Serve, ShutDown, VisitorStep

\* A listed route of a file runs, is the only one of its URL and has somebody on
\* it: no upgrade joins a route that was left or closed.
THEOREM FileRoutesServe == Spec => []FileRoutesInUse
<1>1. Init => InUse
  BY DEF Init, InUse, FileRoute
<1>2. Attached /\ InUse => FileRoutesInUse
  BY InUseIsFileRoutesInUse DEF Attached
<1>. QED  BY <1>1, <1>2, InitAttached, StepAttached, StepInUse, PTL DEF Spec

-----------------------------------------------------------------------------
\* Leaving disturbs nobody

\* Nothing begins once the server has ended, and nothing is left to go on.
LEMMA StepEnded == Attached /\ EndedAlone /\ [Next]_vars => EndedAlone'
<1>. SUFFICES ASSUME Attached, EndedAlone, [Next]_vars, phase' \in {"stopped"} \cup Ended
              PROVE  ~Used'
  BY DEF EndedAlone
<1>1. CASE Stopped
  BY <1>1 DEF Stopped, Used, routes
<1>2. ASSUME NEW c \in Clients, Reset(c) PROVE ~Used'
  <2>1. \A d \in Clients : conn'[d] \notin Pending \cup Connected
    BY <1>2 DEF Reset, Pending, Connected
  <2>2. \A v \in Visitors : plain'[v] \notin Plugged
    BY <1>2 DEF Reset, Plugged
  <2>. QED  BY <2>1, <2>2 DEF Used
<1>3. CASE Cleanup
  BY <1>3 DEF Cleanup, EndedAlone, Used, At, Connected
<1>4. CASE Rest \/ UNCHANGED vars
  BY <1>4 DEF Rest, vars, EndedAlone, Used
<1>5. CASE UNCHANGED phase /\ (\E c \in Clients : Upgrade(c) \/ Serve(c) \/ Leave(c) \/ Drop(c))
  <2>1. \A c \in Clients : conn[c] \notin Pending \cup Connected
    BY <1>5 DEF EndedAlone, Used
  <2>. QED
    BY <1>5, <2>1
    DEF Upgrade, Serve, Leave, Drop, RefuseSession, NotFound, Admit, Refuse, Closed, Connect,
        Await, RefuseAnonymous, Attach, MayGoOn, At, Pending, Connected, Ended
<1>6. CASE \E p \in People, u \in Urls : Revoke(p, u)
  BY <1>6 DEF Revoke, EndedAlone, Used
<1>7. CASE VisitorStep
  <2>1. UNCHANGED phase
    BY <1>7, VisitorsStill DEF Still
  <2>2. \A v \in Visitors : plain[v] \notin Plugged
    BY <2>1 DEF EndedAlone, Used
  <2>. QED
    BY <1>7, <2>1, <2>2
    DEF VisitorStep, Answering, Visit, Ask, Stall, AnswerPlain, HangUp, Abandon, Plug, Plugged,
        Ended
<1>8. CASE Interrupt \/ Stop
  BY <1>8 DEF Interrupt, Stop, Ended
<1>9. ASSUME NEW c \in Clients, Upgrade(c) \/ Serve(c) \/ Leave(c) \/ Drop(c)
      PROVE  UNCHANGED phase
  BY <1>9 DEF Upgrade, Serve, Leave, Drop, RefuseSession, NotFound, Admit, Refuse, Closed,
              Connect, Await, RefuseAnonymous
<1>. QED
  BY <1>1, <1>2, <1>3, <1>4, <1>5, <1>6, <1>7, <1>8, <1>9 DEF Next, ShutDown, VisitorStep

\* A step that closes an open client's connection refuses an upgrade at its URL,
\* or ends the process.
LEMMA StepDisturbs ==
    ASSUME Attached, EndedAlone, [Next]_vars, NEW c \in Clients, At(c, "open"),
           conn'[c] \notin {"open", "leaving"}, phase' # "crashed"
    PROVE  \E d \in Clients : Url[d] = Url[c] /\ ~At(d, "403") /\ conn'[d] = "403"
<1>1. CASE \E d \in Clients, r \in Clients : RefuseAnonymous(d, r)
  <2>1. PICK d \in Clients, r \in Clients : RefuseAnonymous(d, r)
    BY <1>1
  <2>2. Url[r] = Url[d] /\ At(d, "session")
    BY <2>1, AttachFits DEF RefuseAnonymous
  <2>3. conn'[d] = "403" /\ c \in OpenAt(Url[r])
    BY <2>1, <2>2 DEF RefuseAnonymous, Dismissed, At, OpenAt
  <2>. QED  BY <2>2, <2>3 DEF OpenAt, At
<1>2. CASE \E d \in Clients : Refuse(d)
  <2>1. PICK d \in Clients : Refuse(d)
    BY <1>2
  <2>2. Url[held[d]] = Url[d] /\ At(d, "authorise")
    BY <2>1, SentinelsDistinct DEF Refuse, Attached, HeldFits, At
  <2>3. conn'[d] = "403" /\ c \in OpenAt(Url[held[d]])
    BY <2>1 DEF Refuse, Dismissed, At
  <2>. QED  BY <2>2, <2>3 DEF OpenAt, At
<1>3. ASSUME NEW d \in Clients, Closed(d) PROVE FALSE
  <2>1. CASE LastToLeave(d)
    <3>1. c # d /\ c \in OpenAt(Url[d])
      BY <1>3, <2>1 DEF Closed, Gone, At, OpenAt
    <3>. QED  BY <2>1, <3>1 DEF LastToLeave
  <2>2. CASE ~LastToLeave(d)
    BY <1>3, <2>2 DEF Closed, Gone, At, Attached, TypeOK
  <2>. QED  BY <2>1, <2>2
<1>4. CASE Cleanup
  BY <1>4 DEF Cleanup, EndedAlone, Used, At, Connected
<1>5. ASSUME NEW d \in Clients, NEW r \in Clients, Connect(d, r) \/ Await(d, r) \/ Admit(d)
      PROVE  FALSE
  BY <1>5 DEF Connect, Await, Admit, Attach, MayGoOn, Handshake, At, Attached, TypeOK
<1>6. ASSUME NEW d \in Clients,
             Upgrade(d) \/ RefuseSession(d) \/ NotFound(d) \/ Drop(d) \/ Leave(d)
      PROVE  FALSE
  BY <1>6 DEF Upgrade, RefuseSession, NotFound, MayGoOn, Drop, Leave, At, Attached, TypeOK, Pending
<1>7. CASE UNCHANGED conn
  BY <1>7 DEF At
<1>8. ASSUME NEW d \in Clients, Reset(d) PROVE FALSE
  BY <1>8 DEF Reset
<1>9. CASE VisitorStep
  BY <1>7, <1>9, VisitorsStill DEF Still
<1>. QED
  BY <1>1, <1>2, <1>3, <1>4, <1>5, <1>6, <1>7, <1>8, <1>9
  DEF Next, Serve, ShutDown, Revoke, Interrupt, Stop, Stopped, Rest, vars, VisitorStep

\* One client that leaves never costs another its connection: that takes a
\* refusal at the same URL, or the end of the process.
THEOREM NobodyDisturbed == Spec => LeavingDisturbsNobody
<1>1. Init => EndedAlone
  BY DEF Init, EndedAlone, Ended
<1>2. Attached /\ EndedAlone /\ [Next]_vars =>
          [\A c \in Clients :
             (At(c, "open") /\ conn'[c] \notin {"open", "leaving"}) =>
                 \/ \E d \in Clients : Url[d] = Url[c] /\ ~At(d, "403") /\ conn'[d] = "403"
                 \/ phase' = "crashed"]_vars
  BY StepDisturbs
<1>. QED  BY <1>1, <1>2, InitAttached, StepAttached, StepEnded, PTL DEF Spec, LeavingDisturbsNobody
=============================================================================
