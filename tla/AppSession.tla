------------------------------ MODULE AppSession ------------------------------
(***************************************************************************)
(* Sessions and login: the session cache of src/src/session/AppSession.ts  *)
(* in front of the session store, driven by the handlers of                *)
(* SessionHttpRoute.ts and authentication/Oidc.ts in multi-user mode.      *)
(*                                                                         *)
(* A request is a process.  Looking into the cache and writing to it is    *)
(* synchronous; a store operation takes effect between the step that       *)
(* starts it and the step that runs on its answer, so the cache may change *)
(* in between.  A restart empties the cache and the map of OAuth states.   *)
(***************************************************************************)
EXTENDS Naturals, FiniteSets

CONSTANTS
    Sids,       \* session ids (uuids)
    States,     \* values of the OAuth2 `state` parameter (random)
    People,     \* users of the identity provider
    Nobody, NoSession, NoSid, NoState,
    Requests, Call,   \* Call[r]: what request r asks for
    Scripts           \* bound: what is asked for together, see Script

VARIABLES
    cache,   \* Sids -> session or NoSession: AppSession.cache
    store,   \* Sids -> session or NoSession: the session store
    auth,    \* States -> sid or NoSid: AppSession.auth
    users,   \* people with a record in the user store
    stale,   \* cached sessions not used for `ttl`
    tokens,  \* sids whose token a client holds
    ended,   \* history: sids given up by a delete or a renewal
    signed,  \* history: <<sid, person>>, who signed in to a session
    opened,  \* states the browser has taken to the provider
    script,  \* the script this behaviour follows
    req      \* Requests -> the local state of the handler

vars == <<cache, store, auth, users, stale, tokens, ended, signed, opened, script, req>>
server == <<cache, store, auth, users, stale>>
outside == <<tokens, ended, signed, opened, script>>

-----------------------------------------------------------------------------
\* Data

\* uid = Nobody: `authenticated: false`.  state stands for the `state` and the
\* `nonce` that addOAuthSession puts into the object.
Session == [uid : People \cup {Nobody}, state : States \cup {NoState}]
Anonymous == [uid |-> Nobody, state |-> NoState]

\* Mutant of Authenticated: an object without the fields of an anonymous one.
AuthenticatedBare(person) == [uid |-> person]

Authenticated(person) == [uid |-> person, state |-> NoState]

\* start: POST /sessions; use: any request that needs the user; login: POST
\* /auth/login; open: GET /auth/login?state; callback: the provider's redirect;
\* renew: POST /sessions/renew; end: DELETE /sessions.
Kinds == {"start", "use", "login", "open", "callback", "renew", "end"}
CallType == [kind : Kinds, sid : Sids, new : Sids, state : States,
             person : People]

WithToken == {"use", "login", "renew", "end"}

Busy == {"set", "get", "read", "fill", "user", "reget", "reread", "refill",
         "exchange", "putlogin", "adduser", "del", "reissue", "put"}
Answers == {"ok", "denied", "failed", "lost"}

RequestState == [pc : {"idle"} \cup Busy \cup Answers,
                 got : Session \cup {NoSession}, sid : Sids \cup {NoSid}]

\* The requests that are made, how many are served at once, and whether the
\* process may die while they are.
Script == [made : SUBSET Requests, width : Nat \ {0}, crash : BOOLEAN]

ASSUME CallsTyped == Call \in [Requests -> CallType]
ASSUME SentinelsDistinct == /\ Nobody \notin People /\ NoSession \notin Session
                            /\ NoSid \notin Sids /\ NoState \notin States
ASSUME ScriptsTyped == Scripts \subseteq Script
\* Session ids are uuids and states are random: each is made once.
ASSUME FreshIds ==
    \A r, q \in Requests :
        /\ (Call[r].kind = "start" /\ Call[q].kind = "start" /\ Call[r].sid = Call[q].sid) => r = q
        /\ (Call[r].kind = "start" /\ Call[q].kind = "renew") => Call[r].sid # Call[q].new
        /\ (Call[r].kind = "login" /\ Call[q].kind = "login" /\ Call[r].state = Call[q].state) => r = q
ASSUME RequestsFinite == IsFiniteSet(Requests)

-----------------------------------------------------------------------------
InFlight == {r \in Requests : req[r].pc \in Busy}
Rest == [pc |-> "idle", got |-> NoSession, sid |-> NoSid]

At(r, pc) == req[r].pc = pc
Goto(r, pc) == req' = [req EXCEPT ![r].pc = pc]
Answer(r, code) == req' = [req EXCEPT ![r] = [Rest EXCEPT !.pc = code]]

\* cache.set(sid, {data, lastAccess: now})
Cached(sid, session) == /\ cache' = [cache EXCEPT ![sid] = session]
                        /\ stale' = stale \ {sid}

Init ==
    /\ cache = [s \in Sids |-> NoSession]
    /\ store = [s \in Sids |-> NoSession]
    /\ auth = [s \in States |-> NoSid]
    /\ users = {} /\ stale = {} /\ tokens = {} /\ ended = {}
    /\ signed = {} /\ opened = {}
    /\ script \in Scripts
    /\ req = [r \in Requests |-> Rest]

\* Which requests the outside may make: with a token some client holds, with a
\* state handed to a client, with one the provider was sent, or with neither.
MayArrive(r) ==
    /\ At(r, "idle") /\ r \in script.made
    /\ CASE Call[r].kind = "start" -> TRUE
         [] Call[r].kind \in WithToken -> Call[r].sid \in tokens
         [] Call[r].kind = "open" ->
               \E q \in Requests : /\ Call[q].kind = "login" /\ At(q, "ok")
                                   /\ Call[q].state = Call[r].state
         [] Call[r].kind = "callback" -> Call[r].state \in opened

Arrives(r, kinds) == /\ Call[r].kind \in kinds /\ MayArrive(r)
                     /\ Cardinality(InFlight) < script.width

Begin(r) ==
    /\ Arrives(r, {"start"} \cup WithToken)
    /\ req' = [req EXCEPT ![r] =
          IF Call[r].kind = "start" THEN [Rest EXCEPT !.pc = "set"]
          ELSE [Rest EXCEPT !.pc = "get", !.sid = Call[r].sid]]
    /\ UNCHANGED <<server, outside>>

\* generateUnauthenticatedSession: into the cache, then commit.
Start(r) ==
    /\ At(r, "set")
    /\ Cached(Call[r].sid, Anonymous)
    /\ req' = [req EXCEPT ![r] = [pc |-> "put", got |-> Anonymous, sid |-> Call[r].sid]]
    /\ UNCHANGED <<store, auth, users, outside>>

-----------------------------------------------------------------------------
\* AppSession.get, called by the middleware ("get") and again by addOAuthSession
\* and getOAuthSession ("reget")

\* What follows when the session is known (or known to be missing).
Middleware(r, session) ==
    IF session # NoSession /\ session.uid # Nobody
    THEN req' = [req EXCEPT ![r] = [@ EXCEPT !.pc = "user", !.got = session]]
    ELSE IF Call[r].kind = "login"
    THEN req' = [req EXCEPT ![r] = [@ EXCEPT !.pc = "reget", !.got = NoSession]]
    ELSE Answer(r, "denied")

\* addOAuthSession changes the object the cache holds and commits nothing.
AddOAuth(r, session) ==
    /\ cache' = [cache EXCEPT ![req[r].sid] = [session EXCEPT !.state = Call[r].state]]
    /\ auth' = [auth EXCEPT ![Call[r].state] = req[r].sid]
    /\ Answer(r, "ok")
    /\ UNCHANGED <<store, users, outside>>

\* authRequestHandler redirects to the provider when the session has a nonce.
Redirect(r, session) ==
    /\ IF session.state # NoState
       THEN opened' = opened \cup {Call[r].state} /\ Answer(r, "ok")
       ELSE UNCHANGED opened /\ Answer(r, "denied")
    /\ UNCHANGED <<store, auth, users, tokens, ended, signed, script>>

\* The cache has it: lastAccess is now.
Hit(r) ==
    /\ req[r].pc \in {"get", "reget"} /\ cache[req[r].sid] # NoSession
    /\ stale' = stale \ {req[r].sid}
    /\ LET session == cache[req[r].sid]
       IN  \/ /\ At(r, "get")
              /\ Middleware(r, session)
              /\ UNCHANGED <<cache, store, auth, users, outside>>
           \/ At(r, "reget") /\ Call[r].kind = "login" /\ AddOAuth(r, session)
           \/ /\ At(r, "reget") /\ Call[r].kind = "open"
              /\ Redirect(r, session) /\ UNCHANGED cache

Miss(r) ==
    /\ req[r].pc \in {"get", "reget"} /\ cache[req[r].sid] = NoSession
    /\ Goto(r, IF At(r, "get") THEN "read" ELSE "reread")
    /\ UNCHANGED <<server, outside>>

\* Mutant of ReadStore: it asks again until the store has the session.
ReadUntilThere(r) ==
    /\ req[r].pc \in {"read", "reread"}
    /\ IF store[req[r].sid] = NoSession THEN UNCHANGED vars
       ELSE /\ req' = [req EXCEPT ![r].got = store[req[r].sid],
                                  ![r].pc = IF At(r, "read") THEN "fill" ELSE "refill"]
            /\ UNCHANGED <<server, outside>>

\* The store answers ...
ReadStore(r) ==
    /\ req[r].pc \in {"read", "reread"}
    /\ req' = [req EXCEPT ![r].got = store[req[r].sid],
                          ![r].pc = IF At(r, "read") THEN "fill" ELSE "refill"]
    /\ UNCHANGED <<server, outside>>

\* ... and what it answered goes into the cache, whatever the cache holds now.
Fill(r) ==
    /\ req[r].pc \in {"fill", "refill"}
    /\ LET session == req[r].got
       IN  IF session = NoSession
           THEN /\ IF At(r, "fill") THEN Middleware(r, NoSession)
                   ELSE Answer(r, "denied")
                /\ UNCHANGED <<server, outside>>
           ELSE \/ /\ At(r, "fill") /\ Cached(req[r].sid, session)
                   /\ Middleware(r, session)
                   /\ UNCHANGED <<store, auth, users, outside>>
                \/ /\ At(r, "refill") /\ Call[r].kind = "login"
                   /\ stale' = stale \ {req[r].sid} /\ AddOAuth(r, session)
                \/ /\ At(r, "refill") /\ Call[r].kind = "open"
                   /\ Cached(req[r].sid, session) /\ Redirect(r, session)

\* The middleware reads the user; renewing and ending need one, and so does
\* whatever `use` stands for.  delete takes the session out of the cache first.
LoadUser(r) ==
    /\ At(r, "user")
    /\ IF Call[r].kind = "login"
       THEN /\ req' = [req EXCEPT ![r] = [@ EXCEPT !.pc = "reget", !.got = NoSession]]
            /\ UNCHANGED <<cache, stale, ended>>
       ELSE IF req[r].got.uid \notin users
       THEN Answer(r, "denied") /\ UNCHANGED <<cache, stale, ended>>
       ELSE IF Call[r].kind = "use"
       THEN Answer(r, "ok") /\ UNCHANGED <<cache, stale, ended>>
       ELSE /\ cache' = [cache EXCEPT ![req[r].sid] = NoSession]
            /\ stale' = stale \ {req[r].sid}
            /\ ended' = ended \cup {req[r].sid}
            /\ Goto(r, "del")
    /\ UNCHANGED <<store, auth, users, tokens, signed, opened, script>>

-----------------------------------------------------------------------------
\* Renewing and ending

DeleteStored(r) ==
    /\ At(r, "del")
    /\ store' = [store EXCEPT ![req[r].sid] = NoSession]
    /\ IF Call[r].kind = "end" THEN Answer(r, "ok") ELSE Goto(r, "reissue")
    /\ UNCHANGED <<cache, auth, users, stale, outside>>

\* generateAuthenticatedSession goes on with a new id for the same user.
Reissue(r) ==
    /\ At(r, "reissue")
    /\ Cached(Call[r].new, Authenticated(req[r].got.uid))
    /\ signed' = signed \cup {<<Call[r].new, p>> :
                                p \in {q \in People : <<req[r].sid, q>> \in signed}}
    /\ req' = [req EXCEPT ![r] =
          [pc |-> "put", got |-> Authenticated(req[r].got.uid), sid |-> Call[r].new]]
    /\ UNCHANGED <<store, auth, users, tokens, ended, opened, script>>

\* Mutants of PutNew: the session cached under the old id is committed, or the
\* commit is not waited for.
PutCached(r) ==
    /\ At(r, "put")
    /\ store' = [store EXCEPT ![req[r].sid] = cache[Call[r].sid]]
    /\ tokens' = tokens \cup {req[r].sid}
    /\ Answer(r, "ok")
    /\ UNCHANGED <<cache, auth, users, stale, ended, signed, opened, script>>

PutNothing(r) ==
    /\ At(r, "put")
    /\ tokens' = tokens \cup {req[r].sid}
    /\ Answer(r, "ok")
    /\ UNCHANGED <<server, ended, signed, opened, script>>

\* commit of a new session; the client then gets its token.
PutNew(r) ==
    /\ At(r, "put")
    /\ store' = [store EXCEPT ![req[r].sid] = req[r].got]
    /\ tokens' = tokens \cup {req[r].sid}
    /\ Answer(r, "ok")
    /\ UNCHANGED <<cache, auth, users, stale, ended, signed, opened, script>>

-----------------------------------------------------------------------------
\* The browser's requests: no token, only the state

Open(r) ==
    /\ Arrives(r, {"open"})
    /\ IF auth[Call[r].state] = NoSid THEN Answer(r, "denied")
       ELSE req' = [req EXCEPT ![r] =
                [Rest EXCEPT !.pc = "reget", !.sid = auth[Call[r].state]]]
    /\ UNCHANGED <<server, outside>>

\* Mutant of Callback: the state stays valid.
CallbackKeepsState(r) ==
    /\ Arrives(r, {"callback"})
    /\ IF auth[Call[r].state] = NoSid THEN Answer(r, "failed")
       ELSE req' = [req EXCEPT ![r] =
                [Rest EXCEPT !.pc = "exchange", !.sid = auth[Call[r].state]]]
    /\ UNCHANGED <<server, outside>>

\* callbackHandler: the state is given up before anything is awaited.
Callback(r) ==
    /\ Arrives(r, {"callback"})
    /\ IF auth[Call[r].state] = NoSid
       THEN Answer(r, "failed") /\ UNCHANGED auth
       ELSE /\ auth' = [auth EXCEPT ![Call[r].state] = NoSid]
            /\ req' = [req EXCEPT ![r] =
                  [Rest EXCEPT !.pc = "exchange", !.sid = auth[Call[r].state]]]
    /\ UNCHANGED <<cache, store, users, stale, outside>>

\* The provider refuses the code or its user info ...
ExchangeFails(r) ==
    /\ At(r, "exchange")
    /\ Answer(r, "failed")
    /\ UNCHANGED <<server, outside>>

\* ... or names the person: session.set puts a new object into the cache.
ExchangeSucceeds(r) ==
    /\ At(r, "exchange")
    /\ Cached(req[r].sid, Authenticated(Call[r].person))
    /\ signed' = signed \cup {<<req[r].sid, Call[r].person>>}
    /\ Goto(r, "putlogin")
    /\ UNCHANGED <<store, auth, users, tokens, ended, opened, script>>

\* Mutant of PutLogin: the login is cached and not committed.
PutLoginLost(r) ==
    /\ At(r, "putlogin")
    /\ Goto(r, "adduser")
    /\ UNCHANGED <<server, outside>>

PutLogin(r) ==
    /\ At(r, "putlogin")
    /\ store' = [store EXCEPT ![req[r].sid] = Authenticated(Call[r].person)]
    /\ Goto(r, "adduser")
    /\ UNCHANGED <<cache, auth, users, stale, outside>>

\* Mutant of AddUser: a user is stored with the first login only.
AddFirstUser(r) ==
    /\ At(r, "adduser")
    /\ users' = IF users = {} THEN {Call[r].person} ELSE users
    /\ req' = [req EXCEPT ![r] = [@ EXCEPT !.pc = "ok", !.got = NoSession]]
    /\ UNCHANGED <<cache, store, auth, stale, outside>>

\* The user is stored last; then the client is told "OK".
AddUser(r) ==
    /\ At(r, "adduser")
    /\ users' = users \cup {Call[r].person}
    /\ req' = [req EXCEPT ![r] = [@ EXCEPT !.pc = "ok", !.got = NoSession]]
    /\ UNCHANGED <<cache, store, auth, stale, outside>>

-----------------------------------------------------------------------------
\* Time and failure

\* `ttl` passes with nothing served, but perhaps the provider being waited for.
HourPasses ==
    /\ \A r \in InFlight : At(r, "exchange")
    /\ \E s \in Sids : cache[s] # NoSession /\ s \notin stale
    /\ stale' = {s \in Sids : cache[s] # NoSession}
    /\ UNCHANGED <<cache, store, auth, users, outside, req>>

Gc == /\ \E s \in stale : cache[s] # NoSession
      /\ cache' = [s \in Sids |-> IF s \in stale THEN NoSession ELSE cache[s]]
      /\ stale' = {}
      /\ UNCHANGED <<store, auth, users, outside, req>>

Restart ==
    /\ script.crash \/ InFlight = {}
    /\ \/ \E s \in Sids : cache[s] # NoSession
       \/ \E s \in States : auth[s] # NoSid
       \/ InFlight # {}
    /\ cache' = [s \in Sids |-> NoSession]
    /\ auth' = [s \in States |-> NoSid]
    /\ stale' = {}
    /\ req' = [r \in Requests |-> IF r \in InFlight
                                  THEN [Rest EXCEPT !.pc = "lost"] ELSE req[r]]
    /\ UNCHANGED <<store, users, outside>>

\* No request is being served and none can arrive any more.
Quiet == /\ InFlight = {}
         /\ \A r \in Requests : ~MayArrive(r)
         /\ UNCHANGED vars

Serve(r) ==
    \/ Start(r) \/ Hit(r) \/ Miss(r) \/ ReadStore(r) \/ Fill(r) \/ LoadUser(r)
    \/ DeleteStored(r) \/ Reissue(r) \/ PutNew(r) \/ PutLogin(r) \/ AddUser(r)

Next == \/ \E r \in Requests :
              \/ Begin(r) \/ Open(r) \/ Callback(r)
              \/ ExchangeFails(r) \/ ExchangeSucceeds(r) \/ Serve(r)
        \/ HourPasses \/ Gc \/ Restart \/ Quiet

Spec == Init /\ [][Next]_vars

\* The event loop does not rest while the store has answered some request.
\* Nothing obliges the provider to answer: its requests have no timeout.
FairSpec == Spec /\ WF_vars(\E r \in Requests : Serve(r))
-----------------------------------------------------------------------------
\* Properties

\* The variables keep their types; only what is cached can be stale.
TypeOK ==
    /\ cache \in [Sids -> Session \cup {NoSession}]
    /\ store \in [Sids -> Session \cup {NoSession}]
    /\ auth \in [States -> Sids \cup {NoSid}]
    /\ users \subseteq People
    /\ stale \subseteq Sids
    /\ tokens \subseteq Sids /\ ended \subseteq Sids
    /\ signed \subseteq Sids \X People
    /\ opened \subseteq States
    /\ script \in Scripts
    /\ req \in [Requests -> RequestState]

\* A session never authenticates anyone who did not sign in to it, or to the
\* session it was renewed from, however cache, store and the requests that
\* still carry an old copy get out of step.
SessionsBelongToSigners ==
    \A s \in Sids : \A session \in {cache[s], store[s]} :
        (session # NoSession /\ session.uid # Nobody) => <<s, session.uid>> \in signed

\* The browser may load the callback twice, and two browsers may race: a state
\* buys one exchange of the code (callbackHandler gives the state up before it
\* awaits the provider).
StateRedeemedOnce ==
    \A r, q \in Requests :
        (r # q /\ Call[r].kind = "callback" /\ Call[q].kind = "callback"
               /\ Call[r].state = Call[q].state)
            => ~(/\ req[r].pc \in {"exchange", "putlogin", "adduser", "ok"}
                 /\ req[q].pc \in {"exchange", "putlogin", "adduser", "ok"})

\* A token is handed out only for a session that outlives the process: until
\* it is ended the store has the session (commit is awaited before the answer).
TokensDurable == \A s \in tokens \ ended : store[s] # NoSession

\* Once a client was told "OK", across every crash and with a second login on
\* the same session under way, the person's record is stored and the session is
\* stored as somebody's, unless the session was ended (Oidc.ts:341-345 awaits
\* both writes first).
SignInDurable ==
    \A r \in Requests :
        (Call[r].kind = "callback" /\ At(r, "ok") /\ req[r].sid \notin ended)
            => /\ store[req[r].sid] # NoSession
               /\ store[req[r].sid].uid # Nobody
               /\ Call[r].person \in users

\* What AppSession.get answers, apart from the login in progress.
View(s) == IF cache[s] # NoSession THEN cache[s].uid
           ELSE IF store[s] # NoSession THEN store[s].uid
           ELSE NoSession

\* The cache is invisible as long as requests come one at a time: evicting,
\* restarting and filling never change what a session is; only a request that
\* starts, signs in, renews or ends that very session does.
CacheInvisible ==
    [][script.width = 1 =>
       \A s \in Sids : View(s)' # View(s) =>
          \E r \in InFlight :
              /\ req'[r] # req[r]
              /\ Call[r].kind \in {"start", "callback", "renew", "end"}
              /\ s \in {req[r].sid, Call[r].new, Call[r].sid}]_vars

\* Every request is answered; a login may wait for the provider for ever, but
\* from its answer on it completes: again and again nobody waits for anything
\* but the provider.
EveryRequestAnswered == []<>(\A r \in InFlight : At(r, "exchange"))

\* Sessions.test.ts:82, once a DELETE was answered, "make any request, should
\* not authenticate".
EndedStaysEnded ==
    \A r \in Requests :
        (Call[r].kind = "end" /\ At(r, "ok")) => View(Call[r].sid) \notin People
=============================================================================
