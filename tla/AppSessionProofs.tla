--------------------------- MODULE AppSessionProofs ---------------------------
(***************************************************************************)
(* Theorems about AppSession, for any sessions, states, people, requests   *)
(* and scripts: the types, whom a session authenticates, that a state is   *)
(* redeemed once, and what outlives the process.                           *)
(***************************************************************************)
EXTENDS AppSession, FiniteSetTheorems, TLAPS

\* What the program counter of a request says of its local state.
OnTrack ==
    \A r \in Requests :
        /\ req[r].pc \in Busy \ {"set"} => req[r].sid \in Sids
        /\ req[r].pc \in {"user", "del", "reissue"} =>
              req[r].got # NoSession /\ req[r].got.uid \in People
        /\ req[r].pc = "put" => req[r].got # NoSession
        /\ req[r].pc = "set" => Call[r].kind = "start"
        /\ req[r].pc \in {"exchange", "putlogin", "adduser"} => Call[r].kind = "callback"

Typed == TypeOK /\ OnTrack

-----------------------------------------------------------------------------
LEMMA CallTypes ==
    ASSUME NEW r \in Requests
    PROVE  /\ Call[r].kind \in Kinds /\ Call[r].sid \in Sids /\ Call[r].new \in Sids
           /\ Call[r].state \in States /\ Call[r].person \in People
  BY CallsTyped DEF CallType

LEMMA SessionTypes ==
    /\ Anonymous \in Session /\ Anonymous.uid = Nobody
    /\ \A p \in People : Authenticated(p) \in Session /\ Authenticated(p).uid = p
    /\ \A session \in Session, state \in States :
          LET changed == [session EXCEPT !.state = state]
          IN  changed \in Session /\ changed.uid = session.uid
  BY DEF Anonymous, Authenticated, Session

LEMMA RestTyped == Rest \in RequestState /\ Rest.sid = NoSid /\ Rest.got = NoSession
  BY DEF Rest, RequestState

LEMMA PairsTyped ==
    ASSUME NEW S, NEW T, NEW s \in S, NEW U \in SUBSET T
    PROVE  {<<s, p>> : p \in U} \subseteq S \X T
  <1>1. ASSUME NEW e \in {<<s, p>> : p \in U} PROVE e \in S \X T
    <2>1. PICK p \in U : e = <<s, p>>
      OBVIOUS
    <2>. QED  BY <2>1
  <1>. QED  BY <1>1

LEMMA InitTyped == Init => Typed
<1>. SUFFICES ASSUME Init PROVE Typed
  OBVIOUS
<1>1. TypeOK
  BY RestTyped DEF Init, TypeOK
<1>2. OnTrack
  BY DEF Init, OnTrack, Rest, Busy
<1>. QED  BY <1>1, <1>2 DEF Typed

\* How a step may change a request: only that one, to a typed state that is on track.
Becomes(r, x) ==
    /\ req' = [req EXCEPT ![r] = x]
    /\ x \in RequestState
    /\ x.pc \in Busy \ {"set"} => x.sid \in Sids
    /\ x.pc \in {"user", "del", "reissue"} => x.got # NoSession /\ x.got.uid \in People
    /\ x.pc = "put" => x.got # NoSession
    /\ x.pc = "set" => Call[r].kind = "start"
    /\ x.pc \in {"exchange", "putlogin", "adduser"} => Call[r].kind = "callback"

LEMMA BecomesTyped ==
    ASSUME Typed, NEW r \in Requests, NEW x, Becomes(r, x)
    PROVE  req' \in [Requests -> RequestState] /\ OnTrack'
  BY DEF Typed, TypeOK, OnTrack, Becomes

LEMMA AnswerBecomes ==
    ASSUME NEW r \in Requests, NEW code \in Answers, Answer(r, code)
    PROVE  Becomes(r, [Rest EXCEPT !.pc = code])
  BY DEF Answer, Becomes, Rest, RequestState, Answers, Busy

LEMMA MiddlewareBecomes ==
    ASSUME Typed, NEW r \in Requests, NEW session \in Session \cup {NoSession},
           req[r].sid \in Sids, Middleware(r, session)
    PROVE  \E x : Becomes(r, x)
<1>1. req[r] \in RequestState
  BY DEF Typed, TypeOK
<1>2. CASE session # NoSession /\ session.uid # Nobody
  <2>1. session \in Session /\ session.uid \in People
    BY <1>2 DEF Session
  <2>2. Becomes(r, [req[r] EXCEPT !.pc = "user", !.got = session])
    BY <1>1, <1>2, <2>1 DEF Middleware, Becomes, RequestState, Busy
  <2>. QED  BY <2>2
<1>3. CASE ~(session # NoSession /\ session.uid # Nobody) /\ Call[r].kind = "login"
  <2>1. Becomes(r, [req[r] EXCEPT !.pc = "reget", !.got = NoSession])
    BY <1>1, <1>3 DEF Middleware, Becomes, RequestState, Busy
  <2>. QED  BY <2>1
<1>4. CASE ~(session # NoSession /\ session.uid # Nobody) /\ Call[r].kind # "login"
  BY <1>4, AnswerBecomes DEF Middleware, Answers
<1>. QED  BY <1>2, <1>3, <1>4

\* A step that makes one request go on and leaves the typed rest typed.
LEMMA ServedTyped ==
    ASSUME Typed, NEW r \in Requests, NEW x, Becomes(r, x),
           cache' \in [Sids -> Session \cup {NoSession}],
           store' \in [Sids -> Session \cup {NoSession}],
           auth' \in [States -> Sids \cup {NoSid}], users' \subseteq People,
           stale' \subseteq Sids, tokens' \subseteq Sids, ended' \subseteq Sids,
           signed' \subseteq Sids \X People, opened' \subseteq States, UNCHANGED script
    PROVE  Typed'
  BY BecomesTyped DEF Typed, TypeOK

LEMMA OthersTyped ==
    ASSUME Typed
    PROVE  /\ cache \in [Sids -> Session \cup {NoSession}]
           /\ store \in [Sids -> Session \cup {NoSession}]
           /\ auth \in [States -> Sids \cup {NoSid}] /\ users \subseteq People
           /\ stale \subseteq Sids /\ tokens \subseteq Sids /\ ended \subseteq Sids
           /\ signed \subseteq Sids \X People /\ opened \subseteq States
           /\ req \in [Requests -> RequestState]
           /\ \A s \in Sids, t \in Session \cup {NoSession} :
                 /\ [cache EXCEPT ![s] = t] \in [Sids -> Session \cup {NoSession}]
                 /\ [store EXCEPT ![s] = t] \in [Sids -> Session \cup {NoSession}]
           /\ \A s \in Sids, t \in States :
                 [auth EXCEPT ![t] = s] \in [States -> Sids \cup {NoSid}]
  BY DEF Typed, TypeOK

-----------------------------------------------------------------------------
\* Types: one lemma for each action

LEMMA ArrivalTyped ==
    ASSUME Typed, NEW r \in Requests, Begin(r) \/ Open(r) \/ Callback(r)
    PROVE  Typed'
<1>1. CASE Begin(r)
  <2>1. Becomes(r, IF Call[r].kind = "start" THEN [Rest EXCEPT !.pc = "set"]
                   ELSE [Rest EXCEPT !.pc = "get", !.sid = Call[r].sid])
    BY <1>1, CallTypes DEF Begin, Becomes, Rest, RequestState, Busy
  <2>. QED  BY <1>1, <2>1, ServedTyped, OthersTyped DEF Begin, server, outside
<1>2. CASE Open(r)
  <2>1. \E x : Becomes(r, x)
    <3>1. CASE auth[Call[r].state] = NoSid
      BY <1>2, <3>1, AnswerBecomes DEF Open, Answers
    <3>2. CASE auth[Call[r].state] # NoSid
      <4>1. Becomes(r, [Rest EXCEPT !.pc = "reget", !.sid = auth[Call[r].state]])
        BY <1>2, <3>2, CallTypes, OthersTyped DEF Open, Becomes, Rest, RequestState, Busy
      <4>. QED  BY <4>1
    <3>. QED  BY <3>1, <3>2
  <2>. QED  BY <1>2, <2>1, ServedTyped, OthersTyped DEF Open, server, outside
<1>3. CASE Callback(r)
  <2>1. \E x : Becomes(r, x)
    <3>1. CASE auth[Call[r].state] = NoSid
      BY <1>3, <3>1, AnswerBecomes DEF Callback, Answers
    <3>2. CASE auth[Call[r].state] # NoSid
      <4>1. Becomes(r, [Rest EXCEPT !.pc = "exchange", !.sid = auth[Call[r].state]])
        BY <1>3, <3>2, CallTypes, OthersTyped DEF Callback, Arrives, Becomes, Rest, RequestState, Busy
      <4>. QED  BY <4>1
    <3>. QED  BY <3>1, <3>2
  <2>2. auth' \in [States -> Sids \cup {NoSid}]
    BY <1>3, OthersTyped DEF Callback
  <2>. QED  BY <1>3, <2>1, <2>2, ServedTyped, OthersTyped DEF Callback, server, outside
<1>. QED  BY <1>1, <1>2, <1>3

LEMMA GetTyped ==
    ASSUME Typed, NEW r \in Requests, Hit(r) \/ Miss(r) \/ ReadStore(r) \/ Fill(r)
    PROVE  Typed'
<1>1. req[r].sid \in Sids /\ req[r] \in RequestState
  BY OthersTyped DEF Typed, OnTrack, Hit, Miss, ReadStore, Fill, Busy
<1>2. CASE Hit(r)
  <2>. DEFINE session == cache[req[r].sid]
  <2>1. session \in Session /\ stale' \subseteq Sids
    BY <1>1, <1>2, OthersTyped DEF Hit
  <2>2. CASE Middleware(r, session) /\ UNCHANGED <<cache, store, auth, users, outside>>
    BY <1>1, <2>1, <2>2, MiddlewareBecomes, ServedTyped, OthersTyped DEF outside
  <2>3. CASE AddOAuth(r, session)
    <3>1. /\ cache' = [cache EXCEPT ![req[r].sid] = [session EXCEPT !.state = Call[r].state]]
          /\ auth' = [auth EXCEPT ![Call[r].state] = req[r].sid]
          /\ Answer(r, "ok") /\ UNCHANGED <<store, users, outside>>
      BY <2>3 DEF AddOAuth
    <3>2. Becomes(r, [Rest EXCEPT !.pc = "ok"])
      BY <3>1, AnswerBecomes DEF Answers
    <3>3. [session EXCEPT !.state = Call[r].state] \in Session
      BY <2>1, CallTypes, SessionTypes
    <3>. QED  BY <1>1, <2>1, <3>1, <3>2, <3>3, CallTypes, ServedTyped, OthersTyped DEF outside
  <2>4. CASE Redirect(r, session) /\ UNCHANGED cache
    <3>1. \E x : Becomes(r, x)
      BY <2>4, AnswerBecomes DEF Redirect, Answers
    <3>2. opened' \subseteq States
      BY <2>4, CallTypes, OthersTyped DEF Redirect
    <3>. QED  BY <2>1, <2>4, <3>1, <3>2, ServedTyped, OthersTyped DEF Redirect
  <2>. QED  BY <1>2, <2>2, <2>3, <2>4 DEF Hit
<1>3. CASE Miss(r)
  <2>1. Becomes(r, [req[r] EXCEPT !.pc = IF At(r, "get") THEN "read" ELSE "reread"])
    BY <1>1, <1>3 DEF Miss, Goto, Becomes, RequestState, Busy
  <2>. QED  BY <1>3, <2>1, ServedTyped, OthersTyped DEF Miss, server, outside
<1>4. CASE ReadStore(r)
  <2>. DEFINE x == [req[r] EXCEPT !.got = store[req[r].sid],
                                  !.pc = IF At(r, "read") THEN "fill" ELSE "refill"]
  <2>1. store[req[r].sid] \in Session \cup {NoSession}
    BY <1>1, OthersTyped
  <2>2. Becomes(r, x)
    BY <1>1, <1>4, <2>1 DEF ReadStore, Becomes, RequestState, Busy
  <2>. HIDE DEF x
  <2>. QED  BY <1>4, <2>2, ServedTyped, OthersTyped DEF ReadStore, server, outside
<1>5. CASE Fill(r)
  <2>. DEFINE session == req[r].got
  <2>1. session \in Session \cup {NoSession} /\ stale \ {req[r].sid} \subseteq Sids
    BY <1>1, OthersTyped DEF RequestState
  <2>2. CASE session = NoSession
    <3>1. \E x : Becomes(r, x)
      BY <1>1, <1>5, <2>1, <2>2, MiddlewareBecomes, AnswerBecomes DEF Fill, Answers
    <3>. QED  BY <1>5, <2>2, <3>1, ServedTyped, OthersTyped DEF Fill, server, outside
  <2>3. CASE /\ session # NoSession /\ Cached(req[r].sid, session) /\ Middleware(r, session)
             /\ UNCHANGED <<store, auth, users, outside>>
    BY <1>1, <2>1, <2>3, MiddlewareBecomes, ServedTyped, OthersTyped DEF Cached, outside
  <2>4. CASE session # NoSession /\ stale' = stale \ {req[r].sid} /\ AddOAuth(r, session)
    <3>1. /\ cache' = [cache EXCEPT ![req[r].sid] = [session EXCEPT !.state = Call[r].state]]
          /\ auth' = [auth EXCEPT ![Call[r].state] = req[r].sid]
          /\ Answer(r, "ok") /\ UNCHANGED <<store, users, outside>>
      BY <2>4 DEF AddOAuth
    <3>2. Becomes(r, [Rest EXCEPT !.pc = "ok"])
      BY <3>1, AnswerBecomes DEF Answers
    <3>3. [session EXCEPT !.state = Call[r].state] \in Session
      BY <2>1, <2>4, CallTypes, SessionTypes
    <3>. QED  BY <1>1, <2>1, <2>4, <3>1, <3>2, <3>3, CallTypes, ServedTyped, OthersTyped DEF outside
  <2>5. CASE session # NoSession /\ Cached(req[r].sid, session) /\ Redirect(r, session)
    <3>1. \E x : Becomes(r, x)
      BY <2>5, AnswerBecomes DEF Redirect, Answers
    <3>2. opened' \subseteq States
      BY <2>5, CallTypes, OthersTyped DEF Redirect
    <3>. QED  BY <1>1, <2>1, <2>5, <3>1, <3>2, ServedTyped, OthersTyped DEF Redirect, Cached
  <2>. QED  BY <1>5, <2>2, <2>3, <2>4, <2>5 DEF Fill
<1>. QED  BY <1>2, <1>3, <1>4, <1>5

LEMMA LoadUserTyped == ASSUME Typed, NEW r \in Requests, LoadUser(r) PROVE Typed'
<1>1. /\ req[r].sid \in Sids /\ req[r] \in RequestState
      /\ req[r].got # NoSession /\ req[r].got.uid \in People
  BY OthersTyped DEF Typed, OnTrack, LoadUser, Busy, At
<1>2. \E x : Becomes(r, x)
  <2>1. CASE Call[r].kind = "login"
    <3>1. Becomes(r, [req[r] EXCEPT !.pc = "reget", !.got = NoSession])
      BY <1>1, <2>1 DEF LoadUser, Becomes, RequestState, Busy
    <3>. QED  BY <3>1
  <2>2. CASE Answer(r, "denied") \/ Answer(r, "ok")
    BY <2>2, AnswerBecomes DEF Answers
  <2>3. CASE Goto(r, "del")
    <3>1. Becomes(r, [req[r] EXCEPT !.pc = "del"])
      BY <1>1, <2>3 DEF Goto, Becomes, RequestState, Busy
    <3>. QED  BY <3>1
  <2>. QED  BY <2>1, <2>2, <2>3 DEF LoadUser
<1>3. /\ cache' \in [Sids -> Session \cup {NoSession}] /\ stale' \subseteq Sids
      /\ ended' \subseteq Sids
  BY <1>1, OthersTyped DEF LoadUser
<1>. QED  BY <1>2, <1>3, ServedTyped, OthersTyped DEF LoadUser

LEMMA StartTyped == ASSUME Typed, NEW r \in Requests, Start(r) PROVE Typed'
<1>1. Becomes(r, [pc |-> "put", got |-> Anonymous, sid |-> Call[r].sid])
  BY CallTypes, SessionTypes, SentinelsDistinct DEF Start, Becomes, RequestState, Busy
<1>. QED  BY <1>1, CallTypes, SessionTypes, ServedTyped, OthersTyped DEF Start, Cached, outside

LEMMA RenewalTyped ==
    ASSUME Typed, NEW r \in Requests, DeleteStored(r) \/ Reissue(r) \/ PutNew(r)
    PROVE  Typed'
<1>1. req[r].sid \in Sids /\ req[r] \in RequestState
  BY OthersTyped DEF Typed, OnTrack, DeleteStored, Reissue, PutNew, Busy, At
<1>2. CASE DeleteStored(r)
  <2>1. \E x : Becomes(r, x)
    <3>1. CASE Call[r].kind = "end"
      BY <1>2, <3>1, AnswerBecomes DEF DeleteStored, Answers
    <3>2. CASE Call[r].kind # "end"
      <4>1. Becomes(r, [req[r] EXCEPT !.pc = "reissue"])
        BY <1>1, <1>2, <3>2 DEF DeleteStored, Goto, Becomes, RequestState, Busy, Typed, OnTrack, At
      <4>. QED  BY <4>1
    <3>. QED  BY <3>1, <3>2
  <2>. QED  BY <1>1, <1>2, <2>1, ServedTyped, OthersTyped DEF DeleteStored, outside
<1>3. CASE Reissue(r)
  <2>1. Authenticated(req[r].got.uid) \in Session
    BY <1>3, SessionTypes DEF Reissue, Typed, OnTrack, At
  <2>2. Becomes(r, [pc |-> "put", got |-> Authenticated(req[r].got.uid), sid |-> Call[r].new])
    BY <1>3, <2>1, CallTypes, SentinelsDistinct DEF Reissue, Becomes, RequestState, Busy
  <2>3. signed' \subseteq Sids \X People
    <3>1. {<<Call[r].new, p>> : p \in {q \in People : <<req[r].sid, q>> \in signed}}
              \subseteq Sids \X People
      BY CallTypes, PairsTyped
    <3>. QED  BY <1>3, <3>1, OthersTyped DEF Reissue
  <2>. QED  BY <1>3, <2>1, <2>2, <2>3, CallTypes, ServedTyped, OthersTyped DEF Reissue, Cached
<1>4. CASE PutNew(r)
  <2>1. req[r].got \in Session
    BY <1>1, <1>4 DEF PutNew, Typed, OnTrack, At, RequestState
  <2>2. \E x : Becomes(r, x)
    BY <1>4, AnswerBecomes DEF PutNew, Answers
  <2>. QED  BY <1>1, <1>4, <2>1, <2>2, ServedTyped, OthersTyped DEF PutNew
<1>. QED  BY <1>2, <1>3, <1>4

LEMMA LoginTyped ==
    ASSUME Typed, NEW r \in Requests,
           ExchangeFails(r) \/ ExchangeSucceeds(r) \/ PutLogin(r) \/ AddUser(r)
    PROVE  Typed'
<1>1. req[r].sid \in Sids /\ req[r] \in RequestState /\ Call[r].kind = "callback"
  BY OthersTyped DEF Typed, OnTrack, ExchangeFails, ExchangeSucceeds, PutLogin, AddUser, Busy, At
<1>2. CASE ExchangeFails(r)
  <2>1. \E x : Becomes(r, x)
    BY <1>2, AnswerBecomes DEF ExchangeFails, Answers
  <2>. QED  BY <1>2, <2>1, ServedTyped, OthersTyped DEF ExchangeFails, server, outside
<1>3. CASE ExchangeSucceeds(r)
  <2>1. Becomes(r, [req[r] EXCEPT !.pc = "putlogin"])
    BY <1>1, <1>3 DEF ExchangeSucceeds, Goto, Becomes, RequestState, Busy
  <2>. QED
    BY <1>1, <1>3, <2>1, CallTypes, SessionTypes, ServedTyped, OthersTyped DEF ExchangeSucceeds, Cached
<1>4. CASE PutLogin(r)
  <2>1. Becomes(r, [req[r] EXCEPT !.pc = "adduser"])
    BY <1>1, <1>4 DEF PutLogin, Goto, Becomes, RequestState, Busy
  <2>. QED
    BY <1>1, <1>4, <2>1, CallTypes, SessionTypes, ServedTyped, OthersTyped DEF PutLogin, outside
<1>5. CASE AddUser(r)
  <2>1. Becomes(r, [req[r] EXCEPT !.pc = "ok", !.got = NoSession])
    BY <1>1, <1>5 DEF AddUser, Becomes, RequestState, Answers, Busy
  <2>. QED  BY <1>5, <2>1, CallTypes, ServedTyped, OthersTyped DEF AddUser, outside
<1>. QED  BY <1>2, <1>3, <1>4, <1>5

LEMMA WorldTyped ==
    ASSUME Typed, HourPasses \/ Gc \/ Restart \/ UNCHANGED vars
    PROVE  Typed'
<1>1. CASE HourPasses \/ Gc \/ UNCHANGED vars
  BY <1>1, OthersTyped DEF HourPasses, Gc, vars, outside, Typed, TypeOK, OnTrack
<1>2. CASE Restart
  <2>1. req' \in [Requests -> RequestState]
    BY <1>2, OthersTyped DEF Restart, Rest, RequestState, Answers
  <2>2. OnTrack'
    BY <1>2 DEF Restart, Typed, OnTrack, InFlight, Rest, Busy
  <2>. QED  BY <1>2, <2>1, <2>2, OthersTyped DEF Restart, outside, Typed, TypeOK
<1>. QED  BY <1>1, <1>2

LEMMA StepTyped == Typed /\ [Next]_vars => Typed'
  BY ArrivalTyped, GetTyped, LoadUserTyped, StartTyped, RenewalTyped, LoginTyped, WorldTyped
  DEF Next, Serve, Quiet

\* The variables keep their types.
THEOREM TypeCorrect == Spec => []TypeOK
<1>1. Typed => TypeOK
  BY DEF Typed
<1>. QED  BY <1>1, InitTyped, StepTyped, PTL DEF Spec

-----------------------------------------------------------------------------
\* Whom a session authenticates

\* The session is nobody's, or belongs to one who signed in to s.
Belongs(history, s, session) ==
    (session # NoSession /\ session.uid # Nobody) => <<s, session.uid>> \in history

\* What a handler holds belongs to signers, as what it will put does.
HoldsSigned(history, r, x) ==
    /\ x.pc \in Busy => Belongs(history, x.sid, x.got)
    /\ x.pc \in {"putlogin", "adduser"} => <<x.sid, Call[r].person>> \in history

Signed ==
    /\ \A s \in Sids : Belongs(signed, s, cache[s]) /\ Belongs(signed, s, store[s])
    /\ \A r \in Requests : HoldsSigned(signed, r, req[r])

LEMMA SignedKept ==
    ASSUME Signed, signed \subseteq signed',
           \A s \in Sids : cache'[s] = cache[s] \/ Belongs(signed', s, cache'[s]),
           \A s \in Sids : store'[s] = store[s] \/ Belongs(signed', s, store'[s]),
           \A r \in Requests : req'[r] = req[r] \/ HoldsSigned(signed', r, req'[r])
    PROVE  Signed'
  BY DEF Signed, Belongs, HoldsSigned

LEMMA AnswerSigned ==
    ASSUME Typed, NEW r \in Requests, NEW code \in Answers, Answer(r, code), NEW history
    PROVE  \A q \in Requests : req'[q] = req[q] \/ HoldsSigned(history, q, req'[q])
  BY OthersTyped DEF Answer, HoldsSigned, Belongs, Rest, Answers, Busy

LEMMA MiddlewareSigned ==
    ASSUME Typed, Signed, NEW r \in Requests, NEW session \in Session \cup {NoSession},
           req[r].sid \in Sids, Belongs(signed, req[r].sid, session), Middleware(r, session)
    PROVE  \A q \in Requests : req'[q] = req[q] \/ HoldsSigned(signed, q, req'[q])
<1>1. req \in [Requests -> RequestState] /\ req[r] \in RequestState
  BY OthersTyped
<1>2. CASE session # NoSession /\ session.uid # Nobody
  <2>1. req' = [req EXCEPT ![r] = [req[r] EXCEPT !.pc = "user", !.got = session]]
    BY <1>2 DEF Middleware
  <2>2. req'[r].pc = "user" /\ req'[r].got = session /\ req'[r].sid = req[r].sid
    BY <1>1, <2>1 DEF RequestState
  <2>. QED  BY <1>1, <2>1, <2>2 DEF HoldsSigned, Belongs
<1>3. CASE ~(session # NoSession /\ session.uid # Nobody) /\ Call[r].kind = "login"
  BY ZenonT(30), <1>1, <1>3 DEF Middleware, HoldsSigned, Belongs, RequestState
<1>4. CASE ~(session # NoSession /\ session.uid # Nobody) /\ Call[r].kind # "login"
  BY <1>4, AnswerSigned DEF Middleware, Answers
<1>. QED  BY <1>2, <1>3, <1>4

\* addOAuthSession puts a state into the session and leaves its user.
LEMMA AddOAuthSigned ==
    ASSUME Typed, Signed, NEW r \in Requests, NEW session \in Session,
           req[r].sid \in Sids, Belongs(signed, req[r].sid, session), AddOAuth(r, session)
    PROVE  Signed'
<1>1. /\ cache' = [cache EXCEPT ![req[r].sid] = [session EXCEPT !.state = Call[r].state]]
      /\ Answer(r, "ok") /\ UNCHANGED <<store, signed>>
  BY DEF AddOAuth, outside
<1>2. [session EXCEPT !.state = Call[r].state].uid = session.uid
  BY CallTypes, SessionTypes
<1>3. Belongs(signed, req[r].sid, [session EXCEPT !.state = Call[r].state])
  BY <1>2, SentinelsDistinct DEF Belongs, Session
<1>4. \A s \in Sids : cache'[s] = cache[s] \/ Belongs(signed', s, cache'[s])
  BY <1>1, <1>3, OthersTyped
<1>5. \A q \in Requests : req'[q] = req[q] \/ HoldsSigned(signed', q, req'[q])
  BY <1>1, AnswerSigned DEF Answers
<1>. QED  BY <1>1, <1>4, <1>5, SignedKept

LEMMA ArrivalSigned ==
    ASSUME Typed, Signed, NEW r \in Requests, Begin(r) \/ Open(r) \/ Callback(r)
    PROVE  Signed'
<1>1. \A q \in Requests : req'[q] = req[q] \/ HoldsSigned(signed, q, req'[q])
  <2>1. CASE Answer(r, "denied") \/ Answer(r, "failed")
    BY <2>1, AnswerSigned DEF Answers
  <2>2. CASE \E pc \in {"set", "get", "reget", "exchange"} : \E sid :
               req' = [req EXCEPT ![r] = [Rest EXCEPT !.pc = pc, !.sid = sid]]
    BY <2>2, OthersTyped DEF HoldsSigned, Belongs, Rest
  <2>3. CASE req' = [req EXCEPT ![r] = [Rest EXCEPT !.pc = "set"]]
    BY <2>3, OthersTyped DEF HoldsSigned, Belongs, Rest
  <2>. QED  BY <2>1, <2>2, <2>3 DEF Begin, Open, Callback
<1>2. UNCHANGED <<cache, store, signed>>
  BY DEF Begin, Open, Callback, server, outside
<1>. QED  BY <1>1, <1>2, SignedKept

LEMMA GetSigned ==
    ASSUME Typed, Signed, NEW r \in Requests, Hit(r) \/ Miss(r) \/ ReadStore(r) \/ Fill(r)
    PROVE  Signed'
<1>1. req[r].sid \in Sids /\ req[r] \in RequestState /\ HoldsSigned(signed, r, req[r])
  BY OthersTyped DEF Typed, OnTrack, Hit, Miss, ReadStore, Fill, Busy, Signed
<1>2. ASSUME NEW session \in Session, Belongs(signed, req[r].sid, session),
             cache' = cache \/ Cached(req[r].sid, session), Redirect(r, session)
      PROVE  Signed'
  <2>1. UNCHANGED <<store, signed>> /\ (Answer(r, "ok") \/ Answer(r, "denied"))
    BY <1>2 DEF Redirect
  <2>2. \A s \in Sids : cache'[s] = cache[s] \/ Belongs(signed', s, cache'[s])
    BY <1>2, <2>1, OthersTyped DEF Cached
  <2>3. \A q \in Requests : req'[q] = req[q] \/ HoldsSigned(signed', q, req'[q])
    BY <2>1, AnswerSigned DEF Answers
  <2>. QED  BY <2>1, <2>2, <2>3, SignedKept
<1>3. CASE Hit(r)
  <2>. DEFINE session == cache[req[r].sid]
  <2>1. session \in Session /\ Belongs(signed, req[r].sid, session)
    BY <1>1, <1>3, OthersTyped DEF Hit, Signed
  <2>2. CASE Middleware(r, session) /\ UNCHANGED <<cache, store, auth, users, outside>>
    BY <1>1, <2>1, <2>2, MiddlewareSigned, SignedKept DEF outside
  <2>. QED  BY <1>1, <1>2, <1>3, <2>1, <2>2, AddOAuthSigned DEF Hit
<1>4. CASE Miss(r)
  <2>1. \A q \in Requests : req'[q] = req[q] \/ HoldsSigned(signed, q, req'[q])
    BY <1>1, <1>4, OthersTyped DEF Miss, Goto, HoldsSigned, RequestState, Busy
  <2>. QED  BY <1>4, <2>1, SignedKept DEF Miss, server, outside
<1>5. CASE ReadStore(r)
  <2>1. Belongs(signed, req[r].sid, store[req[r].sid])
    BY <1>1 DEF Signed
  <2>2. \A q \in Requests : req'[q] = req[q] \/ HoldsSigned(signed, q, req'[q])
    BY <1>1, <1>5, <2>1, OthersTyped DEF ReadStore, HoldsSigned, RequestState
  <2>. QED  BY <1>5, <2>2, SignedKept DEF ReadStore, server, outside
<1>6. CASE Fill(r)
  <2>. DEFINE session == req[r].got
  <2>1. session \in Session \cup {NoSession} /\ Belongs(signed, req[r].sid, session)
    BY <1>1, <1>6 DEF Fill, HoldsSigned, Busy, RequestState
  <2>2. CASE session = NoSession
    <3>1. \A q \in Requests : req'[q] = req[q] \/ HoldsSigned(signed, q, req'[q])
      BY <1>1, <1>6, <2>1, <2>2, MiddlewareSigned, AnswerSigned DEF Fill, Answers
    <3>. QED  BY <1>6, <2>2, <3>1, SignedKept DEF Fill, server, outside
  <2>3. CASE /\ session # NoSession /\ Cached(req[r].sid, session) /\ Middleware(r, session)
             /\ UNCHANGED <<store, auth, users, outside>>
    <3>1. \A s \in Sids : cache'[s] = cache[s] \/ Belongs(signed', s, cache'[s])
      BY <1>1, <2>1, <2>3, OthersTyped DEF Cached, outside
    <3>2. \A q \in Requests : req'[q] = req[q] \/ HoldsSigned(signed', q, req'[q])
      BY <1>1, <2>1, <2>3, MiddlewareSigned DEF outside
    <3>. QED  BY <2>3, <3>1, <3>2, SignedKept DEF outside
  <2>. QED  BY <1>1, <1>2, <1>6, <2>1, <2>2, <2>3, AddOAuthSigned DEF Fill
<1>. QED  BY <1>3, <1>4, <1>5, <1>6

LEMMA RenewalSigned ==
    ASSUME Typed, Signed, NEW r \in Requests,
           Start(r) \/ LoadUser(r) \/ DeleteStored(r) \/ Reissue(r) \/ PutNew(r)
    PROVE  Signed'
<1>1. req[r] \in RequestState /\ HoldsSigned(signed, r, req[r])
  BY OthersTyped DEF Signed
<1>2. CASE Start(r)
  <2>1. Belongs(signed, Call[r].sid, Anonymous)
    BY SessionTypes DEF Belongs
  <2>2. \A s \in Sids : cache'[s] = cache[s] \/ Belongs(signed', s, cache'[s])
    BY <1>2, <2>1, OthersTyped DEF Start, Cached, outside
  <2>3. \A q \in Requests : req'[q] = req[q] \/ HoldsSigned(signed', q, req'[q])
    BY <1>2, <2>1, OthersTyped DEF Start, HoldsSigned, outside
  <2>. QED  BY <1>2, <2>2, <2>3, SignedKept DEF Start, outside
<1>3. CASE LoadUser(r)
  <2>1. \A q \in Requests : req'[q] = req[q] \/ HoldsSigned(signed, q, req'[q])
    <3>1. CASE Answer(r, "denied") \/ Answer(r, "ok")
      BY <3>1, AnswerSigned DEF Answers
    <3>2. CASE req' = [req EXCEPT ![r] = [@ EXCEPT !.pc = "reget", !.got = NoSession]]
      BY <1>1, <3>2, OthersTyped DEF HoldsSigned, Belongs, RequestState
    <3>3. CASE Goto(r, "del")
      BY <1>1, <1>3, <3>3, OthersTyped DEF Goto, LoadUser, At, HoldsSigned, RequestState, Busy
    <3>. QED  BY <1>3, <3>1, <3>2, <3>3 DEF LoadUser
  <2>2. \A s \in Sids : cache'[s] = cache[s] \/ cache'[s] = NoSession
    BY <1>3, OthersTyped DEF LoadUser
  <2>. QED  BY <1>3, <2>1, <2>2, SignedKept DEF LoadUser, Belongs
<1>4. CASE DeleteStored(r)
  <2>1. \A q \in Requests : req'[q] = req[q] \/ HoldsSigned(signed, q, req'[q])
    <3>1. CASE Answer(r, "ok")
      BY <3>1, AnswerSigned DEF Answers
    <3>2. CASE Goto(r, "reissue")
      BY <1>1, <1>4, <3>2, OthersTyped DEF Goto, DeleteStored, At, HoldsSigned, RequestState, Busy
    <3>. QED  BY <1>4, <3>1, <3>2 DEF DeleteStored
  <2>2. \A s \in Sids : store'[s] = store[s] \/ store'[s] = NoSession
    BY <1>4, OthersTyped DEF DeleteStored
  <2>. QED  BY <1>4, <2>1, <2>2, SignedKept DEF DeleteStored, Belongs, outside
<1>5. CASE Reissue(r)
  <2>. DEFINE p == req[r].got.uid
  <2>1. p \in People /\ req[r].got # NoSession
    BY <1>5 DEF Reissue, At, Typed, OnTrack
  <2>2. <<req[r].sid, p>> \in signed
    BY <1>1, <1>5, <2>1, SentinelsDistinct DEF Reissue, At, HoldsSigned, Belongs, Busy
  <2>3. signed \subseteq signed' /\ <<Call[r].new, p>> \in signed'
    BY <1>5, <2>1, <2>2 DEF Reissue
  <2>4. Belongs(signed', Call[r].new, Authenticated(p))
    BY <2>1, <2>3, SessionTypes DEF Belongs
  <2>5. \A s \in Sids : cache'[s] = cache[s] \/ Belongs(signed', s, cache'[s])
    BY <1>5, <2>4, OthersTyped DEF Reissue, Cached
  <2>6. \A q \in Requests : req'[q] = req[q] \/ HoldsSigned(signed', q, req'[q])
    BY <1>5, <2>4, OthersTyped DEF Reissue, HoldsSigned
  <2>. QED  BY <1>5, <2>3, <2>5, <2>6, SignedKept DEF Reissue
<1>6. CASE PutNew(r)
  <2>1. Belongs(signed, req[r].sid, req[r].got)
    BY <1>1, <1>6 DEF PutNew, At, HoldsSigned, Busy
  <2>2. \A s \in Sids : store'[s] = store[s] \/ Belongs(signed', s, store'[s])
    BY <1>6, <2>1, OthersTyped DEF PutNew
  <2>3. \A q \in Requests : req'[q] = req[q] \/ HoldsSigned(signed', q, req'[q])
    BY <1>6, AnswerSigned DEF PutNew, Answers
  <2>. QED  BY <1>6, <2>2, <2>3, SignedKept DEF PutNew
<1>. QED  BY <1>2, <1>3, <1>4, <1>5, <1>6

LEMMA LoginSigned ==
    ASSUME Typed, Signed, NEW r \in Requests,
           ExchangeFails(r) \/ ExchangeSucceeds(r) \/ PutLogin(r) \/ AddUser(r)
    PROVE  Signed'
<1>1. req[r] \in RequestState /\ HoldsSigned(signed, r, req[r]) /\ req[r].sid \in Sids
  BY OthersTyped DEF Signed, Typed, OnTrack, ExchangeFails, ExchangeSucceeds, PutLogin, AddUser, At, Busy
<1>2. CASE ExchangeFails(r)
  <2>1. \A q \in Requests : req'[q] = req[q] \/ HoldsSigned(signed, q, req'[q])
    BY <1>2, AnswerSigned DEF ExchangeFails, Answers
  <2>. QED  BY <1>2, <2>1, SignedKept DEF ExchangeFails, server, outside
<1>3. CASE ExchangeSucceeds(r)
  <2>1. signed \subseteq signed' /\ <<req[r].sid, Call[r].person>> \in signed'
    BY <1>3 DEF ExchangeSucceeds
  <2>2. Belongs(signed', req[r].sid, Authenticated(Call[r].person))
    BY <2>1, CallTypes, SessionTypes DEF Belongs
  <2>3. \A s \in Sids : cache'[s] = cache[s] \/ Belongs(signed', s, cache'[s])
    BY <1>3, <2>2, OthersTyped DEF ExchangeSucceeds, Cached
  <2>4. HoldsSigned(signed', r, [req[r] EXCEPT !.pc = "putlogin"])
    BY <1>1, <1>3, <2>1 DEF ExchangeSucceeds, At, HoldsSigned, Belongs, Busy, RequestState
  <2>5. \A q \in Requests : req'[q] = req[q] \/ HoldsSigned(signed', q, req'[q])
    BY <1>3, <2>4, OthersTyped DEF ExchangeSucceeds, Goto
  <2>. QED  BY <1>3, <2>1, <2>3, <2>5, SignedKept DEF ExchangeSucceeds
<1>4. CASE PutLogin(r)
  <2>1. Belongs(signed, req[r].sid, Authenticated(Call[r].person))
    BY <1>1, <1>4, CallTypes, SessionTypes DEF PutLogin, At, HoldsSigned, Belongs
  <2>2. \A s \in Sids : store'[s] = store[s] \/ Belongs(signed', s, store'[s])
    BY <1>4, <2>1, OthersTyped DEF PutLogin, outside
  <2>3. \A q \in Requests : req'[q] = req[q] \/ HoldsSigned(signed', q, req'[q])
    BY <1>1, <1>4, OthersTyped DEF PutLogin, At, Goto, HoldsSigned, Belongs, Busy, RequestState, outside
  <2>. QED  BY <1>4, <2>2, <2>3, SignedKept DEF PutLogin, outside
<1>5. CASE AddUser(r)
  <2>1. \A q \in Requests : req'[q] = req[q] \/ HoldsSigned(signed, q, req'[q])
    BY <1>1, <1>5, OthersTyped DEF AddUser, HoldsSigned, Belongs, Busy, RequestState
  <2>. QED  BY <1>5, <2>1, SignedKept DEF AddUser, outside
<1>. QED  BY <1>2, <1>3, <1>4, <1>5

LEMMA WorldSigned ==
    ASSUME Typed, Signed, HourPasses \/ Gc \/ Restart \/ UNCHANGED vars
    PROVE  Signed'
<1>1. UNCHANGED <<store, signed>>
  BY DEF HourPasses, Gc, Restart, vars, outside
<1>2. \A s \in Sids : cache'[s] = cache[s] \/ cache'[s] = NoSession
  BY OthersTyped DEF HourPasses, Gc, Restart, vars
<1>3. \A q \in Requests : req'[q] = req[q] \/ HoldsSigned(signed, q, req'[q])
  BY OthersTyped DEF HourPasses, Gc, Restart, vars, HoldsSigned, Belongs, Rest, Busy
<1>. QED  BY <1>1, <1>2, <1>3, SignedKept DEF Belongs

LEMMA StepSigned == Typed /\ Signed /\ [Next]_vars => Signed'
  BY ArrivalSigned, GetSigned, RenewalSigned, LoginSigned, WorldSigned
  DEF Next, Serve, Quiet

\* A session never authenticates anyone who did not sign in to it, or to the one
\* it was renewed from, whatever copies cache, store and handlers hold.
THEOREM SessionsSigned == Spec => []SessionsBelongToSigners
<1>1. Init => Signed
  BY DEF Init, Signed, Belongs, HoldsSigned, Rest, Busy
<1>2. Typed /\ Signed => SessionsBelongToSigners
  BY DEF Signed, Belongs, SessionsBelongToSigners
<1>. QED  BY <1>1, <1>2, InitTyped, StepTyped, StepSigned, PTL DEF Spec

-----------------------------------------------------------------------------
\* Which requests get where

KindFits(r, x) ==
    /\ x.pc \in {"get", "read", "fill", "user"} => Call[r].kind \in WithToken
    /\ x.pc \in {"reget", "reread", "refill"} => Call[r].kind \in {"login", "open"}
    /\ x.pc = "del" => Call[r].kind \in {"renew", "end"}
    /\ x.pc = "reissue" => Call[r].kind = "renew"
    /\ x.pc = "put" => \/ Call[r].kind = "start" /\ x.sid = Call[r].sid
                       \/ Call[r].kind = "renew" /\ x.got.uid # Nobody

KindsFit == \A r \in Requests : KindFits(r, req[r])

\* In a step of the requests, r alone goes on.
Alone(r) == \A q \in Requests \ {r} : req'[q] = req[q]

LEMMA StepAlone ==
    ASSUME Typed, NEW r \in Requests,
           Begin(r) \/ Open(r) \/ Callback(r) \/ ExchangeFails(r) \/ ExchangeSucceeds(r) \/ Serve(r)
    PROVE  Alone(r)
<1>1. \E x : req' = [req EXCEPT ![r] = x]
  <2>1. CASE Begin(r) \/ Open(r) \/ Callback(r)
    BY <2>1 DEF Begin, Open, Callback, Answer
  <2>2. CASE ExchangeFails(r) \/ ExchangeSucceeds(r) \/ Start(r) \/ LoadUser(r)
    BY <2>2 DEF ExchangeFails, ExchangeSucceeds, Start, LoadUser, Answer, Goto
  <2>3. CASE DeleteStored(r) \/ Reissue(r) \/ PutNew(r) \/ PutLogin(r) \/ AddUser(r)
    BY <2>3 DEF DeleteStored, Reissue, PutNew, PutLogin, AddUser, Answer, Goto
  <2>4. CASE Miss(r)
    BY <2>4 DEF Miss, Goto
  <2>5. CASE ReadStore(r)
    BY <2>5, OthersTyped DEF ReadStore
  <2>6. CASE Hit(r) \/ Fill(r)
    BY <2>6 DEF Hit, Fill, Middleware, AddOAuth, Redirect, Answer
  <2>. QED  BY <2>1, <2>2, <2>3, <2>4, <2>5, <2>6 DEF Serve
<1>. QED  BY <1>1, OthersTyped DEF Alone

LEMMA GotoGoes ==
    ASSUME Typed, NEW r \in Requests, NEW pc, Goto(r, pc)
    PROVE  req'[r].pc = pc /\ req'[r].sid = req[r].sid /\ req'[r].got = req[r].got
<1>1. req[r] \in RequestState /\ req \in [Requests -> RequestState]
  BY OthersTyped
<1>. QED  BY <1>1 DEF Goto, RequestState

LEMMA AnswerFits ==
    ASSUME Typed, NEW r \in Requests, NEW code \in Answers, Answer(r, code)
    PROVE  req'[r] = [Rest EXCEPT !.pc = code] /\ KindFits(r, req'[r])
  BY OthersTyped DEF Answer, KindFits, Rest, Answers

LEMMA MiddlewareFits ==
    ASSUME Typed, NEW r \in Requests, NEW session, Middleware(r, session),
           Call[r].kind \in WithToken
    PROVE  KindFits(r, req'[r])
<1>1. req[r] \in RequestState /\ req \in [Requests -> RequestState]
  BY OthersTyped
<1>2. CASE Answer(r, "denied")
  BY <1>2, AnswerFits DEF Answers
<1>3. CASE ~Answer(r, "denied")
  <2>1. req'[r].pc = "user" \/ (req'[r].pc = "reget" /\ Call[r].kind = "login")
    BY <1>1, <1>3 DEF Middleware, RequestState
  <2>. QED  BY <2>1 DEF KindFits
<1>. QED  BY <1>2, <1>3

LEMMA ServedFits ==
    ASSUME Typed, NEW r \in Requests, KindFits(r, req[r]),
           Begin(r) \/ Open(r) \/ Callback(r) \/ ExchangeFails(r) \/ ExchangeSucceeds(r) \/ Serve(r)
    PROVE  KindFits(r, req'[r])
<1>1. req[r] \in RequestState /\ req \in [Requests -> RequestState]
  BY OthersTyped
<1>2. CASE \E code \in Answers : Answer(r, code)
  BY <1>2, AnswerFits
<1>3. CASE Begin(r)
  BY <1>1, <1>3 DEF Begin, Arrives, KindFits, Rest
<1>4. CASE (Open(r) \/ Callback(r)) /\ ~\E code \in Answers : Answer(r, code)
  <2>1. CASE Open(r)
    <3>1. req'[r].pc = "reget" /\ Call[r].kind = "open"
      BY <1>1, <1>4, <2>1 DEF Open, Arrives, Rest, Answers
    <3>. QED  BY <3>1 DEF KindFits
  <2>2. CASE Callback(r)
    <3>1. req'[r].pc = "exchange"
      BY <1>1, <1>4, <2>2 DEF Callback, Rest, Answers
    <3>. QED  BY <3>1 DEF KindFits
  <2>. QED  BY <1>4, <2>1, <2>2
<1>5. CASE ExchangeFails(r) \/ ExchangeSucceeds(r) \/ PutLogin(r) \/ AddUser(r)
  <2>1. CASE ExchangeFails(r)
    BY <1>2, <2>1 DEF ExchangeFails, Answers
  <2>2. CASE AddUser(r)
    <3>1. req'[r].pc = "ok"
      BY <1>1, <2>2 DEF AddUser, RequestState
    <3>. QED  BY <3>1 DEF KindFits
  <2>3. CASE ExchangeSucceeds(r) \/ PutLogin(r)
    <3>1. req'[r].pc \in {"putlogin", "adduser"}
      BY <2>3, GotoGoes DEF ExchangeSucceeds, PutLogin
    <3>. QED  BY <3>1 DEF KindFits
  <2>. QED  BY <1>5, <2>1, <2>2, <2>3
<1>6. CASE Start(r)
  BY <1>1, <1>6 DEF Start, KindFits, Typed, OnTrack, At
<1>7. CASE LoadUser(r)
  <2>1. Call[r].kind \in WithToken
    BY <1>7 DEF LoadUser, At, KindFits
  <2>2. CASE req'[r].pc = "reget" /\ Call[r].kind = "login"
    BY <2>2 DEF KindFits
  <2>3. CASE req'[r].pc = "del" /\ Call[r].kind \in {"renew", "end"}
    BY <2>3 DEF KindFits
  <2>4. Call[r].kind = "login" => req'[r].pc = "reget"
    BY <1>1, <1>7 DEF LoadUser, RequestState
  <2>. QED
    BY <1>2, <1>7, <2>1, <2>2, <2>3, <2>4, GotoGoes DEF LoadUser, Answers, WithToken
<1>8. CASE DeleteStored(r) \/ PutNew(r)
  BY <1>1, <1>2, <1>8 DEF DeleteStored, PutNew, At, Goto, KindFits, RequestState, Answers
<1>9. CASE Reissue(r)
  <2>1. req[r].got.uid \in People /\ Call[r].kind = "renew"
    BY <1>9 DEF Reissue, At, Typed, OnTrack, KindFits
  <2>2. Authenticated(req[r].got.uid).uid # Nobody
    BY <2>1, SessionTypes, SentinelsDistinct
  <2>. QED  BY <1>1, <1>9, <2>1, <2>2 DEF Reissue, KindFits
<1>10. CASE Miss(r)
  BY <1>1, <1>10 DEF Miss, At, Goto, KindFits, RequestState
<1>11. CASE ReadStore(r)
  BY <1>1, <1>11 DEF ReadStore, At, KindFits, RequestState
<1>12. CASE Hit(r) \/ Fill(r)
  <2>1. CASE \E session : Middleware(r, session) /\ Call[r].kind \in WithToken
    BY <2>1, MiddlewareFits
  <2>2. CASE \E session : AddOAuth(r, session) \/ Redirect(r, session)
    BY <1>2, <2>2 DEF AddOAuth, Redirect, Answers
  <2>. QED  BY <1>2, <1>12, <2>1, <2>2 DEF Hit, Fill, At, KindFits, Answers
<1>. QED
  BY <1>2, <1>3, <1>4, <1>5, <1>6, <1>7, <1>8, <1>9, <1>10, <1>11, <1>12 DEF Serve

LEMMA StepKinds == Typed /\ KindsFit /\ [Next]_vars => KindsFit'
<1>. SUFFICES ASSUME Typed, KindsFit, [Next]_vars PROVE KindsFit'
  OBVIOUS
<1>1. ASSUME NEW r \in Requests,
             Begin(r) \/ Open(r) \/ Callback(r) \/ ExchangeFails(r) \/ ExchangeSucceeds(r) \/ Serve(r)
      PROVE  KindsFit'
  BY <1>1, StepAlone, ServedFits DEF KindsFit, Alone
<1>2. CASE UNCHANGED req
  BY <1>2 DEF KindsFit
<1>3. CASE Restart
  BY <1>3, OthersTyped DEF Restart, KindsFit, KindFits, Rest
<1>. QED  BY <1>1, <1>2, <1>3 DEF Next, HourPasses, Gc, Quiet, vars

LEMMA InitKinds == Init => KindsFit
  BY DEF Init, KindsFit, KindFits, Rest

-----------------------------------------------------------------------------
\* What is stored, and for whom

LEMMA StoreWritten ==
    ASSUME Typed, [Next]_vars
    PROVE  \/ UNCHANGED store
           \/ \E r \in Requests :
                 \/ PutNew(r) /\ store' = [store EXCEPT ![req[r].sid] = req[r].got]
                 \/ DeleteStored(r) /\ store' = [store EXCEPT ![req[r].sid] = NoSession]
                 \/ PutLogin(r) /\ store' = [store EXCEPT ![req[r].sid] = Authenticated(Call[r].person)]
<1>1. ASSUME NEW r \in Requests, PutNew(r) \/ DeleteStored(r) \/ PutLogin(r)
      PROVE  \/ PutNew(r) /\ store' = [store EXCEPT ![req[r].sid] = req[r].got]
             \/ DeleteStored(r) /\ store' = [store EXCEPT ![req[r].sid] = NoSession]
             \/ PutLogin(r) /\ store' = [store EXCEPT ![req[r].sid] = Authenticated(Call[r].person)]
  BY <1>1 DEF PutNew, DeleteStored, PutLogin
<1>2. ASSUME NEW r \in Requests,
             Begin(r) \/ Open(r) \/ Callback(r) \/ ExchangeFails(r) \/ ExchangeSucceeds(r)
             \/ Start(r) \/ Hit(r) \/ Miss(r) \/ ReadStore(r) \/ Fill(r) \/ LoadUser(r)
             \/ Reissue(r) \/ AddUser(r)
      PROVE  UNCHANGED store
  BY <1>2 DEF Begin, Open, Callback, ExchangeFails, ExchangeSucceeds, Start, Hit, Miss,
              ReadStore, Fill, AddOAuth, Redirect, LoadUser, Reissue, AddUser, server
<1>3. CASE HourPasses \/ Gc \/ Restart \/ Quiet \/ UNCHANGED vars
  BY <1>3 DEF HourPasses, Gc, Restart, Quiet, vars
<1>. QED  BY <1>1, <1>2, <1>3 DEF Next, Serve

LEMMA TokensGiven ==
    ASSUME Typed, [Next]_vars
    PROVE  UNCHANGED tokens \/ \E r \in Requests : PutNew(r) /\ tokens' = tokens \cup {req[r].sid}
<1>1. ASSUME NEW r \in Requests, PutNew(r) PROVE tokens' = tokens \cup {req[r].sid}
  BY <1>1 DEF PutNew
<1>2. ASSUME NEW r \in Requests,
             Begin(r) \/ Open(r) \/ Callback(r) \/ ExchangeFails(r) \/ ExchangeSucceeds(r)
             \/ Start(r) \/ Hit(r) \/ Miss(r) \/ ReadStore(r) \/ Fill(r) \/ LoadUser(r)
             \/ Reissue(r) \/ AddUser(r) \/ DeleteStored(r) \/ PutLogin(r)
      PROVE  UNCHANGED tokens
  BY <1>2 DEF Begin, Open, Callback, ExchangeFails, ExchangeSucceeds, Start, Hit, Miss, ReadStore,
              Fill, AddOAuth, Redirect, LoadUser, Reissue, AddUser, DeleteStored, PutLogin, outside
<1>3. CASE HourPasses \/ Gc \/ Restart \/ Quiet \/ UNCHANGED vars
  BY <1>3 DEF HourPasses, Gc, Restart, Quiet, vars, outside
<1>. QED  BY <1>1, <1>2, <1>3 DEF Next, Serve

LEMMA EndedGrows == ASSUME [Next]_vars PROVE ended \subseteq ended'
<1>1. ASSUME NEW r \in Requests,
             Begin(r) \/ Open(r) \/ Callback(r) \/ ExchangeFails(r) \/ ExchangeSucceeds(r) \/ Serve(r)
      PROVE  ended \subseteq ended'
  BY <1>1 DEF Begin, Open, Callback, ExchangeFails, ExchangeSucceeds, Serve, Start, Hit, Miss, ReadStore,
              Fill, AddOAuth, Redirect, LoadUser, Reissue, AddUser, DeleteStored, PutNew, PutLogin, outside
<1>2. CASE HourPasses \/ Gc \/ Restart \/ Quiet \/ UNCHANGED vars
  BY <1>2 DEF HourPasses, Gc, Restart, Quiet, vars, outside
<1>. QED  BY <1>1, <1>2 DEF Next

\* What is taken out of the store was given up before.
GivenUp == \A r \in Requests : At(r, "del") => req[r].sid \in ended

LEMMA StepGivenUp == Typed /\ GivenUp /\ [Next]_vars => GivenUp'
<1>. SUFFICES ASSUME Typed, GivenUp, [Next]_vars, NEW q \in Requests, At(q, "del")'
              PROVE  req'[q].sid \in ended'
  BY DEF GivenUp
<1>1. CASE req'[q] = req[q]
  BY <1>1, EndedGrows DEF GivenUp, At
<1>2. CASE req'[q] # req[q]
  <2>1. ~Restart /\ ~UNCHANGED req
    BY <1>2, OthersTyped DEF Restart, Rest, At
  <2>2. PICK r \in Requests : \/ Begin(r) \/ Open(r) \/ Callback(r)
                              \/ ExchangeFails(r) \/ ExchangeSucceeds(r) \/ Serve(r)
    BY <2>1 DEF Next, HourPasses, Gc, Quiet, vars
  <2>3. r = q
    BY <1>2, <2>2, StepAlone DEF Alone
  <2>4. req[q] \in RequestState /\ req \in [Requests -> RequestState]
    BY OthersTyped
  <2>5. LoadUser(q)
    <3>1. ~\E code \in Answers : Answer(q, code)
      BY AnswerFits DEF At, Answers, Rest
    <3>2. ~(\E session : Middleware(q, session))
      BY <2>4, <3>1 DEF Middleware, At, Answers, RequestState
    <3>3. ~Hit(q) /\ ~Fill(q)
      BY <3>1, <3>2 DEF Hit, Fill, AddOAuth, Redirect, Answers
    <3>4. ~(Begin(q) \/ Open(q) \/ Callback(q))
      <4>1. ~Begin(q)
        BY <2>4, <3>1 DEF Begin, At, Rest, Answers
      <4>2. ~Open(q)
        BY <2>4, <3>1 DEF Open, At, Rest, Answers
      <4>3. ~Callback(q)
        BY <2>4, <3>1 DEF Callback, At, Rest, Answers
      <4>. QED  BY <4>1, <4>2, <4>3
    <3>5. ~(ExchangeFails(q) \/ ExchangeSucceeds(q))
      BY <3>1, GotoGoes DEF ExchangeFails, ExchangeSucceeds, At, Answers
    <3>6. ~(Start(q) \/ Miss(q) \/ ReadStore(q) \/ PutLogin(q) \/ AddUser(q))
      <4>1. ASSUME Start(q) PROVE FALSE
        <5>1. req'[q] = [pc |-> "put", got |-> Anonymous, sid |-> Call[q].sid]
          BY <2>4, <4>1 DEF Start
        <5>. QED  BY <5>1 DEF At
      <4>4. ~AddUser(q)
        BY <2>4 DEF AddUser, At, RequestState
      <4>2. ~ReadStore(q)
        BY <2>4 DEF ReadStore, At, RequestState
      <4>3. ~(Miss(q) \/ PutLogin(q))
        BY GotoGoes DEF Miss, PutLogin, At
      <4>. QED  BY <4>1, <4>2, <4>3, <4>4
    <3>7. ~(DeleteStored(q) \/ Reissue(q) \/ PutNew(q))
      BY <2>4, <3>1, GotoGoes DEF DeleteStored, Reissue, PutNew, At, Answers
    <3>. QED  BY <2>2, <2>3, <3>3, <3>4, <3>5, <3>6, <3>7 DEF Serve
  <2>6. Goto(q, "del") /\ ended' = ended \cup {req[q].sid}
    <3>1. ~(Answer(q, "denied") \/ Answer(q, "ok"))
      BY AnswerFits DEF At, Answers, Rest
    <3>2. req' # [req EXCEPT ![q] = [@ EXCEPT !.pc = "reget", !.got = NoSession]]
      BY <2>4 DEF At, RequestState
    <3>. QED  BY <2>5, <3>1, <3>2 DEF LoadUser
  <2>. QED  BY <2>6, GotoGoes
<1>. QED  BY <1>1, <1>2

LEMMA StepDurable ==
    ASSUME Typed, GivenUp, TokensDurable, [Next]_vars
    PROVE  TokensDurable'
<1>. SUFFICES ASSUME NEW s \in tokens' \ ended' PROVE store'[s] # NoSession
  BY DEF TokensDurable
<1>1. ASSUME NEW r \in Requests, PutNew(r)
      PROVE  req[r].sid \in Sids /\ req[r].got # NoSession
  BY <1>1 DEF PutNew, At, Typed, OnTrack, Busy
<1>2. ASSUME NEW r \in Requests, PutLogin(r)
      PROVE  Authenticated(Call[r].person) # NoSession
  BY CallTypes, SessionTypes, SentinelsDistinct
<1>3. ASSUME NEW r \in Requests, DeleteStored(r), req[r].sid = s
      PROVE  FALSE
  BY <1>3, EndedGrows DEF DeleteStored, GivenUp
<1>4. s \notin ended
  BY EndedGrows
<1>5. CASE s \in tokens
  <2>1. store[s] # NoSession /\ s \in Sids
    BY <1>4, <1>5, OthersTyped DEF TokensDurable
  <2>. QED  BY <1>1, <1>2, <1>3, <2>1, StoreWritten, OthersTyped
<1>6. CASE s \notin tokens
  <2>1. PICK r \in Requests : PutNew(r) /\ s = req[r].sid
    BY <1>6, TokensGiven
  <2>. QED  BY <1>1, <2>1, OthersTyped DEF PutNew
<1>. QED  BY <1>5, <1>6

\* A token that was handed out names a stored session until it is given up,
\* across evictions, races and crashes.
THEOREM TokensLast == Spec => []TokensDurable
<1>1. Init => GivenUp /\ TokensDurable
  BY DEF Init, GivenUp, TokensDurable, At, Rest
<1>2. Typed /\ GivenUp /\ TokensDurable /\ [Next]_vars => TokensDurable'
  BY StepDurable
<1>. QED  BY <1>1, <1>2, InitTyped, StepTyped, StepGivenUp, PTL DEF Spec

-----------------------------------------------------------------------------
\* How far a callback, and the session ids in use, may go in one step

Acts(r) == Begin(r) \/ Open(r) \/ Callback(r) \/ ExchangeFails(r) \/ ExchangeSucceeds(r) \/ Serve(r)

LEMMA Changed ==
    ASSUME Typed, [Next]_vars, NEW q \in Requests, req'[q] # req[q]
    PROVE  Acts(q) \/ (q \in InFlight /\ req'[q].pc = "lost")
<1>1. CASE Restart
  BY <1>1, OthersTyped DEF Restart, Rest
<1>2. CASE ~Restart
  <2>1. PICK r \in Requests : Acts(r)
    BY <1>2 DEF Next, HourPasses, Gc, Quiet, vars, Acts
  <2>. QED  BY <2>1, StepAlone DEF Acts, Alone
<1>. QED  BY <1>1, <1>2

\* Who acts has not been answered.
LEMMA ActsUnanswered ==
    ASSUME NEW q \in Requests, Acts(q)
    PROVE  /\ req[q].pc \in Busy \cup {"idle"}
           /\ req[q].pc = "idle" => Begin(q) \/ Open(q) \/ Callback(q)
<1>1. CASE Begin(q) \/ Open(q) \/ Callback(q)
  BY <1>1 DEF Begin, Open, Callback, Arrives, MayArrive, At
<1>2. CASE ExchangeFails(q) \/ ExchangeSucceeds(q) \/ Serve(q)
  BY <1>2 DEF ExchangeFails, ExchangeSucceeds, Serve, Start, Hit, Miss, ReadStore, Fill, LoadUser,
              DeleteStored, Reissue, PutNew, PutLogin, AddUser, At, Busy
<1>. QED  BY <1>1, <1>2 DEF Acts

LEMMA OkStays ==
    ASSUME Typed, [Next]_vars, NEW q \in Requests, At(q, "ok")
    PROVE  At(q, "ok")' /\ req'[q] = req[q]
<1>1. req'[q] = req[q]
  BY Changed, ActsUnanswered DEF At, InFlight, Busy
<1>. QED  BY <1>1 DEF At

\* A callback goes from its arrival to the exchange, the login and the user.
LEMMA CallbackCourse ==
    ASSUME Typed, KindsFit, [Next]_vars, NEW r \in Requests, Call[r].kind = "callback",
           req'[r] # req[r], req'[r].pc \in {"exchange", "putlogin", "adduser", "ok"}
    PROVE  \/ Callback(r) /\ At(r, "idle") /\ req'[r].pc = "exchange"
           \/ ExchangeSucceeds(r) /\ req'[r].pc = "putlogin"
           \/ PutLogin(r) /\ req'[r].pc = "adduser" /\ req'[r].sid = req[r].sid
           \/ AddUser(r) /\ req'[r].pc = "ok" /\ req'[r].sid = req[r].sid
<1>1. Acts(r) /\ req[r] \in RequestState /\ req \in [Requests -> RequestState]
  BY Changed, OthersTyped
<1>2. CASE At(r, "idle")
  <2>1. Callback(r)
    BY <1>1, <1>2, ActsUnanswered DEF Begin, Open, Arrives, WithToken, At
  <2>2. ~Answer(r, "failed")
    BY AnswerFits DEF Answers, Rest
  <2>. QED  BY <1>1, <1>2, <2>1, <2>2 DEF Callback, Rest
<1>3. CASE ~At(r, "idle")
  <2>1. req[r].pc \in {"exchange", "putlogin", "adduser"}
    BY <1>1, <1>3, ActsUnanswered DEF KindsFit, KindFits, WithToken, Typed, OnTrack, At, Busy
  <2>2. ExchangeFails(r) \/ ExchangeSucceeds(r) \/ PutLogin(r) \/ AddUser(r)
    BY <1>1, <2>1 DEF Acts, Begin, Open, Callback, Arrives, MayArrive, Serve, Start, Hit, Miss,
                      ReadStore, Fill, LoadUser, DeleteStored, Reissue, PutNew, At
  <2>3. ~ExchangeFails(r)
    BY AnswerFits DEF ExchangeFails, Answers, Rest
  <2>4. AddUser(r) => req'[r].pc = "ok" /\ req'[r].sid = req[r].sid
    BY <1>1 DEF AddUser, RequestState
  <2>. QED  BY <2>2, <2>3, <2>4, GotoGoes DEF ExchangeSucceeds, PutLogin
<1>. QED  BY <1>2, <1>3

\* A state is entered by the login it was made for, which is answered with it,
\* and never comes back.
LEMMA StateEntered ==
    ASSUME Typed, KindsFit, [Next]_vars, NEW state \in States, auth'[state] # NoSid
    PROVE  \/ auth'[state] = auth[state]
           \/ \E q \in Requests : /\ Call[q].kind = "login" /\ Call[q].state = state
                                  /\ req[q].pc \in {"reget", "refill"} /\ At(q, "ok")'
                                  /\ auth'[state] = req[q].sid
<1>1. ASSUME NEW q \in Requests, req[q].pc \in {"reget", "refill"}, Call[q].kind = "login",
             NEW session, AddOAuth(q, session)
      PROVE  \/ auth'[state] = auth[state]
             \/ /\ Call[q].state = state /\ At(q, "ok")' /\ auth'[state] = req[q].sid
  <2>1. At(q, "ok")'
    BY <1>1, AnswerFits DEF AddOAuth, Answers, Rest, At
  <2>. QED  BY <1>1, <2>1, OthersTyped DEF AddOAuth
<1>2. ASSUME NEW q \in Requests, Hit(q) \/ Fill(q)
      PROVE  \/ UNCHANGED auth
             \/ /\ req[q].pc \in {"reget", "refill"} /\ Call[q].kind = "login"
                /\ \E session : AddOAuth(q, session)
  BY <1>2 DEF Hit, Fill, Redirect, server, At
<1>3. ASSUME NEW q \in Requests,
             Begin(q) \/ Open(q) \/ ExchangeFails(q) \/ ExchangeSucceeds(q)
             \/ Start(q) \/ Miss(q) \/ ReadStore(q) \/ LoadUser(q)
             \/ DeleteStored(q) \/ Reissue(q) \/ PutNew(q) \/ PutLogin(q) \/ AddUser(q)
      PROVE  UNCHANGED auth
  BY <1>3 DEF Begin, Open, ExchangeFails, ExchangeSucceeds, Start, Miss, ReadStore, LoadUser,
              DeleteStored, Reissue, PutNew, PutLogin, AddUser, server
<1>4. ASSUME NEW q \in Requests, Callback(q) PROVE auth'[state] = auth[state]
  BY <1>4, OthersTyped DEF Callback
<1>5. CASE HourPasses \/ Gc \/ Quiet \/ UNCHANGED vars
  BY <1>5 DEF HourPasses, Gc, Quiet, vars
<1>6. CASE Restart
  BY <1>6 DEF Restart
<1>. QED  BY <1>1, <1>2, <1>3, <1>4, <1>5, <1>6 DEF Next, Serve

-----------------------------------------------------------------------------
\* A state is redeemed once

LoginDone(state) ==
    \E q \in Requests : Call[q].kind = "login" /\ Call[q].state = state /\ At(q, "ok")

Redeeming(r) == /\ Call[r].kind = "callback"
                /\ req[r].pc \in {"exchange", "putlogin", "adduser", "ok"}

\* A state is in the map only after its login was answered, and never again
\* after it was redeemed.
Handed ==
    /\ \A state \in States : auth[state] # NoSid => LoginDone(state)
    /\ \A r \in Requests : Redeeming(r) =>
          auth[Call[r].state] = NoSid /\ LoginDone(Call[r].state)
    /\ StateRedeemedOnce

LEMMA StepHanded == Typed /\ KindsFit /\ Handed /\ [Next]_vars => Handed'
<1>. SUFFICES ASSUME Typed, KindsFit, Handed, [Next]_vars PROVE Handed'
  OBVIOUS
<1>1. \A state : LoginDone(state) => LoginDone(state)'
  BY OkStays DEF LoginDone
<1>2. ASSUME NEW state \in States, auth'[state] # NoSid PROVE LoginDone(state)'
  BY <1>1, <1>2, StateEntered DEF Handed, LoginDone
<1>3. ASSUME NEW r \in Requests, Redeeming(r)'
      PROVE  Redeeming(r) \/ (Callback(r) /\ At(r, "idle") /\ req'[r].pc = "exchange")
  <2>1. CASE req'[r] = req[r]
    BY <1>3, <2>1 DEF Redeeming
  <2>2. CASE req'[r] # req[r]
    BY <1>3, <2>2, CallbackCourse DEF Redeeming, ExchangeSucceeds, PutLogin, AddUser, At
  <2>. QED  BY <2>1, <2>2
<1>4. ASSUME NEW r \in Requests, Callback(r), req'[r].pc = "exchange"
      PROVE  auth[Call[r].state] # NoSid /\ auth'[Call[r].state] = NoSid
  <2>1. ~Answer(r, "failed")
    BY <1>4, AnswerFits DEF Answers, Rest
  <2>. QED  BY <1>4, <2>1, CallTypes, OthersTyped DEF Callback
<1>5. ASSUME NEW r \in Requests, Redeeming(r)'
      PROVE  auth'[Call[r].state] = NoSid /\ LoginDone(Call[r].state)'
  <2>1. CASE Redeeming(r)
    <3>1. auth[Call[r].state] = NoSid /\ LoginDone(Call[r].state)
      BY <2>1 DEF Handed
    <3>2. ASSUME auth'[Call[r].state] # NoSid PROVE FALSE
      <4>1. PICK q \in Requests : /\ Call[q].kind = "login" /\ Call[q].state = Call[r].state
                                  /\ req[q].pc \in {"reget", "refill"}
        BY <3>1, <3>2, CallTypes, StateEntered
      <4>2. PICK p \in Requests : /\ Call[p].kind = "login" /\ Call[p].state = Call[r].state
                                  /\ At(p, "ok")
        BY <3>1 DEF LoginDone
      <4>. QED  BY <4>1, <4>2, FreshIds DEF At
    <3>. QED  BY <1>1, <3>1, <3>2
  <2>2. CASE Callback(r) /\ req'[r].pc = "exchange"
    BY <1>1, <1>4, <2>2, CallTypes DEF Handed
  <2>. QED  BY <1>3, <1>5, <2>1, <2>2
<1>6. StateRedeemedOnce'
  <2>. SUFFICES ASSUME NEW r \in Requests, NEW q \in Requests, r # q,
                       Redeeming(r)', Redeeming(q)', Call[r].state = Call[q].state
                PROVE  FALSE
    BY DEF StateRedeemedOnce, Redeeming
  <2>1. ~(Redeeming(r) /\ Redeeming(q))
    BY DEF Handed, StateRedeemedOnce, Redeeming
  <2>2. ASSUME NEW a \in Requests, NEW b \in Requests, a # b, Call[a].state = Call[b].state,
               Callback(a), req'[a].pc = "exchange", Redeeming(b)'
        PROVE  FALSE
    <3>1. req'[b] = req[b]
      BY <2>2, StepAlone DEF Alone
    <3>2. Redeeming(b)
      BY <2>2, <3>1 DEF Redeeming
    <3>. QED  BY <1>4, <2>2, <3>2 DEF Handed
  <2>. QED  BY <1>3, <2>1, <2>2
<1>. QED  BY <1>2, <1>5, <1>6 DEF Handed

\* A state buys one exchange, however often the callback is loaded, whatever
\* races with it and whenever the process dies.
THEOREM StatesRedeemedOnce == Spec => []StateRedeemedOnce
<1>1. Init => Handed
  BY DEF Init, Handed, Redeeming, StateRedeemedOnce, Rest
<1>2. Handed => StateRedeemedOnce
  BY DEF Handed
<1>. QED  BY <1>1, <1>2, InitTyped, InitKinds, StepTyped, StepKinds, StepHanded, PTL DEF Spec

-----------------------------------------------------------------------------
\* A login that was answered lasts

\* The session is being made: nobody knows its id yet.
Unborn(r) == Call[r].kind = "start" /\ req[r].pc \in {"idle", "set", "put"}

\* The request works on the session of its id, or is the login that was answered.
Uses(r) == \/ req[r].pc \in Busy \ {"set"}
           \/ Call[r].kind = "callback" /\ At(r, "ok")

Unknown ==
    \A r \in Requests : Unborn(r) =>
        /\ Call[r].sid \notin tokens
        /\ \A state \in States : auth[state] # Call[r].sid
        /\ \A q \in Requests \ {r} : Uses(q) => req[q].sid # Call[r].sid

\* Where the id a request works on comes from.
LEMMA SidComesFrom ==
    ASSUME Typed, KindsFit, [Next]_vars, NEW q \in Requests, Uses(q)'
    PROVE  \/ Uses(q) /\ req'[q].sid = req[q].sid
           \/ req'[q].sid \in tokens
           \/ \E state \in States : req'[q].sid = auth[state]
           \/ Call[q].kind = "start" /\ req'[q].sid = Call[q].sid
           \/ Call[q].kind = "renew" /\ req'[q].sid = Call[q].new
<1>0. req[q] \in RequestState /\ req \in [Requests -> RequestState]
  BY OthersTyped
<1>1. CASE req'[q] = req[q]
  BY <1>1 DEF Uses, At
<1>2. CASE req'[q] # req[q] /\ Call[q].kind = "callback"
  <2>1. Acts(q)
    BY <1>2, Changed DEF Uses, At, Busy
  <2>2. req[q].pc \in {"idle", "exchange", "putlogin", "adduser"}
    BY <1>2, <2>1, ActsUnanswered DEF KindsFit, KindFits, WithToken, Typed, OnTrack, Busy
  <2>3. KindFits(q, req'[q])
    BY <2>1, ServedFits DEF KindsFit, Acts
  <2>4. OnTrack'
    BY StepTyped DEF Typed
  <2>5. req'[q].pc \in {"exchange", "putlogin", "adduser", "ok"}
    BY <1>2, <2>3, <2>4 DEF Uses, At, KindFits, WithToken, OnTrack, Busy
  <2>6. CASE Callback(q)
    <3>1. ~Answer(q, "failed")
      BY <2>5, AnswerFits DEF Answers, Rest
    <3>2. req'[q].sid = auth[Call[q].state]
      BY <1>0, <2>6, <3>1 DEF Callback, Rest
    <3>. QED  BY <3>2, CallTypes
  <2>7. CASE ExchangeSucceeds(q)
    BY <2>7, GotoGoes DEF ExchangeSucceeds, Uses, At, Busy
  <2>8. CASE PutLogin(q) \/ AddUser(q)
    BY <1>2, <2>5, <2>8, CallbackCourse DEF PutLogin, AddUser, ExchangeSucceeds, Callback, Arrives, MayArrive, Uses, At, Busy
  <2>. QED  BY <1>2, <2>5, <2>6, <2>7, <2>8, CallbackCourse
<1>3. CASE req'[q] # req[q] /\ Call[q].kind # "callback"
  <2>1. Acts(q) /\ req'[q].pc \in Busy \ {"set"}
    BY <1>3, Changed DEF Uses, At, Busy
  <2>2. ~\E code \in Answers : Answer(q, code)
    BY <2>1, AnswerFits DEF Answers, Busy, Rest
  <2>3. CASE Begin(q)
    <3>1. CASE Call[q].kind = "start"
      <4>1. req'[q].pc = "set"
        BY <1>0, <2>3, <3>1 DEF Begin, Rest
      <4>. QED  BY <2>1, <4>1
    <3>2. CASE Call[q].kind # "start"
      <4>1. req'[q].sid = Call[q].sid
        BY <1>0, <2>3, <3>2 DEF Begin, Rest
      <4>2. Call[q].sid \in tokens
        BY <2>3, <3>2 DEF Begin, Arrives, MayArrive, WithToken
      <4>. QED  BY <4>1, <4>2
    <3>. QED  BY <3>1, <3>2
  <2>4. CASE Open(q)
    BY <1>0, <2>2, <2>4, CallTypes DEF Open, Rest, Answers
  <2>5. CASE Start(q)
    <3>1. req'[q].sid = Call[q].sid
      BY <1>0, <2>5 DEF Start
    <3>. QED  BY <2>5, <3>1 DEF Start, Typed, OnTrack, At
  <2>6. CASE Reissue(q)
    BY <1>0, <2>6 DEF Reissue, At, KindsFit, KindFits
  <2>7. ~Callback(q)
    BY <1>3 DEF Callback, Arrives
  <2>8. CASE Hit(q) \/ Fill(q)
    <3>1. \E session : Middleware(q, session)
      BY <2>2, <2>8 DEF Hit, Fill, AddOAuth, Redirect, Answers
    <3>2. req'[q].sid = req[q].sid
      <4>1. PICK session : Middleware(q, session)
        BY <3>1
      <4>2. CASE req' = [req EXCEPT ![q] = [@ EXCEPT !.pc = "user", !.got = session]]
        BY <1>0, <4>2 DEF RequestState
      <4>3. CASE req' = [req EXCEPT ![q] = [@ EXCEPT !.pc = "reget", !.got = NoSession]]
        BY <1>0, <4>3 DEF RequestState
      <4>. QED  BY <2>2, <4>1, <4>2, <4>3 DEF Middleware, Answers
    <3>. QED  BY <2>8, <3>2 DEF Hit, Fill, Uses, At, Busy
  <2>9. CASE Miss(q) \/ DeleteStored(q) \/ ExchangeSucceeds(q) \/ PutLogin(q)
    BY <2>2, <2>9, GotoGoes DEF Miss, DeleteStored, ExchangeSucceeds, PutLogin, Uses, At, Busy, Answers
  <2>10. CASE ReadStore(q) \/ AddUser(q)
    <3>1. req'[q].sid = req[q].sid
      <4>1. CASE ReadStore(q)
        BY <1>0, <4>1 DEF ReadStore, RequestState
      <4>2. CASE AddUser(q)
        BY <1>0, <4>2 DEF AddUser, RequestState
      <4>. QED  BY <2>10, <4>1, <4>2
    <3>. QED  BY <2>10, <3>1 DEF ReadStore, AddUser, Uses, At, Busy
  <2>11. CASE LoadUser(q)
    <3>1. req'[q].sid = req[q].sid
      <4>1. CASE req' = [req EXCEPT ![q] = [@ EXCEPT !.pc = "reget", !.got = NoSession]]
        BY <1>0, <4>1 DEF RequestState
      <4>. QED  BY <2>2, <2>11, <4>1, GotoGoes DEF LoadUser, Answers
    <3>. QED  BY <2>11, <3>1 DEF LoadUser, Uses, At, Busy
  <2>. QED
    BY <2>1, <2>2, <2>3, <2>4, <2>5, <2>6, <2>7, <2>8, <2>9, <2>10, <2>11
    DEF Acts, Serve, ExchangeFails, PutNew, Answers
<1>. QED  BY <1>1, <1>2, <1>3

LEMMA StepUnborn ==
    ASSUME Typed, KindsFit, [Next]_vars, NEW r \in Requests, Unborn(r)'
    PROVE  Unborn(r) /\ ~PutNew(r)
<1>1. ~PutNew(r)
  BY AnswerFits DEF PutNew, Answers, Rest, Unborn
<1>2. CASE req'[r] = req[r]
  BY <1>1, <1>2 DEF Unborn
<1>3. CASE req'[r] # req[r]
  <2>1. Acts(r)
    BY <1>3, Changed DEF Unborn
  <2>2. req[r].pc \in {"idle", "set", "put"}
    BY <2>1, ActsUnanswered DEF Unborn, KindsFit, KindFits, WithToken, Typed, OnTrack, Busy
  <2>. QED  BY <1>1, <2>2 DEF Unborn
<1>. QED  BY <1>2, <1>3

LEMMA StepUnknown == Typed /\ KindsFit /\ Unknown /\ [Next]_vars => Unknown'
<1>. SUFFICES ASSUME Typed, KindsFit, Unknown, [Next]_vars, NEW r \in Requests, Unborn(r)'
              PROVE  /\ Call[r].sid \notin tokens'
                     /\ \A state \in States : auth'[state] # Call[r].sid
                     /\ \A q \in Requests \ {r} : Uses(q)' => req'[q].sid # Call[r].sid
  BY DEF Unknown
<1>1. Unborn(r) /\ ~PutNew(r) /\ Call[r].kind = "start"
  BY StepUnborn DEF Unborn
<1>2. Call[r].sid \notin tokens'
  <2>1. ASSUME NEW q \in Requests, PutNew(q) PROVE req[q].sid # Call[r].sid
    BY <1>1, <2>1 DEF Unknown, Uses, PutNew, At, Busy
  <2>. QED  BY <1>1, <2>1, TokensGiven DEF Unknown
<1>3. ASSUME NEW state \in States PROVE auth'[state] # Call[r].sid
  <2>1. Call[r].sid # NoSid
    BY CallTypes, SentinelsDistinct
  <2>2. ASSUME NEW q \in Requests, Call[q].kind = "login", req[q].pc \in {"reget", "refill"}
        PROVE  req[q].sid # Call[r].sid
    BY <1>1, <2>2 DEF Unknown, Uses, Busy
  <2>. QED  BY <1>1, <2>1, <2>2, StateEntered DEF Unknown
<1>4. ASSUME NEW q \in Requests \ {r}, Uses(q)' PROVE req'[q].sid # Call[r].sid
  <2>1. ~(Call[q].kind = "start" /\ Call[q].sid = Call[r].sid)
    BY <1>1, FreshIds
  <2>2. ~(Call[q].kind = "renew" /\ Call[q].new = Call[r].sid)
    BY <1>1, FreshIds
  <2>. QED  BY <1>1, <1>4, <2>1, <2>2, SidComesFrom DEF Unknown
<1>. QED  BY <1>2, <1>3, <1>4

\* From the write of the login on the session is somebody's until it is given up,
\* and with the answer the person is stored.
SignedIn ==
    \A r \in Requests : Call[r].kind = "callback" =>
        /\ req[r].pc \in {"adduser", "ok"} /\ req[r].sid \notin ended =>
              /\ req[r].sid \in Sids
              /\ store[req[r].sid] # NoSession /\ store[req[r].sid].uid # Nobody
        /\ At(r, "ok") => Call[r].person \in users

LEMMA UsersGrow == ASSUME [Next]_vars PROVE users \subseteq users'
<1>1. ASSUME NEW r \in Requests, Acts(r) PROVE users \subseteq users'
  BY <1>1 DEF Acts, Begin, Open, Callback, ExchangeFails, ExchangeSucceeds, Serve, Start, Hit, Miss, ReadStore,
              Fill, AddOAuth, Redirect, LoadUser, Reissue, AddUser, DeleteStored, PutNew, PutLogin, server
<1>2. CASE HourPasses \/ Gc \/ Restart \/ Quiet \/ UNCHANGED vars
  BY <1>2 DEF HourPasses, Gc, Restart, Quiet, vars
<1>. QED  BY <1>1, <1>2 DEF Next, Acts

LEMMA StepSignedIn ==
    ASSUME Typed, KindsFit, GivenUp, Unknown, SignedIn, [Next]_vars
    PROVE  SignedIn'
<1>. SUFFICES ASSUME NEW r \in Requests, Call[r].kind = "callback"
              PROVE  /\ req'[r].pc \in {"adduser", "ok"} /\ req'[r].sid \notin ended' =>
                           /\ req'[r].sid \in Sids
                           /\ store'[req'[r].sid] # NoSession
                           /\ store'[req'[r].sid].uid # Nobody
                     /\ At(r, "ok")' => Call[r].person \in users'
  BY DEF SignedIn
<1>1. ASSUME NEW p \in Requests, PutLogin(p)
      PROVE  /\ req[p].sid \in Sids
             /\ Authenticated(Call[p].person) # NoSession /\ Authenticated(Call[p].person).uid # Nobody
  BY <1>1, CallTypes, SessionTypes, SentinelsDistinct DEF PutLogin, At, Typed, OnTrack, Busy
<1>2. ASSUME req'[r].pc \in {"adduser", "ok"}, req'[r].sid \notin ended'
      PROVE  /\ req'[r].sid \in Sids
             /\ store'[req'[r].sid] # NoSession /\ store'[req'[r].sid].uid # Nobody
  <2>1. CASE PutLogin(r) /\ req'[r].sid = req[r].sid
    BY <1>1, <2>1, OthersTyped DEF PutLogin
  <2>2. CASE req[r].pc \in {"adduser", "ok"} /\ req'[r].sid = req[r].sid
    <3>. DEFINE s == req[r].sid
    <3>1. s \notin ended /\ s \in Sids /\ store[s] # NoSession /\ store[s].uid # Nobody /\ Uses(r)
      BY <1>2, <2>2, EndedGrows DEF SignedIn, Uses, At, Busy
    <3>2. ASSUME NEW p \in Requests, PutNew(p), req[p].sid = s
          PROVE  req[p].got # NoSession /\ req[p].got.uid # Nobody
      <4>1. req[p].got # NoSession
        BY <3>2 DEF PutNew, At, Typed, OnTrack
      <4>2. ASSUME Call[p].kind = "start", req[p].sid = Call[p].sid PROVE FALSE
        BY <3>1, <3>2, <4>2 DEF Unknown, Unborn, PutNew, At
      <4>. QED  BY <3>2, <4>1, <4>2 DEF PutNew, At, KindsFit, KindFits
    <3>3. ASSUME NEW p \in Requests, DeleteStored(p) PROVE req[p].sid # s
      BY <3>1, <3>3 DEF DeleteStored, GivenUp
    <3>4. store'[s] # NoSession /\ store'[s].uid # Nobody
      BY <1>1, <3>1, <3>2, <3>3, StoreWritten, OthersTyped
    <3>. QED  BY <2>2, <3>1, <3>4
  <2>3. CASE req'[r] = req[r]
    BY <1>2, <2>2, <2>3
  <2>4. CASE req'[r] # req[r]
    BY <1>2, <2>1, <2>2, <2>4, CallbackCourse DEF AddUser, At
  <2>. QED  BY <2>3, <2>4
<1>3. ASSUME At(r, "ok")' PROVE Call[r].person \in users'
  <2>1. CASE req'[r] = req[r]
    BY <1>3, <2>1, UsersGrow DEF SignedIn, At
  <2>2. CASE req'[r] # req[r]
    BY <1>3, <2>2, CallbackCourse DEF AddUser, At
  <2>. QED  BY <2>1, <2>2
<1>. QED  BY <1>2, <1>3

\* Once a login was answered, the person is stored and the session is stored as
\* somebody's until it is given up, through crashes and other logins on it.
THEOREM SignInsLast == Spec => []SignInDurable
<1>1. Init => GivenUp /\ Unknown /\ SignedIn
  BY CallTypes, SentinelsDistinct DEF Init, GivenUp, Unknown, Uses, SignedIn, At, Rest, Busy
<1>2. SignedIn => SignInDurable
  BY DEF SignedIn, SignInDurable, At
<1>3. Typed /\ KindsFit /\ GivenUp /\ Unknown /\ SignedIn /\ [Next]_vars => SignedIn'
  BY StepSignedIn
<1>. QED
  BY <1>1, <1>2, <1>3, InitTyped, InitKinds, StepTyped, StepKinds, StepGivenUp, StepUnknown,
     PTL DEF Spec

-----------------------------------------------------------------------------
\* To requests that come one at a time the cache is invisible

\* The cache names the user the store names, if it has the session at all.
Agree(s) == cache[s] # NoSession => store[s] # NoSession /\ store[s].uid = cache[s].uid

\* What is cached and not yet stored; it was used just now.
Writing(r, s) == /\ req[r].pc \in {"put", "putlogin"}
                 /\ req[r].sid = s /\ s \notin stale

\* What the handler holds is what cache and store have.
Fresh(r) ==
    /\ req[r].pc \in {"fill", "refill"} => req[r].got = store[req[r].sid]
    /\ req[r].pc = "del" => cache[req[r].sid] = NoSession
    /\ req[r].pc \in {"put", "putlogin"} =>
          /\ req[r].sid \notin stale /\ cache[req[r].sid] # NoSession
          /\ cache[req[r].sid].uid = IF At(r, "put") THEN req[r].got.uid ELSE Call[r].person

\* One request is served, and cache and store differ only in what it is writing.
Serial ==
    /\ \A r, q \in InFlight : r = q
    /\ \A s \in Sids : Agree(s) \/ \E r \in InFlight : Writing(r, s)
    /\ \A r \in InFlight : Fresh(r)

OneByOne == script.width = 1 => Serial

LEMMA ScriptStays == ASSUME [Next]_vars PROVE UNCHANGED script
<1>1. ASSUME NEW r \in Requests, Acts(r) PROVE UNCHANGED script
  BY <1>1 DEF Acts, Begin, Open, Callback, ExchangeFails, ExchangeSucceeds, Serve, Start, Hit, Miss, ReadStore,
              Fill, AddOAuth, Redirect, LoadUser, Reissue, AddUser, DeleteStored, PutNew, PutLogin, outside
<1>2. CASE HourPasses \/ Gc \/ Restart \/ Quiet \/ UNCHANGED vars
  BY <1>2 DEF HourPasses, Gc, Restart, Quiet, vars, outside
<1>. QED  BY <1>1, <1>2 DEF Next, Acts

\* Nothing arrives while something is served.
LEMMA ArrivesAlone ==
    ASSUME Typed, script.width = 1, NEW r \in Requests, NEW kinds, Arrives(r, kinds)
    PROVE  InFlight = {}
<1>1. IsFiniteSet(InFlight)
  BY RequestsFinite, FS_Subset DEF InFlight
<1>2. Cardinality(InFlight) = 0
  BY <1>1, FS_CardinalityType DEF Arrives
<1>. QED  BY <1>1, <1>2, FS_EmptySet

\* Who acts is the only one served, before and after.
LEMMA ActsAlone ==
    ASSUME Typed, script.width = 1, Serial, NEW r \in Requests, Acts(r)
    PROVE  /\ InFlight \subseteq {r} /\ InFlight' \subseteq {r}
           /\ \A q \in Requests \ {r} : req'[q] = req[q] /\ req[q].pc \notin Busy
<1>1. InFlight \subseteq {r}
  <2>1. CASE At(r, "idle")
    BY <2>1, ActsUnanswered, ArrivesAlone DEF At, Begin, Open, Callback
  <2>2. CASE ~At(r, "idle")
    BY <2>2, ActsUnanswered DEF At, InFlight, Serial
  <2>. QED  BY <2>1, <2>2
<1>2. \A q \in Requests \ {r} : req'[q] = req[q]
  BY StepAlone DEF Acts, Alone
<1>. QED  BY <1>1, <1>2 DEF InFlight

\* What the steps of the one request do to the cache and to the store.
LEMMA ServeSerial ==
    ASSUME Typed, KindsFit, script.width = 1, Serial, NEW r \in Requests, Acts(r)
    PROVE  /\ \A s \in Sids : View(s)' # View(s) =>
                 /\ r \in InFlight /\ req'[r] # req[r]
                 /\ Call[r].kind \in {"start", "callback", "renew", "end"}
                 /\ s \in {req[r].sid, Call[r].new, Call[r].sid}
           /\ \A s \in Sids : Agree(s)' \/ Writing(r, s)'
           /\ Fresh(r)'
<1>. DEFINE Goal == /\ \A s \in Sids : View(s)' # View(s) =>
                         /\ r \in InFlight /\ req'[r] # req[r]
                         /\ Call[r].kind \in {"start", "callback", "renew", "end"}
                         /\ s \in {req[r].sid, Call[r].new, Call[r].sid}
                    /\ \A s \in Sids : Agree(s)' \/ Writing(r, s)'
                    /\ Fresh(r)'
<1>0. /\ req[r] \in RequestState /\ req \in [Requests -> RequestState]
      /\ cache \in [Sids -> Session \cup {NoSession}] /\ store \in [Sids -> Session \cup {NoSession}]
  BY OthersTyped
<1>1. req[r].pc \notin {"put", "putlogin"} => \A s \in Sids : Agree(s)
  BY ActsAlone DEF Serial, Writing
<1>. DEFINE Held == {"fill", "refill", "del", "put", "putlogin"}
<1>2. ASSUME NEW code \in Answers, Answer(r, code)
      PROVE  req'[r].pc \notin Held
  BY <1>2, AnswerFits DEF Answers, Rest
<1>3. CASE Begin(r) \/ Open(r) \/ Callback(r)
  <2>1. UNCHANGED <<cache, store>> /\ req[r].pc = "idle"
    BY <1>3 DEF Begin, Open, Callback, server, Arrives, MayArrive, At
  <2>2. req'[r].pc \notin Held
    <3>1. CASE Begin(r)
      <4>1. req'[r].pc \in {"set", "get"}
        BY <1>0, <3>1 DEF Begin, Rest
      <4>. QED  BY <4>1
    <3>2. CASE (Open(r) \/ Callback(r)) /\ ~\E code \in Answers : Answer(r, code)
      <4>1. req'[r].pc \in {"reget", "exchange"}
        BY <1>0, <3>2 DEF Open, Callback, Rest, Answers
      <4>. QED  BY <4>1
    <3>. QED  BY <1>2, <1>3, <3>1, <3>2
  <2>. QED  BY <1>1, <2>1, <2>2 DEF View, Agree, Fresh
<1>4. ASSUME NEW session \in Session, req[r].pc \notin {"put", "putlogin"}, req[r].sid \in Sids,
             session.uid = store[req[r].sid].uid, store[req[r].sid] # NoSession,
             cache' = [cache EXCEPT ![req[r].sid] = session], UNCHANGED store,
             req'[r].pc \notin Held
      PROVE  Goal
  <2>1. session # NoSession
    BY SentinelsDistinct
  <2>. QED  BY <1>0, <1>1, <1>4, <2>1 DEF View, Agree, Fresh
<1>5. CASE Hit(r) \/ Fill(r)
  <2>. DEFINE session == IF Hit(r) THEN cache[req[r].sid] ELSE req[r].got
  <2>1. req[r].pc \in {"get", "reget", "fill", "refill"} /\ req[r].sid \in Sids /\ r \in InFlight
    BY <1>5 DEF Hit, Fill, Typed, OnTrack, Busy, InFlight
  <2>2. req'[r].pc \notin Held
    <3>1. ASSUME NEW t, Middleware(r, t) PROVE req'[r].pc \notin Held
      <4>1. CASE req' = [req EXCEPT ![r] = [@ EXCEPT !.pc = "user", !.got = t]]
        <5>1. req'[r].pc = "user"
          BY <1>0, <4>1 DEF RequestState
        <5>. QED  BY <5>1
      <4>2. CASE req' = [req EXCEPT ![r] = [@ EXCEPT !.pc = "reget", !.got = NoSession]]
        <5>1. req'[r].pc = "reget"
          BY <1>0, <4>2 DEF RequestState
        <5>. QED  BY <5>1
      <4>. QED  BY <1>2, <3>1, <4>1, <4>2 DEF Middleware, Answers
    <3>. QED  BY <1>2, <1>5, <3>1 DEF Hit, Fill, AddOAuth, Redirect, Answers
  <2>3. CASE UNCHANGED <<cache, store>>
    BY <1>1, <2>1, <2>2, <2>3 DEF View, Agree, Fresh
  <2>4. CASE ~UNCHANGED <<cache, store>>
    <3>1. session \in Session /\ UNCHANGED store
          /\ \/ cache' = [cache EXCEPT ![req[r].sid] = session]
             \/ cache' = [cache EXCEPT ![req[r].sid] = [session EXCEPT !.state = Call[r].state]]
      BY <1>0, <1>5, <2>1, <2>4 DEF Hit, Fill, Cached, AddOAuth, Redirect, RequestState, server, outside
    <3>2. session.uid = store[req[r].sid].uid /\ store[req[r].sid] # NoSession
      <4>1. CASE Hit(r)
        BY <1>1, <2>1, <4>1 DEF Hit, Agree
      <4>2. CASE ~Hit(r)
        BY <1>5, <2>1, <2>4, <4>2 DEF Fill, Serial, Fresh, server
      <4>. QED  BY <4>1, <4>2
    <3>3. /\ [session EXCEPT !.state = Call[r].state] \in Session
          /\ [session EXCEPT !.state = Call[r].state].uid = session.uid
      BY <3>1, CallTypes, SessionTypes
    <3>. HIDE DEF session
    <3>. QED  BY <1>4, <2>1, <2>2, <3>1, <3>2, <3>3
  <2>. QED  BY <2>3, <2>4
<1>6. CASE Miss(r) \/ ReadStore(r) \/ ExchangeFails(r) \/ AddUser(r)
  <2>1. UNCHANGED <<cache, store>>
    BY <1>6 DEF Miss, ReadStore, ExchangeFails, AddUser, server
  <2>2. req[r].pc \notin {"put", "putlogin"} /\ req'[r].pc \notin {"del", "put", "putlogin"}
    <3>1. CASE ReadStore(r)
      BY <1>0, <3>1 DEF ReadStore, RequestState
    <3>2. CASE AddUser(r)
      BY <1>0, <3>2 DEF AddUser, At, RequestState
    <3>3. CASE Miss(r) \/ ExchangeFails(r)
      BY <1>2, <3>3, GotoGoes DEF Miss, ExchangeFails, At, Answers
    <3>. QED  BY <1>6, <3>1, <3>2, <3>3
  <2>3. req'[r].pc \in {"fill", "refill"} => req'[r].got = store'[req'[r].sid]
    <3>1. CASE ReadStore(r)
      BY <1>0, <2>1, <3>1 DEF ReadStore, RequestState
    <3>2. CASE AddUser(r)
      BY <1>0, <3>2 DEF AddUser, RequestState
    <3>3. CASE Miss(r) \/ ExchangeFails(r)
      BY <1>2, <3>3, GotoGoes DEF Miss, ExchangeFails, Answers
    <3>. QED  BY <1>6, <3>1, <3>2, <3>3
  <2>. QED  BY <1>1, <2>1, <2>2, <2>3 DEF View, Agree, Fresh
<1>7. CASE Start(r)
  <2>1. req'[r] = [pc |-> "put", got |-> Anonymous, sid |-> Call[r].sid]
    BY <1>0, <1>7 DEF Start
  <2>2. /\ Call[r].sid \notin stale' /\ UNCHANGED store
        /\ cache'[Call[r].sid] = Anonymous /\ Anonymous # NoSession
        /\ \A s \in Sids \ {Call[r].sid} : cache'[s] = cache[s]
        /\ req[r].pc = "set" /\ r \in InFlight /\ Call[r].kind = "start"
    BY <1>0, <1>7, CallTypes, SessionTypes, SentinelsDistinct DEF Start, Cached, At, InFlight, Busy, Typed, OnTrack
  <2>. QED  BY <1>1, <2>1, <2>2 DEF View, Agree, Writing, Fresh, At
<1>8. CASE LoadUser(r)
  <2>1. req[r].pc = "user" /\ r \in InFlight /\ UNCHANGED store /\ req[r].sid \in Sids
    BY <1>8 DEF LoadUser, At, InFlight, Busy, Typed, OnTrack
  <2>2. CASE UNCHANGED cache /\ req'[r].pc \notin Held
    BY <1>1, <2>1, <2>2 DEF View, Agree, Fresh
  <2>3. CASE cache' = [cache EXCEPT ![req[r].sid] = NoSession] /\ Goto(r, "del")
             /\ Call[r].kind \in {"renew", "end"}
    <3>1. req'[r].pc = "del" /\ req'[r].sid = req[r].sid
      BY <2>3, GotoGoes
    <3>. QED  BY <1>0, <1>1, <2>1, <2>3, <3>1 DEF View, Agree, Fresh
  <2>4. CASE req' = [req EXCEPT ![r] = [@ EXCEPT !.pc = "reget", !.got = NoSession]] /\ UNCHANGED cache
    <3>1. req'[r].pc = "reget"
      BY <1>0, <2>4 DEF RequestState
    <3>. QED  BY <2>2, <2>4, <3>1
  <2>5. Call[r].kind \in WithToken
    BY <2>1 DEF KindsFit, KindFits
  <2>. QED  BY <1>2, <1>8, <2>2, <2>3, <2>4, <2>5 DEF LoadUser, Answers, WithToken
<1>9. CASE DeleteStored(r)
  <2>1. /\ req[r].pc = "del" /\ r \in InFlight /\ UNCHANGED cache /\ req[r].sid \in Sids
        /\ store' = [store EXCEPT ![req[r].sid] = NoSession]
        /\ Call[r].kind \in {"renew", "end"}
    BY <1>9 DEF DeleteStored, At, InFlight, Busy, Typed, OnTrack, KindsFit, KindFits
  <2>2. req'[r].pc \notin Held
    BY <1>2, <1>9, GotoGoes DEF DeleteStored, Answers
  <2>3. cache[req[r].sid] = NoSession
    BY <2>1 DEF Serial, Fresh
  <2>. QED  BY <1>0, <1>1, <2>1, <2>2, <2>3 DEF View, Agree, Fresh
<1>10. CASE Reissue(r)
  <2>1. req'[r] = [pc |-> "put", got |-> Authenticated(req[r].got.uid), sid |-> Call[r].new]
    BY <1>0, <1>10 DEF Reissue
  <2>2. /\ Call[r].new \notin stale' /\ UNCHANGED store
        /\ cache'[Call[r].new] = Authenticated(req[r].got.uid)
        /\ Authenticated(req[r].got.uid) # NoSession
        /\ \A s \in Sids \ {Call[r].new} : cache'[s] = cache[s]
        /\ req[r].pc = "reissue" /\ r \in InFlight /\ Call[r].kind = "renew"
    BY <1>0, <1>10, CallTypes, SessionTypes, SentinelsDistinct
    DEF Reissue, Cached, At, InFlight, Busy, KindsFit, KindFits, Typed, OnTrack
  <2>. QED  BY <1>1, <2>1, <2>2 DEF View, Agree, Writing, Fresh, At
<1>11. CASE PutNew(r)
  <2>1. /\ req[r].pc = "put" /\ r \in InFlight /\ UNCHANGED cache /\ req[r].sid \in Sids
        /\ store' = [store EXCEPT ![req[r].sid] = req[r].got] /\ req[r].got # NoSession
        /\ Call[r].kind \in {"start", "renew"}
    BY <1>11 DEF PutNew, At, InFlight, Busy, Typed, OnTrack, KindsFit, KindFits
  <2>2. req'[r].pc \notin Held
    BY <1>2, <1>11 DEF PutNew, Answers
  <2>3. cache[req[r].sid].uid = req[r].got.uid
    BY <2>1 DEF Serial, Fresh, At
  <2>4. \A s \in Sids : s # req[r].sid => Agree(s)
    BY ActsAlone DEF Serial, Writing
  <2>. QED  BY <1>0, <2>1, <2>2, <2>3, <2>4 DEF View, Agree, Fresh
<1>12. CASE ExchangeSucceeds(r)
  <2>1. req'[r].pc = "putlogin" /\ req'[r].sid = req[r].sid
    BY <1>12, GotoGoes DEF ExchangeSucceeds
  <2>2. /\ req[r].pc = "exchange" /\ r \in InFlight /\ UNCHANGED store /\ req[r].sid \in Sids
        /\ req[r].sid \notin stale' /\ Call[r].kind = "callback"
        /\ cache' = [cache EXCEPT ![req[r].sid] = Authenticated(Call[r].person)]
    BY <1>12 DEF ExchangeSucceeds, Cached, At, InFlight, Busy, Typed, OnTrack
  <2>3. Authenticated(Call[r].person) # NoSession /\ Authenticated(Call[r].person).uid = Call[r].person
    BY CallTypes, SessionTypes, SentinelsDistinct
  <2>. QED  BY <1>0, <1>1, <2>1, <2>2, <2>3 DEF View, Agree, Writing, Fresh, At
<1>13. CASE PutLogin(r)
  <2>1. req'[r].pc = "adduser"
    BY <1>13, GotoGoes DEF PutLogin
  <2>2. /\ req[r].pc = "putlogin" /\ r \in InFlight /\ UNCHANGED cache /\ req[r].sid \in Sids
        /\ store' = [store EXCEPT ![req[r].sid] = Authenticated(Call[r].person)]
        /\ Call[r].kind = "callback"
    BY <1>13 DEF PutLogin, At, InFlight, Busy, Typed, OnTrack
  <2>3. Authenticated(Call[r].person) # NoSession /\ Authenticated(Call[r].person).uid = Call[r].person
    BY CallTypes, SessionTypes, SentinelsDistinct
  <2>4. cache[req[r].sid].uid = Call[r].person
    BY <2>2 DEF Serial, Fresh, At
  <2>5. \A s \in Sids : s # req[r].sid => Agree(s)
    BY ActsAlone DEF Serial, Writing
  <2>. QED  BY <1>0, <2>1, <2>2, <2>3, <2>4, <2>5 DEF View, Agree, Fresh
<1>. QED
  BY <1>3, <1>5, <1>6, <1>7, <1>8, <1>9, <1>10, <1>11, <1>12, <1>13 DEF Acts, Serve

LEMMA InitSerial == Init => OneByOne
  BY CallTypes, SentinelsDistinct DEF Init, OneByOne, Serial, InFlight, Agree, Rest, Busy

\* The steps of no request: the clock, eviction and a restart.
LEMMA WorldSerial ==
    ASSUME Typed, KindsFit, script.width = 1, Serial,
           HourPasses \/ Gc \/ Restart \/ Quiet \/ UNCHANGED vars
    PROVE  /\ Serial'
           /\ \A s \in Sids : View(s)' # View(s) =>
                 \E r \in InFlight :
                     /\ req'[r] # req[r]
                     /\ Call[r].kind \in {"start", "callback", "renew", "end"}
                     /\ s \in {req[r].sid, Call[r].new, Call[r].sid}
<1>0. /\ cache \in [Sids -> Session \cup {NoSession}] /\ store \in [Sids -> Session \cup {NoSession}]
      /\ req \in [Requests -> RequestState]
  BY DEF Typed, TypeOK
<1>1. CASE Quiet \/ UNCHANGED vars
  BY <1>1 DEF Quiet, vars, Serial, InFlight, Agree, Writing, Fresh, At, View
<1>2. CASE HourPasses
  <2>1. UNCHANGED <<cache, store, req>> /\ \A r \in InFlight : req[r].pc = "exchange"
    BY <1>2 DEF HourPasses, At
  <2>2. \A s \in Sids : Agree(s)
    BY <2>1 DEF Serial, Writing
  <2>3. \A r \in InFlight : Fresh(r)'
    BY <2>1 DEF Fresh
  <2>. QED  BY <2>1, <2>2, <2>3 DEF Serial, InFlight, Agree, View
<1>3. CASE Gc
  <2>1. /\ UNCHANGED <<store, req>> /\ stale' = {}
        /\ \A s \in Sids : cache'[s] = IF s \in stale THEN NoSession ELSE cache[s]
    BY <1>3 DEF Gc
  <2>2. \A s \in stale : s \in Sids => Agree(s)
    BY DEF Serial, Writing
  <2>3. \A s \in Sids : View(s)' = View(s)
    BY <2>1, <2>2 DEF View, Agree
  <2>4. \A s \in Sids : Agree(s)' \/ \E r \in InFlight : Writing(r, s)'
    <3>. SUFFICES ASSUME NEW s \in Sids, NEW r \in InFlight, Writing(r, s) PROVE Writing(r, s)'
      BY <2>1 DEF Serial, Agree
    <3>. QED  BY <2>1 DEF Writing
  <2>5. ASSUME NEW r \in InFlight PROVE Fresh(r)'
    <3>1. Fresh(r) /\ (req[r].pc \in {"put", "putlogin", "del"} => req[r].sid \in Sids)
      BY DEF Serial, Typed, OnTrack, InFlight, Busy
    <3>. QED  BY <2>1, <3>1 DEF Fresh, At
  <2>. QED  BY <2>1, <2>3, <2>4, <2>5 DEF Serial, InFlight
<1>4. CASE Restart
  <2>1. /\ UNCHANGED store /\ \A s \in Sids : cache'[s] = NoSession
        /\ \A r \in Requests : req'[r].pc \notin Busy
        /\ \A r \in InFlight : req'[r].pc # req[r].pc
    BY <1>4 DEF Restart, InFlight, Busy, Rest
  <2>2. Serial'
    BY <2>1 DEF Serial, InFlight, Agree
  <2>3. ASSUME NEW s \in Sids, View(s)' # View(s)
        PROVE  \E r \in InFlight :
                  /\ req'[r] # req[r]
                  /\ Call[r].kind \in {"start", "callback", "renew", "end"}
                  /\ s \in {req[r].sid, Call[r].new, Call[r].sid}
    <3>1. ~Agree(s)
      BY <2>1, <2>3 DEF View, Agree
    <3>2. PICK r \in InFlight : Writing(r, s)
      BY <3>1 DEF Serial
    <3>3. Call[r].kind \in {"start", "callback", "renew"}
      BY <3>2 DEF Writing, KindsFit, KindFits, Typed, OnTrack, InFlight
    <3>. QED  BY <2>1, <3>2, <3>3 DEF Writing
  <2>. QED  BY <2>2, <2>3
<1>. QED  BY <1>1, <1>2, <1>3, <1>4

LEMMA StepSerial ==
    ASSUME Typed, KindsFit, script.width = 1, Serial, [Next]_vars
    PROVE  /\ Serial'
           /\ \A s \in Sids : View(s)' # View(s) =>
                 \E r \in InFlight :
                     /\ req'[r] # req[r]
                     /\ Call[r].kind \in {"start", "callback", "renew", "end"}
                     /\ s \in {req[r].sid, Call[r].new, Call[r].sid}
<1>1. ASSUME NEW r \in Requests, Acts(r)
      PROVE  /\ Serial'
             /\ \A s \in Sids : View(s)' # View(s) =>
                   /\ r \in InFlight /\ req'[r] # req[r]
                   /\ Call[r].kind \in {"start", "callback", "renew", "end"}
                   /\ s \in {req[r].sid, Call[r].new, Call[r].sid}
  <2>1. InFlight' \subseteq {r}
    BY <1>1, ActsAlone
  <2>2. /\ \A s \in Sids : View(s)' # View(s) =>
              /\ r \in InFlight /\ req'[r] # req[r]
              /\ Call[r].kind \in {"start", "callback", "renew", "end"}
              /\ s \in {req[r].sid, Call[r].new, Call[r].sid}
        /\ \A s \in Sids : Agree(s)' \/ Writing(r, s)'
        /\ Fresh(r)'
    BY <1>1, ServeSerial
  <2>3. \A s \in Sids : Writing(r, s)' => r \in InFlight'
    BY DEF Writing, InFlight, Busy
  <2>. QED  BY <2>1, <2>2, <2>3 DEF Serial
<1>2. CASE HourPasses \/ Gc \/ Restart \/ Quiet \/ UNCHANGED vars
  BY <1>2, WorldSerial
<1>. QED  BY <1>1, <1>2 DEF Next, Acts

\* The cache is invisible to requests that come one at a time: eviction, filling
\* and restarts never change what AppSession.get answers for a session; only a
\* request that starts, signs in, renews or ends that session does.
THEOREM CacheTransparent == Spec => CacheInvisible
<1>1. Typed /\ KindsFit /\ OneByOne /\ [Next]_vars => OneByOne'
  BY StepSerial, ScriptStays DEF OneByOne
<1>2. Typed /\ KindsFit /\ OneByOne /\ [Next]_vars =>
        [script.width = 1 =>
           \A s \in Sids : View(s)' # View(s) =>
              \E r \in InFlight :
                  /\ req'[r] # req[r]
                  /\ Call[r].kind \in {"start", "callback", "renew", "end"}
                  /\ s \in {req[r].sid, Call[r].new, Call[r].sid}]_vars
  BY StepSerial DEF OneByOne
<1>. QED
  BY <1>1, <1>2, InitTyped, InitKinds, InitSerial, StepTyped, StepKinds, PTL DEF Spec, CacheInvisible
=============================================================================
