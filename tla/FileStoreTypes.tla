---------------------------- MODULE FileStoreTypes ----------------------------
(***************************************************************************)
(* Type correctness of FileStore, for every value of its constants.  The   *)
(* types alone are not inductive: PATCH copies the record it has read, an  *)
(* operation is taken off a list, a copy is written back.  That there is a *)
(* record, an operation and a copy is what the program counter says, and   *)
(* OnTrack states it.                                                      *)
(***************************************************************************)
EXTENDS FileStore, TLAPS

\* What the program counter of request r says of its local state x and of the
\* files F: which kinds of request get there, and what they hold by then.
OnTrack(F, r, x) ==
    /\ x.pc = "idle" => x = Rest(r)
    /\ x.pc = "exists" => Call[r].kind = "create"
    /\ x.pc \notin Reading => x.seen = Unread
    /\ x.pc \in {"readcheck", "read"} => Call[r].kind \in {"read", "patch", "delete"}
    /\ x.pc = "writecheck" =>
          /\ Call[r].kind # "read"
          /\ Call[r].kind = "create" => Call[r].parent # Root
          /\ Call[r].kind = "patch" => x.doc # Absent
    /\ x.pc = "get" => Call[r].kind \in {"access", "delete"}
    /\ x.pc \in {"op", "link"} =>
          Call[r].kind = "access" /\ x.doc # Absent /\ x.todo # <<>>
    /\ x.pc = "link" => Head(x.todo).to \in Users
    /\ x.pc = "bin" => Call[r].kind = "delete" /\ x.doc # Absent
    /\ x.pc = "put" =>
          Call[r].kind # "read" /\ (Call[r].kind # "create" => x.doc # Absent)
    /\ x.pc \in {"scan", "unlink"} => Call[r].kind = "delete"
    /\ x.pc \in {"read", "get"} => x.at = Call[r].file
    /\ x.seen \notin {Absent, Unread} => F[x.at] # Absent
    /\ x.pc = "readcheck" => (x.at = Call[r].file \/ F[Call[r].file] # Absent)
    /\ x.pc = "read" => F[Call[r].file] # Absent /\ x.seen # Absent

Typed == /\ TypeOK
         /\ \A r \in Requests : OnTrack(files, r, req[r])

-----------------------------------------------------------------------------
\* The constants, and the ways a step writes req

LEMMA CallTypes ==
    ASSUME NEW r \in Requests
    PROVE  /\ Call[r].kind \in Kinds /\ Call[r].user \in Users
           /\ Call[r].file \in Files /\ Call[r].parent \in Files \cup {Root}
           /\ Call[r].ops \in Seq(AccessOp)
  BY CallsTyped DEF CallType

LEMMA RestTyped == \A r \in Requests : Rest(r) \in RequestState
  BY CallTypes DEF Rest, RequestState, NoMem

\* The local states a handler ends in.
LEMMA EndTyped ==
    ASSUME NEW r \in Requests, NEW code \in Answers, NEW F,
           NEW told \in SUBSET (Events \X Users)
    PROVE  /\ [Rest(r) EXCEPT !.pc = code, !.told = told] \in RequestState
           /\ OnTrack(F, r, [Rest(r) EXCEPT !.pc = code, !.told = told])
<1>1. [Rest(r) EXCEPT !.pc = code, !.told = told] \in RequestState
  BY ZenonT(30), RestTyped DEF RequestState
<1>2. OnTrack(F, r, [Rest(r) EXCEPT !.pc = code, !.told = told])
  BY DEF OnTrack, Rest, Answers
<1>. QED  BY <1>1, <1>2

\* Files do not disappear, so what the others hold stays good.
LEMMA OnTrackKept ==
    ASSUME NEW F, NEW F2, NEW r \in Requests, NEW x \in RequestState,
           \A f \in Files : F[f] # Absent => F2[f] # Absent,
           OnTrack(F, r, x)
    PROVE  OnTrack(F2, r, x)
  BY CallTypes DEF OnTrack, RequestState

LEMMA StepTyped ==
    ASSUME Typed, NEW r \in Requests, NEW x \in RequestState,
           Become(r, x), OnTrack(files', r, x),
           \A f \in Files : files[f] # Absent => files'[f] # Absent
    PROVE  /\ req' \in [Requests -> RequestState]
           /\ \A s \in Requests : OnTrack(files', s, req'[s])
<1>1. req' \in [Requests -> RequestState]
  BY DEF Typed, TypeOK, Become
<1>2. ASSUME NEW s \in Requests PROVE OnTrack(files', s, req'[s])
  <2>1. CASE s = r
    BY <2>1 DEF Become, Typed, TypeOK
  <2>2. CASE s # r
    <3>1. req'[s] = req[s] /\ req[s] \in RequestState
      BY <2>2 DEF Become, Typed, TypeOK
    <3>. QED  BY <3>1, OnTrackKept DEF Typed
  <2>. QED  BY <2>1, <2>2
<1>. QED  BY <1>1, <1>2

LEMMA StepAnswered ==
    ASSUME Typed, NEW r \in Requests, NEW code \in Answers, Answer(r, code),
           UNCHANGED files
    PROVE  /\ req' \in [Requests -> RequestState]
           /\ \A s \in Requests : OnTrack(files', s, req'[s])
<1>1. req[r].told \in SUBSET (Events \X Users)
  BY DEF Typed, TypeOK, RequestState
<1>. QED  BY <1>1, EndTyped, StepTyped DEF Answer

-----------------------------------------------------------------------------
\* One lemma per action

LEMMA InitTyped == Init => Typed
<1>. SUFFICES ASSUME Init PROVE Typed
  OBVIOUS
<1>1. TypeOK
  <2>1. issued \subseteq Grantees \X Files \X Roles
    BY InitialStoreWellFormed DEF Init
  <2>2. placed \subseteq Files \X (Files \cup {Root})
    BY InitialStoreWellFormed DEF Init
  <2>3. req \in [Requests -> RequestState]
    BY RestTyped DEF Init
  <2>4. now \in 0..MaxTime
    BY BoundsTyped DEF Init
  <2>. QED  BY <2>1, <2>2, <2>3, <2>4, InitialStoreWellFormed DEF Init, TypeOK
<1>2. \A r \in Requests : OnTrack(files, r, req[r])
  BY DEF Init, OnTrack, Rest
<1>. QED  BY <1>1, <1>2 DEF Typed

LEMMA BeginTyped ==
    ASSUME Typed, NEW r \in Requests, Begin(r)
    PROVE  Typed'
<1>. DEFINE x == [req[r] EXCEPT !.pc =
          CASE Call[r].kind = "create" -> "exists"
            [] Call[r].kind = "access" -> "writecheck"
            [] OTHER -> "readcheck"]
<1>1. req[r] = Rest(r) /\ req[r] \in RequestState
  BY DEF Begin, Typed, TypeOK, OnTrack
<1>2. x \in RequestState
  BY <1>1 DEF RequestState, Busy
<1>3. OnTrack(files', r, x)
  BY <1>1, CallTypes DEF OnTrack, Rest, Begin, store, Kinds
<1>. QED  BY <1>2, <1>3, StepTyped DEF Begin, Typed, TypeOK, store, history

LEMMA FetchTyped ==
    ASSUME Typed, NEW r \in Requests, Fetch(r)
    PROVE  Typed'
<1>. DEFINE x == [req[r] EXCEPT !.seen = files[req[r].at]]
<1>1. req[r] \in RequestState /\ OnTrack(files, r, req[r])
  BY DEF Typed, TypeOK
<1>2. x \in RequestState
  BY <1>1 DEF RequestState, Typed, TypeOK
<1>3. OnTrack(files', r, x)
  BY <1>1 DEF OnTrack, RequestState, Fetch, Reading, store
<1>. QED  BY <1>2, <1>3, StepTyped DEF Fetch, Typed, TypeOK, store, history

LEMMA CheckExistsTyped ==
    ASSUME Typed, NEW r \in Requests, CheckExists(r)
    PROVE  Typed'
<1>1. req[r] \in RequestState /\ OnTrack(files, r, req[r])
  BY DEF Typed, TypeOK
<1>2. CASE Answer(r, "400")
  BY <1>2, StepAnswered DEF CheckExists, Answers, Typed, TypeOK, store, history
<1>3. CASE Call[r].parent = Root /\ Become(r, [req[r] EXCEPT !.pc = "put"])
  <2>1. [req[r] EXCEPT !.pc = "put"] \in RequestState
    BY <1>1 DEF RequestState, Busy
  <2>2. OnTrack(files', r, [req[r] EXCEPT !.pc = "put"])
    BY <1>1 DEF OnTrack, Reading, RequestState, CheckExists, store
  <2>. QED
    BY <1>3, <2>1, <2>2, StepTyped DEF CheckExists, Typed, TypeOK, store, history
<1>4. CASE /\ Call[r].parent # Root
           /\ Become(r, [req[r] EXCEPT !.pc = "writecheck", !.at = Call[r].parent])
  <2>. DEFINE x == [req[r] EXCEPT !.pc = "writecheck", !.at = Call[r].parent]
  <2>1. x \in RequestState
    BY <1>1, <1>4, CallTypes DEF RequestState, Busy
  <2>2. OnTrack(files', r, x)
    BY <1>1, <1>4 DEF OnTrack, Reading, RequestState, CheckExists, store
  <2>. QED
    BY <1>4, <2>1, <2>2, StepTyped DEF CheckExists, Typed, TypeOK, store, history
<1>. QED  BY <1>2, <1>3, <1>4 DEF CheckExists

\* The role the walk finds is one, or "none".
LEMMA RoleTyped ==
    ASSUME TypeOK, NEW d \in FileRecord, NEW u \in Users
    PROVE  RoleAt(d, u) \in Roles \cup {"none"}
<1>. DEFINE live == {p \in Listed(d.ids) : Live(perms[p])}
            own  == {p \in live : perms[p].to = u}
            any  == {p \in live : perms[p].to = Anyone}
<1>1. \A p \in live : perms[p] \in Permission
  BY DEF TypeOK, Listed, FileRecord
<1>2. own # {} => (CHOOSE p \in own : TRUE) \in live
  <2>1. own # {} => (CHOOSE p \in own : TRUE) \in own
    OBVIOUS
  <2>. QED  BY <2>1
<1>3. any # {} => (CHOOSE p \in any : TRUE) \in live
  <2>1. any # {} => (CHOOSE p \in any : TRUE) \in any
    OBVIOUS
  <2>. QED  BY <2>1
<1>. HIDE DEF live, own, any
<1>4. own # {} => perms[CHOOSE p \in own : TRUE].role \in Roles
  BY <1>1, <1>2 DEF Permission
<1>5. any # {} => perms[CHOOSE p \in any : TRUE].role \in Roles
  BY <1>1, <1>3 DEF Permission
<1>. QED  BY <1>4, <1>5 DEF RoleAt, live, own, any, Roles

LEMMA CheckTyped ==
    ASSUME Typed, NEW r \in Requests, Check(r)
    PROVE  Typed'
<1>. DEFINE q == req[r]
            role == RoleAt(q.seen, Call[r].user)
            up == [q EXCEPT !.at = q.seen.parent, !.seen = Unread]
            on == [q EXCEPT !.pc = AfterCheck(r), !.role = role,
                            !.at = Call[r].file, !.seen = Unread]
<1>1. q \in RequestState /\ OnTrack(files, r, q)
  BY DEF Typed, TypeOK
<1>2. UNCHANGED <<store, now, history>> /\ q.pc \in {"readcheck", "writecheck"}
  BY DEF Check, Fetched
<1>3. CASE Answer(r, "404") \/ Answer(r, "403")
  BY <1>2, <1>3, StepAnswered DEF Answers, Typed, TypeOK, store, history
<1>4. CASE /\ q.seen \in FileRecord /\ q.seen.parent # Root /\ Become(r, up)
  <2>1. up \in RequestState
    BY <1>1, <1>4 DEF RequestState, FileRecord
  <2>2. OnTrack(files', r, up)
    BY <1>1, <1>2, <1>4, SentinelsDistinct DEF OnTrack, RequestState, store
  <2>. HIDE DEF up
  <2>. QED  BY <1>2, <1>4, <2>1, <2>2, StepTyped DEF Typed, TypeOK, store, history
<1>5. CASE q.seen \in FileRecord /\ Become(r, on)
  <2>1. on \in RequestState
    <3>1. role \in Roles \cup {"none"}
      BY <1>5, RoleTyped, CallTypes DEF Typed
    <3>2. AfterCheck(r) \in Busy
      BY DEF AfterCheck, Busy
    <3>. HIDE DEF role
    <3>. QED  BY <1>1, <3>1, <3>2, CallTypes DEF RequestState
  <2>2. OnTrack(files', r, on)
    <3>1. files' = files /\ files[q.at] # Absent
      BY <1>1, <1>2, <1>5, SentinelsDistinct DEF OnTrack, store
    <3>2. /\ on.pc = AfterCheck(r) /\ on.at = Call[r].file
          /\ on.seen = Unread /\ on.doc = q.doc
      BY <1>1 DEF RequestState
    <3>. HIDE DEF role, on
    <3>3. CASE q.pc = "readcheck"
      BY <1>1, <3>1, <3>2, <3>3, SentinelsDistinct DEF OnTrack, AfterCheck
    <3>4. CASE q.pc = "writecheck"
      BY <1>1, <3>1, <3>2, <3>4, CallTypes, SentinelsDistinct
         DEF OnTrack, AfterCheck, Kinds
    <3>. QED  BY <1>2, <3>3, <3>4
  <2>. HIDE DEF on
  <2>. QED  BY <1>2, <1>5, <2>1, <2>2, StepTyped DEF Typed, TypeOK, store, history
<1>6. q.seen \in FileRecord \cup {Absent}
  BY <1>1 DEF Check, Fetched, RequestState
<1>. QED  BY <1>3, <1>4, <1>5, <1>6 DEF Check

LEMMA ReadTyped ==
    ASSUME Typed, NEW r \in Requests, Read(r)
    PROVE  Typed'
<1>. DEFINE q == req[r]
            again == [q EXCEPT !.pc = "writecheck", !.seen = Unread]
            edited == [q EXCEPT !.pc = "writecheck", !.seen = Unread,
                                !.doc = [q.seen EXCEPT !.edits = @ \cup {r}]]
<1>1. q \in RequestState /\ OnTrack(files, r, q) /\ q.pc = "read"
  BY DEF Typed, TypeOK, Read, Fetched
<1>2. UNCHANGED <<store, now, history>> /\ q.seen \in FileRecord
  BY <1>1 DEF Read, Fetched, RequestState, OnTrack
<1>3. CASE Answer(r, "ok")
  BY <1>2, <1>3, StepAnswered DEF Answers, Typed, TypeOK, store, history
<1>4. CASE Call[r].kind = "delete" /\ Become(r, again)
  <2>1. again \in RequestState
    BY <1>1 DEF RequestState, Busy
  <2>2. OnTrack(files', r, again)
    BY <1>1, <1>2, <1>4 DEF OnTrack, RequestState, store
  <2>. HIDE DEF again
  <2>. QED  BY <1>2, <1>4, <2>1, <2>2, StepTyped DEF Typed, TypeOK, store, history
<1>5. CASE Call[r].kind = "patch" /\ Become(r, edited)
  <2>1. [q.seen EXCEPT !.edits = @ \cup {r}] \in FileRecord
    BY <1>2 DEF FileRecord
  <2>2. edited \in RequestState
    BY <1>1, <2>1 DEF RequestState, Busy
  <2>3. OnTrack(files', r, edited)
    BY <1>1, <1>2, <1>5, <2>1, SentinelsDistinct DEF OnTrack, RequestState, store
  <2>. HIDE DEF edited
  <2>. QED  BY <1>2, <1>5, <2>2, <2>3, StepTyped DEF Typed, TypeOK, store, history
<1>6. Call[r].kind \in {"read", "patch", "delete"}
  BY <1>1 DEF OnTrack
<1>. QED  BY <1>3, <1>4, <1>5, <1>6 DEF Read

LEMMA GetTyped ==
    ASSUME Typed, NEW r \in Requests, Get(r)
    PROVE  Typed'
<1>. DEFINE q == req[r]
            ids == [p \in PermIds |-> IF p \in q.seen.ids THEN perms[p] ELSE NoPerm]
            work == [q EXCEPT !.pc = AfterOps(Call[r].ops), !.seen = Unread,
                              !.doc = q.seen, !.mem = ids, !.todo = Call[r].ops]
            gone == [q.seen EXCEPT !.deleted = TRUE, !.deletedBy = Call[r].user]
            remove == [q EXCEPT !.pc = "bin", !.seen = Unread, !.doc = gone]
<1>1. q \in RequestState /\ OnTrack(files, r, q) /\ q.pc = "get"
  BY DEF Typed, TypeOK, Get, Fetched
<1>2. UNCHANGED <<store, now, history>> /\ q.seen \in FileRecord \cup {Absent}
  BY <1>1 DEF Get, Fetched, RequestState
<1>3. CASE Answer(r, "404") \/ Answer(r, "403")
  BY <1>2, <1>3, StepAnswered DEF Answers, Typed, TypeOK, store, history
<1>4. CASE q.seen \in FileRecord /\ Call[r].kind = "access" /\ Become(r, work)
  <2>1. ids \in [PermIds -> Permission \cup {NoPerm}]
    BY DEF Typed, TypeOK
  <2>2. AfterOps(Call[r].ops) \in Busy /\ Call[r].ops \in Seq(AccessOp)
    BY CallTypes DEF AfterOps, Busy
  <2>3. work = [q EXCEPT !.pc = AfterOps(Call[r].ops), !.seen = Unread,
                         !.doc = q.seen, !.mem = ids, !.todo = Call[r].ops]
    OBVIOUS
  <2>. HIDE DEF ids, work, q
  <2>4. work \in RequestState
    BY <1>1, <1>4, <2>1, <2>2, <2>3 DEF RequestState
  <2>. USE DEF work, q
  <2>5. OnTrack(files', r, work)
    BY <1>1, <1>2, <1>4, SentinelsDistinct
       DEF OnTrack, RequestState, AfterOps, store
  <2>. HIDE DEF work
  <2>. QED  BY <1>2, <1>4, <2>4, <2>5, StepTyped DEF Typed, TypeOK, store, history
<1>5. CASE q.seen \in FileRecord /\ Call[r].kind = "delete" /\ Become(r, remove)
  <2>1. gone \in FileRecord
    BY <1>5, CallTypes DEF FileRecord
  <2>. HIDE DEF gone
  <2>2. remove \in RequestState
    BY <1>1, <2>1 DEF RequestState, Busy
  <2>3. OnTrack(files', r, remove)
    BY <1>1, <1>2, <1>5, <2>1, SentinelsDistinct DEF OnTrack, RequestState, store
  <2>. HIDE DEF remove
  <2>. QED  BY <1>2, <1>5, <2>2, <2>3, StepTyped DEF Typed, TypeOK, store, history
<1>6. Call[r].kind \in {"access", "delete"}
  BY <1>1 DEF OnTrack
<1>. QED  BY <1>2, <1>3, <1>4, <1>5, <1>6 DEF Get

-----------------------------------------------------------------------------
\* The operations of an access patch

LEMMA OpTyped ==
    ASSUME Typed, NEW r \in Requests, req[r].pc \in {"op", "link"}
    PROVE  /\ req[r] \in RequestState /\ OnTrack(files, r, req[r])
           /\ Call[r].kind = "access" /\ req[r].doc \in FileRecord
           /\ Op(r) \in AccessOp /\ Tail(req[r].todo) \in Seq(AccessOp)
<1>1. req[r] \in RequestState /\ OnTrack(files, r, req[r])
  BY DEF Typed, TypeOK
<1>2. Call[r].kind = "access" /\ req[r].doc \in FileRecord /\ req[r].todo # <<>>
  BY <1>1 DEF OnTrack, RequestState
<1>3. req[r].todo \in Seq(AccessOp)
  BY <1>1 DEF RequestState
<1>. QED  BY <1>1, <1>2, <1>3 DEF Op

\* Once an operation is done, the next one or the write of the file follows.
LEMMA NextOpTyped ==
    ASSUME NEW F, NEW r \in Requests, NEW x \in RequestState,
           OnTrack(F, r, x), x.pc \in {"op", "link"}
    PROVE  NextOp(x) \in RequestState /\ OnTrack(F, r, NextOp(x))
<1>. DEFINE y == NextOp(x)
<1>1. x.todo \in Seq(AccessOp) /\ x.todo # <<>>
  BY DEF OnTrack, RequestState
<1>2. Tail(x.todo) \in Seq(AccessOp)
  BY <1>1
<1>3. AfterOps(Tail(x.todo)) \in {"put", "op"}
  BY DEF AfterOps
<1>4. y \in RequestState
  BY <1>2, <1>3 DEF NextOp, RequestState, Busy
<1>5. /\ y.pc = AfterOps(Tail(x.todo)) /\ y.todo = Tail(x.todo)
      /\ y.doc = x.doc /\ y.seen = x.seen /\ y.at = x.at
  BY DEF NextOp, RequestState
<1>. HIDE DEF y
<1>6. OnTrack(F, r, y)
  BY <1>3, <1>5 DEF OnTrack, Reading, AfterOps
<1>. QED  BY <1>4, <1>6 DEF y

\* The handler's copy once permission p of it is m.
With(q, p, m) == [q EXCEPT !.doc.ids = @ \cup {p}, !.mem[p] = m]

\* What addPermission writes: one record, the grantee's own or a new one.
LEMMA PermissionWritten ==
    ASSUME Typed, NEW r \in Requests, AddPermission(r)
    PROVE  \E p \in PermIds, m \in Permission :
              /\ m.to = Op(r).to /\ m.role = Op(r).role /\ m.addedBy = Call[r].user
              /\ Matching(r) # {} => p \in Matching(r)
              /\ Matching(r) = {} => perms[p] = NoPerm
              /\ perms' = [perms EXCEPT ![p] = m]
              /\ Become(r, IF Op(r).to \in Users
                           THEN [With(req[r], p, m) EXCEPT !.pc = "link"]
                           ELSE NextOp(With(req[r], p, m)))
<1>. DEFINE q == req[r]
            kept(p) == IF Matching(r) # {} /\ Op(r).expires = 0
                       THEN q.mem[p].expires ELSE Op(r).expires
            mark(p) == IF Matching(r) # {} THEN q.mem[p].deleted ELSE FALSE
            perm(p) == [to |-> Op(r).to, role |-> Op(r).role, expires |-> kept(p),
                        addedBy |-> Call[r].user, deleted |-> mark(p)]
<1>1. PICK p \in PermIds :
        /\ Matching(r) # {} => p \in Matching(r)
        /\ Matching(r) = {} => perms[p] = NoPerm
        /\ perms' = [perms EXCEPT ![p] = perm(p)]
        /\ Become(r, IF Op(r).to \in Users
                     THEN [With(q, p, perm(p)) EXCEPT !.pc = "link"]
                     ELSE NextOp(With(q, p, perm(p))))
  <2>1. Matching(r) \subseteq PermIds
    BY OpTyped DEF Matching, AddPermission, FileRecord
  <2>. QED  BY <2>1 DEF AddPermission, With
<1>2. perm(p) \in Permission
  <2>1. q \in RequestState /\ Op(r) \in AccessOp
    BY OpTyped DEF AddPermission
  <2>2. Matching(r) # {} => q.mem[p] \in Permission
    BY <1>1, <2>1 DEF Matching, RequestState
  <2>3. kept(p) \in 0..MaxTime
    BY <2>1, <2>2 DEF Permission, AccessOp
  <2>4. mark(p) \in BOOLEAN
    BY <2>2 DEF Permission
  <2>. HIDE DEF kept, mark
  <2>. QED  BY <2>1, <2>3, <2>4, CallTypes DEF Permission, AccessOp
<1>3. /\ perm(p).to = Op(r).to /\ perm(p).role = Op(r).role
      /\ perm(p).addedBy = Call[r].user
  OBVIOUS
<1>. HIDE DEF perm
<1>. QED  BY <1>1, <1>2, <1>3

LEMMA WithTyped ==
    ASSUME NEW F, NEW r \in Requests, NEW q \in RequestState, OnTrack(F, r, q),
           q.pc = "op", q.doc \in FileRecord, NEW p \in PermIds, NEW m \in Permission
    PROVE  /\ With(q, p, m) \in RequestState /\ OnTrack(F, r, With(q, p, m))
           /\ With(q, p, m).pc = "op" /\ With(q, p, m).todo = q.todo
           /\ With(q, p, m).seen = q.seen
           /\ With(q, p, m).doc = [q.doc EXCEPT !.ids = @ \cup {p}]
           /\ With(q, p, m).mem = [q.mem EXCEPT ![p] = m]
           /\ With(q, p, m).doc # Absent
<1>. DEFINE new == With(q, p, m)
<1>1. [q.doc EXCEPT !.ids = @ \cup {p}] \in FileRecord
  BY DEF FileRecord
<1>2. [q.mem EXCEPT ![p] = m] \in [PermIds -> Permission \cup {NoPerm}]
  BY DEF RequestState
<1>3. new = [q EXCEPT !.doc = [q.doc EXCEPT !.ids = @ \cup {p}],
                      !.mem = [q.mem EXCEPT ![p] = m]]
  BY DEF With, RequestState, FileRecord
<1>. HIDE DEF new
<1>4. /\ new.pc = q.pc /\ new.todo = q.todo /\ new.seen = q.seen /\ new.at = q.at
      /\ new.doc = [q.doc EXCEPT !.ids = @ \cup {p}]
      /\ new.mem = [q.mem EXCEPT ![p] = m]
  BY <1>3 DEF RequestState
<1>5. new \in RequestState
  BY <1>1, <1>2, <1>3 DEF RequestState
<1>6. OnTrack(F, r, new) /\ new.doc # Absent
  BY <1>1, <1>4, SentinelsDistinct DEF OnTrack
<1>. QED  BY <1>4, <1>5, <1>6 DEF new

LEMMA AddPermissionTyped ==
    ASSUME Typed, NEW r \in Requests, AddPermission(r)
    PROVE  Typed'
<1>. DEFINE new(p, m) == With(req[r], p, m)
<1>1. PICK p \in PermIds, m \in Permission :
        /\ perms' = [perms EXCEPT ![p] = m]
        /\ Become(r, IF Op(r).to \in Users
                     THEN [new(p, m) EXCEPT !.pc = "link"] ELSE NextOp(new(p, m)))
  BY PermissionWritten
<1>2. /\ req[r] \in RequestState /\ OnTrack(files, r, req[r]) /\ req[r].pc = "op"
      /\ req[r].doc \in FileRecord /\ Op(r) \in AccessOp
  BY OpTyped DEF AddPermission
<1>3. /\ new(p, m) \in RequestState /\ OnTrack(files, r, new(p, m))
      /\ new(p, m).pc = "op" /\ new(p, m).todo = req[r].todo
  <2>1. PICK q \in RequestState : q = req[r]
    BY <1>2
  <2>2. /\ q \in RequestState /\ p \in PermIds /\ m \in Permission
        /\ OnTrack(files, r, q) /\ q.pc = "op" /\ q.doc \in FileRecord
    BY <1>1, <1>2, <2>1
  <2>3. /\ With(q, p, m) \in RequestState /\ OnTrack(files, r, With(q, p, m))
        /\ With(q, p, m).pc = "op" /\ With(q, p, m).todo = q.todo
        /\ With(q, p, m).seen = q.seen
        /\ With(q, p, m).doc = [q.doc EXCEPT !.ids = @ \cup {p}]
        /\ With(q, p, m).mem = [q.mem EXCEPT ![p] = m]
        /\ With(q, p, m).doc # Absent
    <3>. HIDE DEF new
    <3>. QED  BY <2>2, WithTyped
  <2>. QED  BY <2>1, <2>3
<1>. HIDE DEF new
<1>4. /\ [new(p, m) EXCEPT !.pc = "link"] \in RequestState
      /\ Op(r).to \in Users => OnTrack(files, r, [new(p, m) EXCEPT !.pc = "link"])
  BY <1>3 DEF OnTrack, Reading, RequestState, Busy, Op
<1>5. NextOp(new(p, m)) \in RequestState /\ OnTrack(files, r, NextOp(new(p, m)))
  BY <1>3, NextOpTyped
<1>6. /\ req' \in [Requests -> RequestState]
      /\ \A s \in Requests : OnTrack(files', s, req'[s])
  BY <1>1, <1>4, <1>5, StepTyped DEF AddPermission
<1>7. perms' \in [PermIds -> Permission \cup {NoPerm}]
  BY <1>1 DEF Typed, TypeOK
<1>8. issued' \subseteq Grantees \X Files \X Roles
  BY <1>2, CallTypes DEF AddPermission, Typed, TypeOK, AccessOp
<1>. QED  BY <1>6, <1>7, <1>8 DEF AddPermission, Typed, TypeOK

LEMMA RejectPermissionTyped ==
    ASSUME Typed, NEW r \in Requests, RejectPermission(r)
    PROVE  Typed'
  BY StepAnswered DEF RejectPermission, Answers, Typed, TypeOK, store, history

\* Sending an event changes `told` alone.
LEMMA TellingTyped ==
    ASSUME NEW F, NEW r \in Requests, NEW x \in RequestState, OnTrack(F, r, x),
           NEW event \in Events, NEW to, to \subseteq Users, x.pc # "idle"
    PROVE  /\ Telling(x, event, to) \in RequestState
           /\ OnTrack(F, r, Telling(x, event, to))
           /\ Telling(x, event, to).pc = x.pc
<1>1. x.told \cup ({event} \X to) \in SUBSET (Events \X Users)
  BY DEF RequestState
<1>2. Telling(x, event, to) \in RequestState
  BY <1>1 DEF RequestState, Telling
<1>3. OnTrack(F, r, Telling(x, event, to))
  BY DEF OnTrack, RequestState, Telling
<1>. QED  BY <1>2, <1>3 DEF Telling, RequestState

LEMMA AddLinkTyped ==
    ASSUME Typed, NEW r \in Requests, AddLink(r)
    PROVE  Typed'
<1>. DEFINE x == Telling(req[r], "access-granted", {Op(r).to})
<1>1. /\ req[r] \in RequestState /\ OnTrack(files, r, req[r]) /\ req[r].pc = "link"
      /\ Op(r).to \in Users
  BY OpTyped DEF AddLink, OnTrack, Op
<1>2. x \in RequestState /\ OnTrack(files, r, x) /\ x.pc = "link"
  <2>1. {Op(r).to} \subseteq Users /\ "access-granted" \in Events
    BY <1>1 DEF Events
  <2>. DEFINE q == req[r]
  <2>2. q \in RequestState /\ OnTrack(files, r, q) /\ q.pc = "link" /\ q.pc # "idle"
    BY <1>1
  <2>. HIDE DEF q
  <2>3. /\ Telling(q, "access-granted", {Op(r).to}) \in RequestState
        /\ OnTrack(files, r, Telling(q, "access-granted", {Op(r).to}))
        /\ Telling(q, "access-granted", {Op(r).to}).pc = q.pc
    BY <2>1, <2>2, TellingTyped
  <2>. QED  BY <2>2, <2>3 DEF q
<1>. HIDE DEF x
<1>3. NextOp(x) \in RequestState /\ OnTrack(files, r, NextOp(x))
  BY <1>2, NextOpTyped
<1>4. /\ req' \in [Requests -> RequestState]
      /\ \A s \in Requests : OnTrack(files', s, req'[s])
  BY <1>3, StepTyped DEF AddLink, x
<1>. QED  BY <1>1, <1>4, CallTypes DEF AddLink, Typed, TypeOK, history, Link

LEMMA RemovePermissionTyped ==
    ASSUME Typed, NEW r \in Requests, RemovePermission(r)
    PROVE  Typed'
<1>. DEFINE q == req[r]
            left == [p \in PermIds |-> IF p \in Matching(r) THEN NoPerm ELSE q.mem[p]]
            new == [q EXCEPT !.doc.ids = @ \ Matching(r), !.mem = left]
            x == Telling(new, "access-removed", {Op(r).to})
<1>1. /\ q \in RequestState /\ OnTrack(files, r, q) /\ q.pc = "op"
      /\ q.doc \in FileRecord
  BY OpTyped DEF RemovePermission
<1>2. /\ UNCHANGED <<files, perms, bin, now, history>>
      /\ shared' \subseteq shared
      /\ \/ Op(r).to \in Users /\ Become(r, NextOp(x))
         \/ Become(r, NextOp(new))
  <2>1. new = [q EXCEPT !.doc.ids = @ \ Matching(r),
                        !.mem = [p \in PermIds |->
                                IF p \in Matching(r) THEN NoPerm ELSE @[p]]]
    OBVIOUS
  <2>. QED  BY <2>1 DEF RemovePermission
<1>3. new \in RequestState /\ OnTrack(files, r, new) /\ new.pc = "op"
  <2>1. [q.doc EXCEPT !.ids = @ \ Matching(r)] \in FileRecord
    BY <1>1 DEF FileRecord
  <2>2. left \in [PermIds -> Permission \cup {NoPerm}]
    BY <1>1 DEF RequestState
  <2>3. new = [q EXCEPT !.doc = [q.doc EXCEPT !.ids = @ \ Matching(r)], !.mem = left]
    BY <1>1 DEF RequestState, FileRecord
  <2>. HIDE DEF new, left
  <2>4. new \in RequestState
    BY <1>1, <2>1, <2>2, <2>3 DEF RequestState
  <2>5. /\ new.pc = q.pc /\ new.doc \in FileRecord /\ new.todo = q.todo
        /\ new.seen = q.seen /\ new.at = q.at
    BY <1>1, <2>1, <2>3 DEF RequestState
  <2>6. OnTrack(files, r, new)
    BY <1>1, <2>5, SentinelsDistinct DEF OnTrack
  <2>. QED  BY <1>1, <2>4, <2>5, <2>6
<1>. HIDE DEF new
<1>4. Op(r).to \in Users => x \in RequestState /\ OnTrack(files, r, x) /\ x.pc = "op"
  <2>1. Op(r).to \in Users => {Op(r).to} \subseteq Users
    OBVIOUS
  <2>2. "access-removed" \in Events
    BY DEF Events
  <2>3. \A to \in SUBSET Users :
           /\ Telling(new, "access-removed", to) \in RequestState
           /\ OnTrack(files, r, Telling(new, "access-removed", to))
           /\ Telling(new, "access-removed", to).pc = "op"
    <3>1. new.pc # "idle"
      BY <1>3
    <3>. SUFFICES ASSUME NEW to \in SUBSET Users
                  PROVE  /\ Telling(new, "access-removed", to) \in RequestState
                         /\ OnTrack(files, r, Telling(new, "access-removed", to))
                         /\ Telling(new, "access-removed", to).pc = "op"
      OBVIOUS
    <3>2. to \subseteq Users
      OBVIOUS
    <3>3. /\ Telling(new, "access-removed", to) \in RequestState
          /\ OnTrack(files, r, Telling(new, "access-removed", to))
          /\ Telling(new, "access-removed", to).pc = new.pc
      BY <1>3, <2>2, <3>1, <3>2, TellingTyped
    <3>. QED  BY <1>3, <3>3
  <2>. QED  BY <2>1, <2>3
<1>. HIDE DEF x
<1>5. /\ NextOp(new) \in RequestState /\ OnTrack(files, r, NextOp(new))
      /\ Op(r).to \in Users => /\ NextOp(x) \in RequestState
                               /\ OnTrack(files, r, NextOp(x))
  BY <1>3, <1>4, NextOpTyped
<1>6. /\ req' \in [Requests -> RequestState]
      /\ \A s \in Requests : OnTrack(files', s, req'[s])
  BY <1>2, <1>5, StepTyped
<1>. QED  BY <1>2, <1>6 DEF Typed, TypeOK, history

-----------------------------------------------------------------------------
\* Writing the file and what follows

LEMMA AddToBinTyped ==
    ASSUME Typed, NEW r \in Requests, AddToBin(r)
    PROVE  Typed'
<1>. DEFINE x == [req[r] EXCEPT !.pc = "put"]
<1>1. req[r] \in RequestState /\ OnTrack(files, r, req[r])
  BY DEF Typed, TypeOK
<1>2. x \in RequestState /\ OnTrack(files', r, x)
  BY <1>1 DEF OnTrack, Reading, RequestState, Busy, AddToBin
<1>. QED  BY <1>2, StepTyped, CallTypes DEF AddToBin, Typed, TypeOK, history

LEMMA PutTyped ==
    ASSUME Typed, NEW r \in Requests, Put(r)
    PROVE  Typed'
<1>. DEFINE q == req[r]
            pc == IF Call[r].kind = "delete" THEN "scan" ELSE "audience"
            x == [q EXCEPT !.pc = pc, !.at = Call[r].file, !.doc = Absent,
                           !.mem = NoMem, !.role = "none"]
<1>1. q \in RequestState /\ OnTrack(files, r, q) /\ q.pc = "put"
  BY DEF Typed, TypeOK, Put
<1>2. Document(r) \in FileRecord
  BY <1>1, CallTypes DEF Document, OnTrack, RequestState, FileRecord, Kinds
<1>3. /\ files' \in [Files -> FileRecord \cup {Absent}]
      /\ files'[Call[r].file] # Absent
      /\ \A f \in Files : files[f] # Absent => files'[f] # Absent
  BY <1>2, CallTypes, SentinelsDistinct DEF Put, Typed, TypeOK
<1>4. x \in RequestState /\ OnTrack(files', r, x)
  <2>1. pc \in Busy /\ pc \notin {"idle", "exists"}
    BY DEF Busy
  <2>2. NoMem \in [PermIds -> Permission \cup {NoPerm}]
    BY DEF NoMem
  <2>. HIDE DEF pc
  <2>3. x \in RequestState
    <3>1. /\ Call[r].file \in Files /\ pc \in Busy /\ q \in RequestState
          /\ NoMem \in [PermIds -> Permission \cup {NoPerm}]
      BY <1>1, <2>1, <2>2, CallTypes
    <3>. HIDE DEF q
    <3>. QED  BY <3>1 DEF RequestState
  <2>4. x.pc = pc /\ x.at = Call[r].file /\ x.seen = Unread
    BY <1>1 DEF RequestState, OnTrack, Reading
  <2>5. pc \in {"scan", "audience"} /\ (pc = "scan" => Call[r].kind = "delete")
    BY DEF pc
  <2>. HIDE DEF x
  <2>. QED  BY <1>3, <2>3, <2>4, <2>5 DEF OnTrack, Reading
<1>. HIDE DEF x
<1>5. /\ issued' \subseteq Grantees \X Files \X Roles
      /\ placed' \subseteq Files \X (Files \cup {Root})
  BY CallTypes DEF Put, Typed, TypeOK, history, Grantees, Roles
<1>6. Become(r, x)
  BY DEF Put, x
<1>7. /\ req' \in [Requests -> RequestState]
      /\ \A s \in Requests : OnTrack(files', s, req'[s])
  BY <1>3, <1>4, <1>6, StepTyped
<1>. QED  BY <1>3, <1>5, <1>7 DEF Put, Typed, TypeOK

LEMMA ScanLinksTyped ==
    ASSUME Typed, NEW r \in Requests, ScanLinks(r)
    PROVE  Typed'
<1>. DEFINE found == Linked(Call[r].file)
            pc == IF found = {} THEN "audience" ELSE "unlink"
            x == [req[r] EXCEPT !.users = found, !.pc = pc]
<1>1. req[r] \in RequestState /\ OnTrack(files, r, req[r]) /\ req[r].pc = "scan"
  BY DEF Typed, TypeOK, ScanLinks
<1>2. found \in SUBSET Users /\ pc \in {"audience", "unlink"}
  BY DEF Linked
<1>. HIDE DEF found, pc
<1>3. x \in RequestState /\ OnTrack(files', r, x)
  BY <1>1, <1>2 DEF OnTrack, Reading, RequestState, Busy, ScanLinks, store
<1>. HIDE DEF x
<1>4. Become(r, x)
  BY DEF ScanLinks, x, found, pc
<1>. QED  BY <1>3, <1>4, StepTyped DEF ScanLinks, Typed, TypeOK, store, history

LEMMA UnlinkTyped ==
    ASSUME Typed, NEW r \in Requests, Unlink(r)
    PROVE  Typed'
<1>. DEFINE x == [req[r] EXCEPT !.users = {}, !.pc = "audience"]
<1>1. req[r] \in RequestState /\ OnTrack(files, r, req[r])
  BY DEF Typed, TypeOK
<1>2. x \in RequestState /\ OnTrack(files', r, x)
  BY <1>1 DEF OnTrack, Reading, RequestState, Busy, Unlink
<1>. QED  BY <1>2, StepTyped DEF Unlink, Typed, TypeOK, history

LEMMA AudienceTyped ==
    ASSUME Typed, NEW r \in Requests, Audience(r)
    PROVE  Typed'
<1>. DEFINE q == req[r]
            all == q.users \cup (IF q.seen = Absent THEN {} ELSE UsersOf(q.seen))
            up == [q EXCEPT !.users = all, !.seen = Unread, !.at = q.seen.parent]
            done == [Rest(r) EXCEPT !.pc = "ok", !.told = q.told]
            x == Telling(done, EventOf(Call[r].kind), all)
<1>1. /\ q \in RequestState /\ OnTrack(files, r, q) /\ q.pc = "audience"
      /\ q.seen \in FileRecord \cup {Absent}
  BY DEF Typed, TypeOK, Audience, Fetched, RequestState
<1>2. all \in SUBSET Users
  BY <1>1 DEF RequestState, UsersOf, FileRecord
<1>. HIDE DEF all
<1>3. CASE q.seen # Absent /\ q.seen.parent # Root /\ Become(r, up)
  <2>1. up \in RequestState
    BY <1>1, <1>2, <1>3 DEF RequestState, FileRecord
  <2>2. OnTrack(files', r, up)
    BY <1>1, <1>3 DEF OnTrack, RequestState, Audience, store
  <2>. HIDE DEF up
  <2>. QED  BY <1>3, <2>1, <2>2, StepTyped DEF Audience, Typed, TypeOK, store, history
<1>4. CASE Become(r, x)
  <2>1. q.told \in SUBSET (Events \X Users)
    BY <1>1 DEF RequestState
  <2>2. done \in RequestState /\ OnTrack(files', r, done) /\ done.pc # "idle"
    <3>1. done \in RequestState /\ OnTrack(files', r, done)
      BY <2>1, EndTyped DEF Answers
    <3>2. done.pc = "ok"
      BY DEF Rest
    <3>. QED  BY <3>1, <3>2
  <2>. HIDE DEF done
  <2>3. EventOf(Call[r].kind) \in Events
    BY DEF EventOf, Events
  <2>4. x \in RequestState /\ OnTrack(files', r, x)
    BY <1>2, <2>2, <2>3, TellingTyped
  <2>. HIDE DEF x
  <2>. QED  BY <1>4, <2>4, StepTyped DEF Audience, Typed, TypeOK, store, history
<1>. QED  BY <1>3, <1>4 DEF Audience, all

-----------------------------------------------------------------------------
\* The theorem

LEMMA CrashTyped == ASSUME Typed, Crash PROVE Typed'
<1>1. \A r \in Requests : req[r] \in RequestState /\ OnTrack(files, r, req[r])
  BY DEF Typed, TypeOK
<1>2. ASSUME NEW r \in Requests
      PROVE  req'[r] \in RequestState /\ OnTrack(files', r, req'[r])
  <2>1. CASE r \in InFlight
    <3>1. req[r].told \in SUBSET (Events \X Users)
      BY <1>1 DEF RequestState
    <3>2. req'[r] = [Rest(r) EXCEPT !.pc = "lost", !.told = req[r].told]
      BY <2>1 DEF Crash
    <3>. DEFINE x == [Rest(r) EXCEPT !.pc = "lost", !.told = req[r].told]
    <3>3. x \in RequestState /\ OnTrack(files', r, x)
      BY <3>1, EndTyped DEF Answers
    <3>. HIDE DEF x
    <3>. QED  BY <3>2, <3>3 DEF x
  <2>2. CASE r \notin InFlight
    BY <1>1, <2>2 DEF Crash, store
  <2>. QED  BY <2>1, <2>2
<1>3. req' \in [Requests -> RequestState]
  BY <1>2 DEF Crash
<1>. QED  BY <1>2, <1>3 DEF Crash, Typed, TypeOK, store, history

LEMMA StepKeepsTypes == Typed /\ [Next]_vars => Typed'
<1>. SUFFICES ASSUME Typed, [Next]_vars PROVE Typed'
  OBVIOUS
<1>1. CASE UNCHANGED vars
  BY <1>1 DEF vars, Typed, TypeOK
<1>2. CASE Tick
  <2>1. now' \in 0..MaxTime
    BY <1>2, BoundsTyped DEF Tick, Typed, TypeOK
  <2>. QED  BY <1>2, <2>1 DEF Tick, Typed, TypeOK, store, history
<1>3. CASE Crash
  BY <1>3, CrashTyped
<1>4. CASE Finished
  BY <1>1, <1>4 DEF Finished
<1>5. ASSUME NEW r \in Requests, Begin(r) \/ Serve(r) PROVE Typed'
  BY <1>5, BeginTyped, FetchTyped, CheckExistsTyped, CheckTyped, ReadTyped,
     GetTyped, AddPermissionTyped, RejectPermissionTyped, AddLinkTyped,
     RemovePermissionTyped, AddToBinTyped, PutTyped, ScanLinksTyped,
     UnlinkTyped, AudienceTyped
     DEF Serve
<1>. QED  BY <1>1, <1>2, <1>3, <1>4, <1>5 DEF Next

\* Whatever the calls and their interleaving, every variable keeps its type: no
\* handler works on a record it did not find or an operation it does not have.
THEOREM TypeCorrect == Spec => []TypeOK
<1>1. Spec => []Typed
  BY InitTyped, StepKeepsTypes, PTL DEF Spec
<1>2. Typed => TypeOK
  BY DEF Typed
<1>. QED  BY <1>1, <1>2, PTL
=============================================================================
