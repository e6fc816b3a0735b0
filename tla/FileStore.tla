------------------------------ MODULE FileStore ------------------------------
(***************************************************************************)
(* The file store: file metadata, permissions, "shared with me" links and  *)
(* the bin, as the handlers of src/src/routes/FilesHttpRoute.ts drive them *)
(* through src/src/persistence/level/{Files,PermissionStore,Shared,Bin}.ts *)
(*                                                                         *)
(* The server is one event loop over LevelDB.  A request is a process; one *)
(* step of it is one database call that matters together with the code     *)
(* that runs from its answer to the next `await`.  Steps of different      *)
(* requests interleave; nothing in the code locks a file, so a request     *)
(* works on the copy it read while others write.  A crash drops every      *)
(* request in flight and keeps the four stores.                            *)
(*                                                                         *)
(* Not kept: `time` fields, names, kinds, and all of `parents` but its     *)
(* last element, the only one the code ever follows.                       *)
(***************************************************************************)
EXTENDS Naturals, Sequences, FiniteSets

CONSTANTS
    Users, Groups, Anyone,   \* whom a permission may name
    Files, Root,             \* file keys; Root: the `parents` list is empty
    PermIds,                 \* keys of permission records
    Absent, Unread, NoPerm, Nobody,  \* no record, record not read yet, ...
    Requests, Call,          \* Call[r]: what request r asks for
    MaxInFlight,             \* bound: requests being served at once
    MaxTime,                 \* bound on the clock
    CanCrash,                \* whether the process may die
    InitFiles, InitPerms, InitShared, \* the store as an earlier run left it
    InitIssued, InitPlaced            \* and what that run handed out and placed

VARIABLES
    files,   \* Files -> file record or Absent
    perms,   \* PermIds -> permission record or NoPerm
    shared,  \* the links <<user, file>> of the "shared with me" index
    bin,     \* files with a record in the bin
    now,     \* Date.now()
    req,     \* Requests -> the local state of the handler
    issued,  \* history: every <<grantee, file, role>> ever handed out
    placed   \* history: every <<file, parent>> a file was ever created with

store == <<files, perms, shared, bin>>
history == <<issued, placed>>
vars == <<files, perms, shared, bin, now, req, issued, placed>>

-----------------------------------------------------------------------------
\* Data

Grantees == Users \cup Groups \cup {Anyone}

Roles == {"reader", "commenter", "writer", "owner"}
Rank == [reader |-> 1, commenter |-> 2, writer |-> 3, owner |-> 4]
HasRole(minimum, role) == role # "none" /\ Rank[minimum] <= Rank[role]

\* expires = 0: the permission never expires.  `edits` stands for the contents
\* of the metadata: the PATCH requests whose changes the record carries.
Permission == [to : Grantees, role : Roles, expires : 0..MaxTime,
               addedBy : Users, deleted : BOOLEAN]
FileRecord == [owner : Users, parent : Files \cup {Root}, ids : SUBSET PermIds,
               deleted : BOOLEAN, by : Users, deletedBy : Users \cup {Nobody},
               edits : SUBSET Requests]

AccessOp == [op : {"add", "remove"}, to : Grantees, role : Roles,
             expires : 0..MaxTime]
Kinds == {"create", "read", "patch", "access", "delete"}
CallType == [kind : Kinds, user : Users, file : Files,
             parent : Files \cup {Root}, ops : Seq(AccessOp)]

Busy == {"exists", "readcheck", "writecheck", "read", "get", "op", "link",
         "bin", "put", "scan", "unlink", "audience"}
Answers == {"ok", "400", "403", "404", "lost"}
Events == {"created", "patch", "deleted", "access-granted", "access-removed"}

\* at, seen: the record being read and its value; doc, mem: the handler's copy
\* of the file and of its permissions; users: ids collected so far; told: what
\* was sent to whom.
RequestState ==
    [pc : {"idle"} \cup Busy \cup Answers, at : Files,
     seen : FileRecord \cup {Absent, Unread}, doc : FileRecord \cup {Absent},
     mem : [PermIds -> Permission \cup {NoPerm}], todo : Seq(AccessOp),
     role : Roles \cup {"none"}, users : SUBSET Users,
     told : SUBSET (Events \X Users)]

ASSUME SentinelsDistinct ==
    /\ Anyone \notin Users \cup Groups /\ Users \cap Groups = {}
    /\ Root \notin Files
    /\ Nobody \notin Users
    /\ Absent \notin FileRecord /\ Unread \notin FileRecord /\ Absent # Unread
    /\ NoPerm \notin Permission

ASSUME CallsTyped == Call \in [Requests -> CallType]
ASSUME BoundsTyped == /\ MaxInFlight \in Nat \ {0}
                      /\ MaxTime \in Nat
                      /\ CanCrash \in BOOLEAN

-----------------------------------------------------------------------------
\* Authority, over the history

\* A file and everything it was ever put under, at any remove: the smallest set
\* that holds it and is closed under the placements.
Above(placements, f) ==
    {g \in Files : \A S \in SUBSET Files :
        (/\ f \in S
         /\ \A e \in placements : (e[1] \in S /\ e[2] # Root) => e[2] \in S)
            => g \in S}

\* The user, or anyone, was handed one of the roles on the file or above it.
Given(grants, placements, user, roles, f) ==
    \E g \in Above(placements, f), to \in {user, Anyone}, role \in roles :
        <<to, g, role>> \in grants

May == {"writer", "owner"}

\* The marks a write leaves in a store: who modified a file, who placed it where
\* it is, who added its permissions, who removed it.
Authorised(F, P, grants, placements) ==
    \A f \in Files : F[f] # Absent =>
        /\ Given(grants, placements, F[f].by, May, f)
        /\ F[f].parent # Root =>
              Given(grants, placements, F[f].owner, May, F[f].parent)
        /\ \A p \in F[f].ids : Given(grants, placements, P[p].addedBy, May, f)
        /\ F[f].deleted => Given(grants, placements, F[f].deletedBy, {"owner"}, f)

\* What any run of this program leaves behind: ids resolve and serve one file, a
\* file has one permission per grantee, no permission is marked (only copies
\* ever are), parents and link targets exist, a link leads to somebody who was
\* given a role, what is there is on record, and was written with authority.
ASSUME InitialStoreWellFormed ==
    /\ InitFiles \in [Files -> FileRecord \cup {Absent}]
    /\ InitPerms \in [PermIds -> Permission \cup {NoPerm}]
    /\ InitShared \subseteq Users \X Files
    /\ InitIssued \subseteq Grantees \X Files \X Roles
    /\ InitPlaced \subseteq Files \X (Files \cup {Root})
    /\ \A f \in Files : InitFiles[f] # Absent =>
          /\ <<f, InitFiles[f].parent>> \in InitPlaced
          /\ <<InitFiles[f].owner, f, "owner">> \in InitIssued
          /\ InitFiles[f].parent # Root => InitFiles[InitFiles[f].parent] # Absent
          /\ \A p \in InitFiles[f].ids :
                /\ InitPerms[p] # NoPerm /\ ~InitPerms[p].deleted
                /\ <<InitPerms[p].to, f, InitPerms[p].role>> \in InitIssued
          /\ \A p, q \in InitFiles[f].ids :
                InitPerms[p].to = InitPerms[q].to => p = q
          /\ \A g \in Files : (InitFiles[g] # Absent /\ f # g) =>
                InitFiles[f].ids \cap InitFiles[g].ids = {}
    /\ \A l \in InitShared :
          /\ InitFiles[l[2]] # Absent
          /\ \E role \in Roles : <<l[1], l[2], role>> \in InitIssued
    /\ Authorised(InitFiles, InitPerms, InitIssued, InitPlaced)

\* Some files are under one another.
CircleIn(F) == \E S \in (SUBSET Files) \ {{}} :
                  \A f \in S : F[f] # Absent /\ F[f].parent \in S

\* A file was created under two parents.
TwicePlaced(placements) == \E d, e \in placements : d[1] = e[1] /\ d[2] # e[2]

ASSUME InitialStoreRooted == CircleIn(InitFiles) => TwicePlaced(InitPlaced)

-----------------------------------------------------------------------------
\* Reading access

\* Mutant of Live: a lapsed permission still counts.
LiveForever(perm) == ~perm.deleted

\* `p.deleted` and `p.expirationTime && p.expirationTime < now`
Live(perm) == /\ ~perm.deleted
              /\ ~(perm.expires # 0 /\ perm.expires < now)

\* The permission records that `permission.list(ids)` finds.
Listed(ids) == {p \in ids : perms[p] # NoPerm}

\* Mutant of RoleAt: any live permission will do, whoever it names.
RoleOfAnyone(file, user) ==
    LET live == {p \in Listed(file.ids) : Live(perms[p])}
    IN  IF file.owner = user THEN "owner"
        ELSE IF live # {} THEN perms[CHOOSE p \in live : TRUE].role
        ELSE "none"

\* PermissionStore.findUserPermission: the owner, else the user's own
\* permission, else the one for anyone.  No caller passes the user's groups,
\* so a group permission never matches.
RoleAt(file, user) ==
    LET live == {p \in Listed(file.ids) : Live(perms[p])}
        own  == {p \in live : perms[p].to = user}
        any  == {p \in live : perms[p].to = Anyone}
    IN  IF file.owner = user THEN "owner"
        ELSE IF own # {} THEN perms[CHOOSE p \in own : TRUE].role
        ELSE IF any # {} THEN perms[CHOOSE p \in any : TRUE].role
        ELSE "none"

\* Mutant of UsersOf: every permission of the store is looked at.
UsersOfStore(file) ==
    {file.owner} \cup {u \in Users : \E p \in Listed(PermIds) : perms[p].to = u}

\* readFileUserIds: the owner and the users the file's permissions name.
UsersOf(file) ==
    {file.owner} \cup {u \in Users : \E p \in Listed(file.ids) : perms[p].to = u}

-----------------------------------------------------------------------------
\* Requests

InFlight == {r \in Requests : req[r].pc \in Busy}

NoMem == [p \in PermIds |-> NoPerm]
Rest(r) == [pc |-> "idle", at |-> Call[r].file, seen |-> Unread,
            doc |-> Absent, mem |-> NoMem, todo |-> <<>>, role |-> "none",
            users |-> {}, told |-> {}]

Become(r, local) == req' = [req EXCEPT ![r] = local]

\* The handler ends and its locals are gone.
Answer(r, code) ==
    Become(r, [Rest(r) EXCEPT !.pc = code, !.told = req[r].told])

\* Send an event to the web sockets of `to`, then carry on as `local`.
Telling(local, event, to) == [local EXCEPT !.told = @ \cup ({event} \X to)]

Init ==
    /\ files = InitFiles
    /\ perms = InitPerms
    /\ shared = InitShared
    /\ bin = {f \in Files : InitFiles[f] # Absent /\ InitFiles[f].deleted}
    /\ now = 0
    /\ req = [r \in Requests |-> Rest(r)]
    /\ issued = InitIssued
    /\ placed = InitPlaced

\* A handler is called.  PATCH and DELETE read the file (and need `reader`)
\* before anything else.
Begin(r) ==
    /\ req[r].pc = "idle"
    /\ Cardinality(InFlight) < MaxInFlight
    /\ Become(r, [req[r] EXCEPT !.pc =
          CASE Call[r].kind = "create" -> "exists"
            [] Call[r].kind = "access" -> "writecheck"
            [] OTHER -> "readcheck"])
    /\ UNCHANGED <<store, now, history>>

\* Files.get, first half: the file record.  Its permissions are listed by the
\* step that uses them.
Reading == {"readcheck", "writecheck", "read", "get", "audience"}
Fetch(r) ==
    /\ req[r].pc \in Reading
    /\ req[r].seen = Unread
    /\ Become(r, [req[r] EXCEPT !.seen = files[req[r].at]])
    /\ UNCHANGED <<store, now, history>>

Fetched(r, pcs) == req[r].pc \in pcs /\ req[r].seen # Unread

\* Mutant of CheckExists: the parent is not looked at.
CheckNoParent(r) ==
    /\ req[r].pc = "exists"
    /\ IF files[Call[r].file] # Absent THEN Answer(r, "400")
       ELSE Become(r, [req[r] EXCEPT !.pc = "put"])
    /\ UNCHANGED <<store, now, history>>

\* Files.add refuses a key that is taken; with a parent it goes on to check
\* `writer` access to the parent.
CheckExists(r) ==
    /\ req[r].pc = "exists"
    /\ IF files[Call[r].file] # Absent THEN Answer(r, "400")
       ELSE IF Call[r].parent = Root
            THEN Become(r, [req[r] EXCEPT !.pc = "put"])
            ELSE Become(r, [req[r] EXCEPT !.pc = "writecheck",
                                          !.at = Call[r].parent])
    /\ UNCHANGED <<store, now, history>>

-----------------------------------------------------------------------------
\* checkAccess(minimum, file, user)

Minimum(pc) == IF pc = "readcheck" THEN "reader" ELSE "writer"

\* Where the handler goes once access is granted.
AfterCheck(r) ==
    IF req[r].pc = "readcheck" THEN "read"
    ELSE IF Call[r].kind \in {"create", "patch"} THEN "put"
    ELSE "get"

\* One level of the walk: this record decides, or the walk goes to its parent.
Check(r) ==
    /\ Fetched(r, {"readcheck", "writecheck"})
    /\ LET q == req[r]
           gone == q.seen = Absent \/ q.seen.deleted
           role == RoleAt(q.seen, Call[r].user)
       IN  IF gone THEN Answer(r, "404")
           ELSE IF role = "none"
           THEN IF q.seen.parent = Root THEN Answer(r, "404")
                ELSE Become(r, [q EXCEPT !.at = q.seen.parent, !.seen = Unread])
           ELSE IF HasRole(Minimum(q.pc), role)
           THEN Become(r, [q EXCEPT !.pc = AfterCheck(r), !.role = role,
                                    !.at = Call[r].file, !.seen = Unread])
           ELSE Answer(r, "403")
    /\ UNCHANGED <<store, now, history>>

\* Files.read after its check: no second look at `deleted`.  PATCH applies the
\* changes to this copy and only then checks `writer` (Files.update).
Read(r) ==
    /\ Fetched(r, {"read"})
    /\ LET q == req[r]
       IN  CASE Call[r].kind = "read" -> Answer(r, "ok")
             [] Call[r].kind = "delete" ->
                   Become(r, [q EXCEPT !.pc = "writecheck", !.seen = Unread])
             [] Call[r].kind = "patch" ->
                   Become(r, [q EXCEPT !.pc = "writecheck", !.seen = Unread,
                        !.doc = [q.seen EXCEPT !.edits = @ \cup {r}]])
    /\ UNCHANGED <<store, now, history>>

AfterOps(ops) == IF ops = <<>> THEN "put" ELSE "op"

\* Files.patchAccess and Files.delete after their check.
Get(r) ==
    /\ Fetched(r, {"get"})
    /\ LET q == req[r]
       IN  CASE q.seen = Absent -> Answer(r, "404")
             [] q.seen # Absent /\ Call[r].kind = "access" ->
                   Become(r, [q EXCEPT !.pc = AfterOps(Call[r].ops),
                        !.seen = Unread, !.doc = q.seen,
                        !.mem = [p \in PermIds |->
                                    IF p \in q.seen.ids THEN perms[p] ELSE NoPerm],
                        !.todo = Call[r].ops])
             [] q.seen # Absent /\ Call[r].kind = "delete" ->
                   IF q.role # "owner" THEN Answer(r, "403")
                   ELSE Become(r, [q EXCEPT !.pc = "bin", !.seen = Unread,
                           !.doc = [q.seen EXCEPT !.deleted = TRUE,
                                                  !.deletedBy = Call[r].user]])
    /\ UNCHANGED <<store, now, history>>

-----------------------------------------------------------------------------
\* The operations of an access patch, each on the handler's copy

Op(r) == Head(req[r].todo)

\* Mutant of NextOp: the operation is not taken off the list.
SameOp(local) == [local EXCEPT !.pc = "op"]

NextOp(local) == [local EXCEPT !.todo = Tail(@), !.pc = AfterOps(Tail(local.todo))]

\* Mutant of Matching: a permission with another role is not found.
MatchingRole(r) ==
    {p \in req[r].doc.ids : /\ req[r].mem[p] # NoPerm /\ req[r].mem[p].to = Op(r).to
                            /\ req[r].mem[p].role = Op(r).role}

\* The permission of the copy that names the grantee of the current operation.
Matching(r) ==
    {p \in req[r].doc.ids : req[r].mem[p] # NoPerm /\ req[r].mem[p].to = Op(r).to}

InPast(expires) == expires # 0 /\ expires < now

\* addPermission writes the record at once; the file that names a new record is
\* written after the last operation.  An existing record keeps its expiration
\* time unless the operation brings one.
AddPermission(r) ==
    /\ req[r].pc = "op" /\ Op(r).op = "add" /\ ~InPast(Op(r).expires)
    /\ \E p \in IF Matching(r) # {} THEN Matching(r)
                ELSE {n \in PermIds : perms[n] = NoPerm} :
          LET q == req[r]
              old == q.mem[p]
              perm == [to |-> Op(r).to, role |-> Op(r).role,
                       expires |-> IF Matching(r) # {} /\ Op(r).expires = 0
                                   THEN old.expires ELSE Op(r).expires,
                       addedBy |-> Call[r].user,
                       deleted |-> IF Matching(r) # {} THEN old.deleted ELSE FALSE]
              new == [q EXCEPT !.doc.ids = @ \cup {p}, !.mem[p] = perm]
          IN  /\ perms' = [perms EXCEPT ![p] = perm]
              /\ Become(r, IF Op(r).to \in Users
                           THEN [new EXCEPT !.pc = "link"] ELSE NextOp(new))
    /\ issued' = issued \cup {<<Op(r).to, Call[r].file, Op(r).role>>}
    /\ UNCHANGED <<files, shared, bin, now, placed>>

\* An expiration time in the past fails the whole patch; what its earlier
\* operations wrote stays.
RejectPermission(r) ==
    /\ req[r].pc = "op" /\ Op(r).op = "add" /\ InPast(Op(r).expires)
    /\ Answer(r, "400")
    /\ UNCHANGED <<store, now, history>>

\* Mutant of Link: the file, then the user.
BackwardLink(user, file) == <<file, user>>

\* The key of a link: the user, then the file.
Link(user, file) == <<user, file>>

\* Shared.add, then the event for the new user alone.
AddLink(r) ==
    /\ req[r].pc = "link"
    /\ shared' = shared \cup {Link(Op(r).to, Call[r].file)}
    /\ Become(r, NextOp(Telling(req[r], "access-granted", {Op(r).to})))
    /\ UNCHANGED <<files, perms, bin, now, history>>

\* removePermission takes the permission out of the copy; PermissionStore.delete
\* reads the record and changes its own copy of it, nothing else.  For a user
\* the link goes too, found or not, and the removed user alone is told.
RemovePermission(r) ==
    /\ req[r].pc = "op" /\ Op(r).op = "remove"
    /\ LET q == req[r]
           new == [q EXCEPT !.doc.ids = @ \ Matching(r),
                            !.mem = [p \in PermIds |->
                                IF p \in Matching(r) THEN NoPerm ELSE @[p]]]
       IN  IF Op(r).to \in Users
           THEN /\ shared' = shared \ {Link(Op(r).to, Call[r].file)}
                /\ Become(r, NextOp(Telling(new, "access-removed", {Op(r).to})))
           ELSE /\ UNCHANGED shared
                /\ Become(r, NextOp(new))
    /\ UNCHANGED <<files, perms, bin, now, history>>

-----------------------------------------------------------------------------
\* Writing

\* Mutant of AddToBin: its write is lost.
SkipBin(r) ==
    /\ req[r].pc = "bin"
    /\ Become(r, [req[r] EXCEPT !.pc = "put"])
    /\ UNCHANGED <<store, now, history>>

\* Bin.add comes before the file is marked.
AddToBin(r) ==
    /\ req[r].pc = "bin"
    /\ bin' = bin \cup {Call[r].file}
    /\ Become(r, [req[r] EXCEPT !.pc = "put"])
    /\ UNCHANGED <<files, perms, shared, now, history>>

\* Mutant of Document: a new file takes over the permissions of its parent.
InheritingDocument(r) ==
    CASE Call[r].kind = "create" ->
            [owner |-> Call[r].user, parent |-> Call[r].parent,
             ids |-> IF Call[r].parent = Root THEN {} ELSE files[Call[r].parent].ids,
             deleted |-> FALSE, by |-> Call[r].user, deletedBy |-> Nobody,
             edits |-> {}]
      [] Call[r].kind = "delete" -> req[r].doc
      [] OTHER -> [req[r].doc EXCEPT !.by = Call[r].user]

\* The whole record is written, from the handler's copy.
Document(r) ==
    CASE Call[r].kind = "create" ->
            [owner |-> Call[r].user, parent |-> Call[r].parent, ids |-> {},
             deleted |-> FALSE, by |-> Call[r].user, deletedBy |-> Nobody,
             edits |-> {}]
      [] Call[r].kind = "delete" -> req[r].doc
      [] OTHER -> [req[r].doc EXCEPT !.by = Call[r].user]

Put(r) ==
    /\ req[r].pc = "put"
    /\ files' = [files EXCEPT ![Call[r].file] = Document(r)]
    /\ IF Call[r].kind = "create"
       THEN /\ issued' = issued \cup {<<Call[r].user, Call[r].file, "owner">>}
            /\ placed' = placed \cup {<<Call[r].file, Call[r].parent>>}
       ELSE UNCHANGED history
    /\ Become(r, [req[r] EXCEPT
          !.pc = IF Call[r].kind = "delete" THEN "scan" ELSE "audience",
          !.at = Call[r].file, !.doc = Absent, !.mem = NoMem, !.role = "none"])
    /\ UNCHANGED <<perms, shared, bin, now>>

\* Mutant of Linked: the index is searched by file.
LinkedBackward(file) == {u \in Users : <<file, u>> \in shared}

Linked(file) == {u \in Users : Link(u, file) \in shared}

\* Shared.deleteByTarget: an iterator over a snapshot of the index, then one
\* batch with what it found.
ScanLinks(r) ==
    /\ req[r].pc = "scan"
    /\ LET found == Linked(Call[r].file)
       IN  Become(r, [req[r] EXCEPT
              !.users = found,
              !.pc = IF found = {} THEN "audience" ELSE "unlink"])
    /\ UNCHANGED <<store, now, history>>

Unlink(r) ==
    /\ req[r].pc = "unlink"
    /\ shared' = shared \ (req[r].users \X {Call[r].file})
    /\ Become(r, [req[r] EXCEPT !.users = {}, !.pc = "audience"])
    /\ UNCHANGED <<files, perms, bin, now, history>>

EventOf(kind) == CASE kind = "create" -> "created"
                   [] kind = "delete" -> "deleted"
                   [] OTHER -> "patch"

\* fileUserIds / fileUsers: the owner and the users with a permission, on the
\* file and on every parent; at the top the event is sent to all of them.
Audience(r) ==
    /\ Fetched(r, {"audience"})
    /\ LET q == req[r]
           all == q.users \cup (IF q.seen = Absent THEN {} ELSE UsersOf(q.seen))
       IN  IF q.seen # Absent /\ q.seen.parent # Root
           THEN Become(r, [q EXCEPT !.users = all, !.seen = Unread,
                                    !.at = q.seen.parent])
           ELSE Become(r, Telling([Rest(r) EXCEPT !.pc = "ok", !.told = q.told],
                                  EventOf(Call[r].kind), all))
    /\ UNCHANGED <<store, now, history>>

-----------------------------------------------------------------------------
\* The rest of the world

Tick == /\ now < MaxTime
        /\ now' = now + 1
        /\ UNCHANGED <<store, req, history>>

Crash == /\ CanCrash
         /\ InFlight # {}
         /\ req' = [r \in Requests |->
                      IF r \in InFlight
                      THEN [Rest(r) EXCEPT !.pc = "lost", !.told = req[r].told]
                      ELSE req[r]]
         /\ UNCHANGED <<store, now, history>>

\* Every request has been answered: nothing is left to do.
Finished == /\ \A r \in Requests : req[r].pc \in Answers
            /\ UNCHANGED vars

Serve(r) ==
    \/ Fetch(r) \/ CheckExists(r) \/ Check(r) \/ Read(r) \/ Get(r)
    \/ AddPermission(r) \/ RejectPermission(r) \/ AddLink(r)
    \/ RemovePermission(r) \/ AddToBin(r) \/ Put(r) \/ ScanLinks(r)
    \/ Unlink(r) \/ Audience(r)

Next == \/ \E r \in Requests : Begin(r) \/ Serve(r)
        \/ Tick
        \/ Crash
        \/ Finished

Spec == Init /\ [][Next]_vars

\* The event loop answers every database call it has made.
FairSpec == Spec /\ \A r \in Requests : WF_vars(Serve(r))
-----------------------------------------------------------------------------
\* Properties

\* The variables keep their types.
TypeOK ==
    /\ files \in [Files -> FileRecord \cup {Absent}]
    /\ perms \in [PermIds -> Permission \cup {NoPerm}]
    /\ shared \subseteq Users \X Files
    /\ bin \subseteq Files
    /\ now \in 0..MaxTime
    /\ req \in [Requests -> RequestState]
    /\ issued \subseteq Grantees \X Files \X Roles
    /\ placed \subseteq Files \X (Files \cup {Root})

\* Every reference between the four stores resolves, at every instant and
\* after every crash: a file names only permissions that are written, its
\* parent exists, a link leads to a file (Files.patchAccess and Files.add write
\* the referenced record first).
RefsResolve ==
    /\ \A f \in Files : files[f] # Absent =>
          /\ \A p \in files[f].ids : perms[p] # NoPerm
          /\ files[f].parent # Root => files[files[f].parent] # Absent
    /\ \A l \in shared : files[l[2]] # Absent

\* A file never carries two permissions of one grantee, however the access
\* patches that work on stale copies of it overlap: findUserPermission takes
\* the first it meets, removePermission removes the first it meets.
OneGrantPerGrantee ==
    \A f \in Files : files[f] # Absent =>
        \A p, q \in files[f].ids : perms[p].to = perms[q].to => p = q

\* A permission record serves one file, so a change of role never leaks.
PermissionsNotShared ==
    \A f, g \in Files : (files[f] # Absent /\ files[g] # Absent /\ f # g) =>
        files[f].ids \cap files[g].ids = {}

\* A file marked as deleted has its record in the bin, also when the process
\* died in the middle of the delete or a stale copy was written back.
BinBeforeDelete ==
    \A f \in Files : (files[f] # Absent /\ files[f].deleted) => f \in bin

\* No write without authority.  Checking it takes a walk of several reads, and
\* files, permissions and parents change before the write: still, whoever last
\* modified a file or added one of its permissions had been given `writer` on,
\* or owned, the file or something it was under; whoever put it under its parent
\* had been given that on the parent; whoever removed it had been given `owner`.
WritesAuthorised == Authorised(files, perms, issued, placed)

Circle == CircleIn(files)

\* A circle of files takes two creates of one key that both found it free and
\* put it in two places.  Nested creates in any order, patches and deletes that
\* write back stale copies of files that moved meanwhile, and crashes do not.
OnlyRacesMakeCircles == Circle => TwicePlaced(placed)

\* Every request that is taken up is answered, unless files get under one
\* another: creates that race for a key can do that, and then the walks up the
\* tree (Files.readFileAccess, fileUsers, fileUserIds) have no end.
EveryRequestAnswered ==
    \A r \in Requests : req[r].pc \in Busy ~> (req[r].pc \in Answers \/ Circle)

\* The links to f are exactly the users with a permission of their own on it.
LinksExact(F, P, S, f) ==
    {u \in Users : Link(u, f) \in S} =
        IF F[f] = Absent \/ F[f].deleted THEN {}
        ELSE {u \in Users : \E p \in F[f].ids : P[p].to = u}

\* One request at a time, the links of a file (Shared.ts) are an exact index of
\* its permissions, and of nothing once it is deleted, if they were at the start.
\* Excepted are the files a request is at work on, those a crash cut a request
\* on short, and those whose access patch met an expiration time in the past
\* (Files.addPermission throws when the operations before it have made their
\* links, and the record that names them is not written).
SharedIndexExact ==
    \A f \in Files :
        (/\ LinksExact(InitFiles, InitPerms, InitShared, f)
         /\ \A r \in Requests : Call[r].file = f =>
               /\ req[r].pc \notin Busy \cup {"lost"}
               /\ Call[r].kind = "access" => req[r].pc # "400")
        => LinksExact(files, perms, shared, f)

\* docs/api.md:258-260, a removed file stays in the store "marked as deleted".
DeletedStaysDeleted ==
    [][\A f \in Files : (files[f] # Absent /\ files[f].deleted)
                            => (files'[f] # Absent /\ files'[f].deleted)]_vars

\* An event about a file never reaches a stranger: whoever is told that it was
\* created, changed, removed or shared was at some time given a role on it, or
\* on something it was under, although the list of users is collected record by
\* record after the write (readFileUserIds looks at no expiration time).
EventsStayInside ==
    \A r \in Requests : \A e \in req[r].told :
        e[1] # "access-removed" =>
            \E g \in Above(placed, Call[r].file), role \in Roles :
                <<e[2], g, role>> \in issued
=============================================================================
