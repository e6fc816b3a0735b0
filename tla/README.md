# net-store: a verification project

net-store is the backend of API Client: an HTTP and web-socket server over
LevelDB that keeps files, their permissions, media, HTTP history, application
data and user sessions. This directory holds TLA+ modules that model its core,
the TLC configurations that check them on small instances, and theorems that
TLAPS proves for every instance. Paths below are relative to the repository.

## 1. The system

| Part | Code | State | Operations | Talks to |
|---|---|---|---|---|
| Files | `src/persistence/level/Files.ts` | one record per file: owner, parents, ids of permissions, deleted mark | add, read, list, applyPatch, patchAccess, delete, listUsers, checkAccess, fileUserIds | PermissionStore, Shared, Bin, web sockets |
| Permissions | `PermissionStore.ts` | one record per permission: grantee, role, expiration | list, write, add\*, remove\*, delete, findUserPermission | Files |
| Shared index | `Shared.ts` | links user -> file | add, remove, list, deleteByTarget | Files |
| Bin | `Bin.ts` | one record per removed file | add, isDeleted | Files, Media |
| Media, revisions | `Media.ts`, `Revisions.ts` | contents of a file, its history of patches | set, read, delete, applyPatch; add, list | Files (access, audience), Bin |
| HTTP history | `History.ts` | data records and four indexes | add, bulkAdd, list, query, read, delete, bulkDelete | Files (access, audience) |
| App data | `AppProjects.ts`, `AppRequests.ts`, `App.ts` | one record per document, an in-memory search index | create, patch, delete, undelete, batches, query | web sockets |
| Sessions | `src/session/AppSession.ts`, `Session.ts`, `Tokens.ts` | cache, store, map of OAuth states | get, set, delete, generate\*, add/get/deleteOAuthSession, `_gc` | session store |
| Login | `src/authentication/Oidc.ts`, `SingleUserAuthentication.ts` | none of its own | middleware, init/request/callback handlers | AppSession, User, the identity provider |
| Users | `User.ts`, `UsersHttpRoute.ts` | one record per user | add, read, list | login |
| HTTP routes | `src/routes/*HttpRoute.ts`, `BaseRoute.ts` | none | one handler per method and path | the stores |
| Web sockets | `WsClients.ts`, `SocketRoute.ts`, `ApiRoutes.ts`, `Server._upgradeCallback` | registry of clients, list of routes | register, unregister, notify, closeByUrl, upgrade, shutDown | sessions, Files (access) |
| Proxy | `ProxyServer.ts`, `src/proxy/*` | none | run a request or a project | Files, Media, History |
| Start-up | `Server.ts`, `BackendInfo.ts`, `lib/Config.ts`, `src/cli/*` | configuration file | read, create | file system |

The server is one event loop. Everything between two `await`s is atomic; at
every `await` of a LevelDB call, of the identity provider or of a timer any
other request may run. Nothing in the code locks a record or compares versions,
writes of several records are not transactions, and the process may die between
any two of them. These are the hard behaviours:

- a decision (access check, existence check, cached value) is used after an
  `await` and may be stale by then;
- a whole record is written back from a copy that was read earlier;
- one operation writes two to five records, in an order that decides what a
  crash leaves behind;
- the session cache is filled with what the store answered some time ago;
- one HTTP request is two operations of two stores (contents and metadata), and
  the second may be refused or never come;
- a web socket route is shared by clients that came for it at different times and
  closed by any of them;
- events go to a list of users, and sockets, collected after the write.

What makes each part correct:

- **Files, permissions, sharing, bin**: references resolve; one permission per
  grantee; no permission serves two files; nothing is written without
  authority, even with stale checks; a removed file has its bin record; the
  shared index agrees with the permissions; events stay with people who were
  given access; every request is answered.
- **Sessions and login**: a session authenticates only who signed in to it; a
  state is redeemed once; tokens and logins survive a crash once handed out;
  the cache is invisible; a login or a logout that was answered holds.
- **Media and revisions**: undoing the revisions gives back what was uploaded; no
  change goes unrecorded; contents go with their file; a listing is complete.
- **HTTP history**: the five stores agree, and a listing page by page neither fails
  nor skips, short of what a crash or a concurrent removal explains.
- **App data**: a query returns what the store holds, however the index was built.
- **Web sockets**: an open client is on a route that runs and is listed; nobody
  is disconnected by somebody else's leaving; every upgrade is answered; the
  process can end.

## 2. Modules

| Module | Kind | What it is |
|---|---|---|
| `FileStore` | component | Files, PermissionStore, Shared and Bin, driven by the handlers of FilesHttpRoute |
| `AccessControl` | abstract specification | a tree of files with grants, every change made by someone entitled to it |
| `FileStoreRefinement` | composition | `AccessControl` instantiated over the variables of `FileStore` |
| `MCFileStore` | model | catalogue of requests, initial store |
| `FileStoreTypes`, `FileStoreProofs` | proofs | theorems about `FileStore`, for any interleaving |
| `FileStoreSerialProofs` | proofs | theorems about `FileStore` with one request in flight, and the refinement of `AccessControl` |
| `AppSession` | component | the session cache, the session store and the OIDC login |
| `MCAppSession` | model | catalogue of requests, scripts |
| `AppSessionProofs` | proofs | theorems about `AppSession` |
| `Media` | component | contents and revisions, driven by the `alt=media` half of FilesHttpRoute |
| `MCMedia` | model | catalogue of requests, who may do what, scripts |
| `MediaProofs` | proofs | theorems about `Media` |
| `Sockets` | component | upgrades, routes on demand, the registry of clients, the end of the process |
| `MCSockets` | model | clients, URLs, who may read, who connects together |
| `SocketsProofs` | proofs | theorems about `Sockets` |
| `AppStore` | component | application documents and the search index in front of them |
| `MCAppStore` | model | catalogue of requests, initial documents |
| `AppStoreProofs` | proofs | theorems about `AppStore` |
| `History` | component | HTTP history: records, four indexes, paged listings |
| `MCHistory` | model | catalogue of requests, who may access what, initial records |
| `HistoryProofs` | proofs | theorems about `History` |

`FileStore` composes Files with the three stores it writes. `Media` composes the
media store and the revisions with the two fields of the file's metadata that the
same requests write, its mark and its bin record. `History`, `Media` and
`Sockets` ask `Files.checkAccess` and take the answer as a constant (`Writers`
and `Readers`, `Access`, `Readers`, which `Sockets` lets shrink): what a user may
do while permissions change is the subject of `FileStore`.

### FileStore

`files`, `perms`, `shared`, `bin` are the four LevelDB stores. A request is a
process with a program counter `pc`; `req[r]` holds the locals of its handler:
the file being read (`at`, `seen`), the handler's copy of the file and of its
permissions (`doc`, `mem`), the operations left (`todo`), the role found, the
users collected and what was sent to whom (`told`). `Call[r]` says what the
request asks for. `issued` and `placed` are histories: every role ever handed
out on a file, and every parent a file was ever created under. They begin with
what an earlier run has left (`InitIssued`, `InitPlaced`), like the stores.

| Action | Code |
|---|---|
| `Begin` | the handler is called (`createFile*`, `fileReadHandler`, `filePatchHandler`, `patchUser`, `fileDeleteHandler`) |
| `CheckExists` | `Files.add`: the key must be free |
| `Fetch`, then `Check` | one level of `checkAccess`: `get` reads the record, then lists its permissions and decides or goes to the parent |
| `Read`, `Get` | the second read of the file after the check (`read`, `applyPatch`, `patchAccess`, `delete`) |
| `AddPermission`, `RejectPermission`, `AddLink`, `RemovePermission` | one operation of `patchAccess` |
| `AddToBin` | `Bin.add`, before the file is marked |
| `Put` | the write of the whole record from the handler's copy |
| `ScanLinks`, `Unlink` | `Shared.deleteByTarget`: iterator, then batch |
| `Audience` | one level of `fileUserIds`, and the events at the top |
| `Tick`, `Crash` | time; the process dies and all requests in flight with it |

Abstractions, all in the data: only the last element of `parents` is kept, the
only one the code follows; names, times and the contents of the metadata are
left out, `edits` is the set of PATCH requests a record carries; permission ids
are uuids, so a new one is any unused id; the group permissions are stored and
never match, as in the code, which passes no groups to `findUserPermission`.
Requests are one-shot and come from a catalogue, users exist (the 400 for an
unknown user is like `RejectPermission` and not kept), a PATCH changes
something. `Date.now()` is read in the step that compares with it. The first
read of the parent in `Files.add` supplies the list of ancestors only and is no
step of its own. Listings and the reading of bulks change nothing and are not
modelled. `Files.ts:338-339` closes the sockets of a removed file by a URL no
client has (section 3), so a DELETE has no step for it. The contents, which
the same routes handle, are in `Media`.

### AccessControl and its refinement

`AccessControl` states who may do what over the tree at one instant:
the nearest file, going up, that says something about a user settles the matter.
An access patch is a function (`Patched`) of the grants, stated without going
through its operations: of those that name a grantee the last one decides, and the
adds since he was last removed say until when. `FileStoreRefinement`
maps the four stores to the tree (`AclOf`) and the request that has passed its
check to `acting`. The abstract tree lets a grant that exists change ahead of
the rest of its patch (`Regrant`), since the code writes permission records one
by one; a crash in the middle is a `Leave`. `ActorsDistinct` says that `Nobody`
and `Absent` are no actor and no node.

### AppSession

`cache` and `store` are the two copies of a session, `auth` the in-memory map
from OAuth state to session id, `users` the user store. `stale` is the set of
cached sessions nobody used for `ttl`. `tokens` are ids whose JWT a client
holds, `ended`, `signed` and `opened` are histories. A request goes through the
middleware (`Hit`, or `Miss`, `ReadStore`, `Fill`; then `LoadUser`) and then
through its handler: `Start`, `AddOAuth`, `Redirect`, `Callback` with
`ExchangeFails`/`ExchangeSucceeds`, `PutLogin`, `AddUser`, and for renewing and
ending `DeleteStored`, `Reissue`, `PutNew`. `Gc` is the timer, `HourPasses`
time, `Restart` an orderly restart or a crash.

What a token is, how it is signed and when it expires is left out: a token is
its session id. The `state` and `nonce` are random, so the requests that carry
them are made only after they were handed out (`MayArrive`), and ids and states
that different requests generate differ (`FreshIds`). `script`, chosen at the
start and never changed, says which requests a behaviour makes, how many are
served at once and whether the process may die while they are. Single-user mode is
not modelled.

### Media

`contents` is the media store, `revisions` the revisions store with the
millisecond as the key, `removed` and `bin` the mark of the file's metadata and its
bin record. A request holds the copy of the contents it read (`got`), the time
of its revision or the cursor of its listing (`time`), and whether it has
changed the contents. `origin` (what was uploaded last) and `disturbed` are
histories: `disturbed` are the files whose writers overlapped, whose contents
were uploaded over, that lost a revision to another of the same millisecond or to
a crash between contents and revision.

| Action | Code |
|---|---|
| `ReadFile` | the read of the file that begins `fileReadHandler`, `patchFileContents`, `fileDeleteHandler` |
| `CheckAccess` | the `checkAccess` that begins `createFileMedia` and `Revisions.list` |
| `CheckFree` | `Media.set` without `allowOverwrite` |
| `ReadContents`, `PutContents` | `Media.read`, `applyPatch`, `set`, `delete` |
| `PutRevision` | `Revisions.add` |
| `Recheck`, `PutFile` | the `Files.update` that ends `patchFileContents` |
| `Authorise`, `GetFile`, `AddToBin`, `Mark` | `Files.delete`: the writer's check, the second `get` with the owner's check, bin, mark; then `AddToBin` again for `Media.delete` |
| `Page` | one page of `Revisions.list`; the client goes on from its cursor |
| `Tick`, `Crash` | time; the process dies |

A patch is the replacement of one field, which has one inverse; the patch
language is a library's. The reader's check and the read of the file that follows it
are one step (`ReadFile`). What this leaves out is a mark set between the two: a
GET or DELETE takes no notice of it, and a PATCH, whose copy then has the mark, is
refused by `Recheck` unless a third request has taken the mark off the file again.
The route that would list revisions over HTTP never reaches `Revisions.list` (section 3); the listing is
driven as the store offers it.

### Sockets

A route of `ApiRoutes` is named by the client whose upgrade made it: `server` is
the state of its `WebSocketServer`, `wsRoutes` the list, `watched` the routes whose
server still has its `close` listener. `conn` is what became of each client,
`held` the route it was put on, `lost` those whose connection broke during the
upgrade, `plain` the HTTP connections that ask for no upgrade, `phase` how far the
end of the process is.

| Action | Code |
|---|---|
| `Upgrade`, `RefuseSession`, `NotFound` | `_upgradeCallback`: session and user, 401, 404 |
| `Connect`, `RefuseAnonymous`, `Await` | `getOrCreateWs`, `isAuthorized`, `handleUpgrade` or 403 with `removeWsRoute`, as far as nothing is awaited |
| `Admit`, `Refuse` | the same after `FileWsRoute.isAuthorized` has awaited `checkAccess` |
| `Leave`, `Closed` | the client goes and is counted no more; the socket's `close`: `unregister`, `closeWhenNeeded`, `shutDown` |
| `Drop`, `Reset`, `Revoke` | a client hangs up while it is looked into; its connection is reset, which ends the process; access ends |
| `Visit`, `Ask`, `Stall`, `AnswerPlain`, `HangUp`, `Abandon` | plain connections: a request comes, waits for its rest or for the identity provider, is answered, the connection is kept and closed |
| `Interrupt`, `Stop`, `Stopped`, `Cleanup` | `cli.ts`: `store.cleanup`, `server.stop`, `server.cleanup` |

A server's `close` event comes before anything else is served and is part of
the step that closes it. `handleUpgrade` of a server that is closed answers 503
(`ws`, external). Reading a session is one step, `checkAccess` one step when it ends
and none while it goes round (`Circling`): the files in `Circles` are above
themselves, as `FileStore` shows they may come to be, and a user whom their walk
does not meet is refused only when the circle is cut or the store closes. While
`_upgradeCallback` awaits, nothing listens for an `error` of the raw socket, so a
reset then is an unhandled event and the process dies (`Reset`, the phase
`crashed`; a client that closes its end is a `Drop`, whose upgrade breaks off when
it would be answered). The
messages on the sockets are events, whose audience is part of `FileStore`. Starting
the HTTP server, and the web socket routes of application data, which the code
cannot reach (section 3), are left out.

### AppStore

`docs` is the store, `index` the FlexSearch document index in memory, `started`
the flag `indexStarted`. `disturbed` is a history: the keys written, since the
last start, by a request that overlapped a query or another write of the key.

| Action | Code |
|---|---|
| `Create` | `create`, `createBatch`: one put or batch, nothing read before |
| `Get`, then `Put` | `deleteBatch`, `undeleteBatch`, `delete`: `get`/`getMany`, the change in memory, the write |
| `Get`, `Reget`, `Put` | `patch` and `update`, which reads the record a second time |
| `Index` | what follows the write: add, update or remove, if `started` |
| `Query`, `IndexOne`, `IndexDone`, `ReadFound` | `query`: `indexAll` from a snapshot, the search, `getMany` |
| `Restart` | the process stops or dies; `warmup` resets the index |

A document has one word, a query looks for one word. FlexSearch is external:
one entry for an id, and a search that finds every entry with the word that
carries the owner's tag and may find others (how it combines two tags is its
own matter; the documents of others are filtered by `getMany`, whose keys carry
the owner). `AppProjects.ts` and `AppRequests.ts` are the same code on two
stores that share nothing.

### History

`data` and `index` are the five LevelDB stores; an index entry is a pair of a
target and a key. Keys are numbers in the order of the stores, by user and then
by time. `disturbed` holds the keys whose writers overlapped, died or replaced
a record of the same millisecond; `erased` counts the writes that took entries
out of an index while a listing was under way, and a listing remembers the count
it began with.

| Action | Code |
|---|---|
| `Validate` | `add`, `bulkAdd`: `validateHistoryObject`, the records and entries to write |
| `Read` | `delete`, `bulkDelete`: the records are read, authority is checked |
| `Write` | one of the stores answers: any order under `Promise.all`; `delete` awaits the record first |
| `StartList` | `list`: access, and for a project that is listed for itself `media.read`, which refuses when there are no contents |
| `ScanPage` | a page of `listAllUserHistory` or `queryHistory`, from the records |
| `IndexPage`, `Fetch` | `listHistoryType`: a page of the index, then `getMany` |
| `Crash` | the process dies between two writes |

A listing is the client's loop over all pages, each with the cursor of the one
before. `After` is what `iterator.seek` and the `next` that follows it do in a
reverse iterator, also when the key of the cursor is gone. A search goes through
the records of every user, or of one, and filters them (`Scanned`, `Matches`); the
term it looks for is one that every record has.

## 3. What the runs check

| Run | Question | Bounds |
|---|---|---|
| `FileStore_sharing` | do overlapping patches of permissions, an edit and a delete keep permissions, bin and events right | 2 requests in flight, any crashes |
| `FileStore_tree` | do racing creates and patches in a tree keep references and authority right, is every request answered short of a circle, and does a circle take a race for a key | 2 in flight, any crashes |
| `FileStore_serial` | is the code, one request at a time, the abstract access control | 1 in flight, time passes, any crashes |
| `FileStore_undelete` | a disagreement with the docs | 2 in flight |
| `AppSession_races` | do sessions, states, tokens and logins survive races, evictions and crashes, is the cache invisible to sequential clients, is every request answered | scripts with 2 or 3 in flight, one with 1; any crashes where the script has them |
| `AppSession_endrace` | a disagreement with a test | 2 in flight |
| `AppStore_races` | is a query exact | 2 in flight, one restart |
| `AppStore_removed` | a disagreement with a test | 2 in flight, one restart |
| `History_races` | do records, indexes, paged listings and searches agree | 2 in flight, one crash, pages of one record |
| `Media_races` | do contents, revisions and the file's mark agree, is a listing complete | scripts of up to 4 requests, 3 in flight, 3 milliseconds, any crashes, pages of one revision |
| `Sockets_races` | do routes, clients and the end of the process stay in step | gatherings of 3 connections, web sockets or plain, any order of refusals, revocations, breaks, resets |
| `Sockets_shutdown` | a disagreement with the command line's own words | 2 clients |

Two requests at once are what most races need: each of them is a step of one
request between two steps of another, and a third request finds the state the
two have left, since requests are one-shot and start in any order. Three are used
where a third can meet the other two half way (a listing while two patches are
under way, a callback twice against a renewal, a refusal while one client leaves
and another waits for its authorisation). Where crashes
are bounded, one is enough for what a crash leaves behind: the requests that come
after it show what follows. The catalogues name each user, file and key the
properties compare: a file, its parent and a stranger; two sessions and two
people; a key one owner uses and a key two use; records of two users; a document
with contents, a note written over, and a space, removed with and without contents. A page of
one record makes every record a cursor. Three milliseconds let two patches
share one and be apart.

### Safety

`OnlyRacesMakeCircles` is about the overlap itself: two creates of one key may both
succeed, and do in `FileStore_tree`; the property is that files come to stand under
one another in a circle in no other way. `SharedIndexExact` and the refinement need
requests that come one at a time (`FileStore_serial`), since a stale copy or a
second create breaks them. `SharedIndexExact` leaves out the files a
request is at work on, those a crash cut a request on short, and those whose access
patch met an expiration time in the past: `Files.addPermission` throws after the
operations before it have made their links, and the record that would name them is
not written. `CacheInvisible` speaks of the behaviours whose
script serves one request at a time, since a stale fill breaks it. All other
properties are meant for every interleaving. `QueryExact`, `IndexExact`,
`NothingSkipped`, `UndoRestores` and `ReplacedByPatchOnly` leave out the keys and
files (`disturbed`) that two writers fought over; the rest must be exact however
the others overlap.

### Liveness and fairness

`EveryRequestAnswered` in FileStore assumes weak fairness of the steps that serve a
request, one by one for each request: the event loop calls back when LevelDB has
answered, and LevelDB answers. It has to be one by one, because a walk that goes
round for ever (below) must not keep the other requests from theirs.
AppSession, Media and Sockets assume less, weak fairness of all serving steps
together: the event loop does not rest while it has something to call back. That is
enough because every request takes finitely many steps of its own, which
is what the properties say in the form "again and again nobody waits". Nothing is
assumed of arrivals, evictions, time, crashes, clients that leave or of the
identity provider, whose requests have no timeout; a login that waits for it is
excluded from the property. `ws` gives up a closing handshake after a timeout, so
`Closed` is among the serving steps of Sockets; the steps of an upgrade whose walk
goes round are not, so `EveryUpgradeAnswered` excepts it (`Circling`) as FileStore
excepts a `Circle`. Plain connections have a fairness of their own (`Answering`):
a request that has all it needs is answered, and a kept connection is closed after
its timeout. `OnlyClientsDelayTheEnd` is what remains true of an interrupt: the
process ends unless a client keeps its web socket, or there is always a plain
connection that waits for its client or for another server; `server.close` waits
for both.

In FileStore the walks up the tree are loops over records that other requests
write, and they do not always end: two creates race for the key `fresh`, one
under `doc`; `sub` is created under `fresh`; then the second create, which found
the key free, puts `fresh` under `sub`, and the walk of its event, and every
later check of a user neither file says anything about, goes round for ever. `EveryRequestAnswered` states
exactly this: a request is answered or there is a `Circle`. The requests of
`FileStore_tree` include the ones that make it, and `OnlyRacesMakeCircles` says
that nothing else does.

### Disagreements found

Each of the violation runs checks one property that quotes the text it takes
issue with (see the comments of the properties and the findings in
`PROJECT.json`). These further differences need no run, since one sequential
call, or reading the code, shows them:

- `PermissionStore.ts:66-67` against `71-79`: the removal of a permission is
  made on a copy and the stored record is never written;
- `docs/ws-events.md:17` against `Files.ts:171`, `docs/ws-events.md:20` against
  `Files.ts:446-451`: who is told about a new file and a new user;
- `docs/ws-events.md:9` against `Files.ts:601-613`: users whose permission has
  expired are still told;
- `docs/sessions.md:12-13` against `AppSession.ts:77,181-189`: the states of a
  login are kept in memory, and a nonce is not committed;
- `AppProjects.ts:464`, "updates the value without changing the document meta",
  against `472-477`: a delete between the two is undone;
- `History.ts:631-635`: when the entry a cursor names has been deleted, the next
  page begins one record too late (`NothingSkipped` states the exact bound);
- `Files.ts:126`: two creates of one key that overlap both succeed, where
  `src/test/store/FileStore.test.ts:134` "throws when the file already exists";
- `Server.ts:280-378`: a connection that is reset while its upgrade is looked into
  ends the process, since nobody listens for the socket's errors (`Reset`);
- `AppSession.ts:243`: a fill that was under way hides a login from the cache until
  the entry is evicted, against `docs/authentication.md:79`;
- `FilesHttpRoute.ts:266`: a PATCH of the contents by a reader changes them, keeps
  a revision and is then answered 403;
- `FilesHttpRoute.ts:281-297`: a DELETE of a file without contents removes the file
  and answers 404, where `docs/api.md` says 204; after a crash between the two
  halves the contents stay unmarked and the repeated DELETE is answered 404;
- `FilesHttpRoute.ts:175-181` stores contents for a space too, where `:211`
  says "Spaces have no media": they can be neither read nor patched, and the
  DELETE of the space leaves them unmarked;
- `FilesHttpRoute.ts:42` against `:361`: the route of revisions is registered with
  one parameter name and its handler reads another, so it always refuses;
- `Media.ts`: overwriting contents sends no event (`docs/ws-events.md:31`);
- `Revisions.ts:27-29`: two patches of one millisecond keep one revision;
- `ApiRoutes.ts:164`: a refused upgrade, also of a session nobody signed in to,
  disconnects everybody at that URL and lets upgrades that wait for their
  authorisation end with 503; `SocketRoute.ts:29` speaks of routes with no client.
  An upgrade is answered 503, too, when the last client leaves while it waits;
- `Files.ts:338-339`: removing a file closes the sockets at a URL without the query
  every client has, so none is closed;
- `ApiRoutes.ts:107` against `125-132`: the web socket routes of application data
  cannot be reached;
- `ApiRoutes.ts:95-103`: each upgrade for the history or a login makes a route of its
  own, and the list of them grows until its clients leave.

## 4. What is proved

TLAPS proves, for every value of the constants (users, files, permissions,
requests, clients, URLs, records, contents, clock, bounds):

| Theorem | Property |
|---|---|
| `FileStoreTypes!TypeCorrect` | `TypeOK` |
| `FileStoreProofs!ReferencesResolve` | `RefsResolve` |
| `FileStoreProofs!GrantsUnique` | `OneGrantPerGrantee` |
| `FileStoreProofs!PermissionsPrivate` | `PermissionsNotShared` |
| `FileStoreProofs!DeletedIsInBin` | `BinBeforeDelete` |
| `FileStoreProofs!NoUnauthorisedWrite` | `WritesAuthorised` |
| `FileStoreProofs!StrangersHearNothing` | `EventsStayInside` |
| `FileStoreProofs!CirclesNeedRaces` | `OnlyRacesMakeCircles` |
| `FileStoreSerialProofs!LinksStayExact` | `SharedIndexExact` |
| `FileStoreSerialProofs!StoreImplementsTree` | `ImplementsAccessControl` |
| `AppSessionProofs!TypeCorrect` | `TypeOK` |
| `AppSessionProofs!SessionsSigned` | `SessionsBelongToSigners` |
| `AppSessionProofs!TokensLast` | `TokensDurable` |
| `AppSessionProofs!StatesRedeemedOnce` | `StateRedeemedOnce` |
| `AppSessionProofs!SignInsLast` | `SignInDurable` |
| `AppSessionProofs!CacheTransparent` | `CacheInvisible` |
| `AppStoreProofs!TypeCorrect` | `TypeOK` |
| `AppStoreProofs!QueriesExact` | `QueryExact` |
| `SocketsProofs!TypeCorrect` | `TypeOK` |
| `SocketsProofs!OpenListed` | `OpenClientsListed` |
| `SocketsProofs!FileRoutesServe` | `FileRoutesInUse` |
| `SocketsProofs!NobodyDisturbed` | `LeavingDisturbsNobody` |
| `HistoryProofs!TypeCorrect` | `TypeOK` |
| `HistoryProofs!IndexesExact` | `IndexExact` |
| `HistoryProofs!ListingsFailForAdds` | `ListFailsForUnfinishedAdds` |
| `HistoryProofs!NothingIsSkipped` | `NothingSkipped` |
| `MediaProofs!TypeCorrect` | `TypeOK` |
| `MediaProofs!ChangesRecorded` | `EveryChangeHasRevision` |
| `MediaProofs!GoTogether` | `RemovedTogether` |
| `MediaProofs!PatchedOnly` | `ReplacedByPatchOnly` |
| `MediaProofs!ListingsComplete` | `ListingComplete` |
| `MediaProofs!UndoingRestores` | `UndoRestores` |

These are all the invariants and action properties that the passing runs check, and
the refinement.

Assumptions: the sentinels are outside the sets they extend
(`SentinelsDistinct`), calls, clients, scripts and bounds are typed (`CallsTyped`,
`ClientsTyped`, `ScriptsTyped`, `BoundsTyped`), the store an earlier run left
satisfies the invariant (`InitialStoreWellFormed`) and has no circle without a key
placed twice (`InitialStoreRooted`), ids that are generated are new
(`FreshIds`), there are finitely many requests (`RequestsFinite`), and the abstract
tree's sentinels are no actor and no node (`ActorsDistinct`). TLC evaluates all of
them in the runs. The two theorems of `FileStoreSerialProofs` have one hypothesis
more, `MaxInFlight = 1`: they are about requests that come one at a time. With two
in flight a stale copy or a second create breaks each of them (section 3).

**FileStore.** None of the properties is inductive: what makes them hold under any
interleaving is that a handler's stale copy stays harmless. The argument of
`FileStoreProofs` is one of monotony. Files and permission records are never
removed, the grantee of a permission never changes, the bin and the histories
of grants only grow. A copy of a file that was sound when it was read (its
permissions exist, are the file's own and have distinct grantees) is therefore
sound whenever it is written, and so the invariant asks of every copy in every
handler what it asks of the store. `WritesAuthorised` follows in the same way: a
handler that is past its check carries a role that is in the history of grants.
So does `EventsStayInside`: whoever a walk for the audience of an event has
collected was given a role on the file or on one it was placed under (`AllKnown`),
and neither history ever forgets.
`CirclesNeedRaces` looks at the only step that could close a circle, a `Put`. A
file that was stored keeps its parent, unless its key has been placed twice. A file
that was not is put under one that is stored, not under itself, and is nobody's
parent, since parents exist; without it the circle was there before.
`FileStoreTypes` proves the type invariant with one addition (`OnTrack`): which
of its locals a handler has filled at which point.

**FileStore, one request at a time.** `FileStoreSerialProofs` adds the invariant
`Serial`, what only a request that is alone can rely on:

- `Alone`, `Unmarked`: one request is in flight; a permission that a file names is
  never marked as removed (`PermissionStore` marks a copy only).
- `Served`: the copies the request holds are the stored records but for its own
  changes; the files its walk has passed said nothing about its user, say nothing
  now, and lead from its target to the file it is at.
- `LinksFollow`: the links of the file an access patch is at work on are those of the
  permissions its copy names, but for the one operation it is in the middle of; a
  delete takes out exactly the links its scan found.

`LinksStayExact` follows. For the refinement each action is
shown to be one step of the tree. The success of a `writer` check is `Admit`: the
walk, record by record, has found in the nearest file that says anything what
`RolesOf` finds among all of them at that instant. `AddPermission` is a `Regrant` when
it writes to a permission that exists, and otherwise nothing yet. `Put` is
`Create`, `Edit`, `Commit` or `Delete`; that `Commit` leaves exactly what
`Patched` says is an induction over the operations by one step (`n` operations
make of the grants what the `n`-th makes of the first `n - 1`), carried by the
invariant from action to action. Answers and `Crash` are `Leave` if the request was
acting; `Tick` is `Pass`; all other actions leave tree and actor as they were.

**AppSession.** The type invariant needs `OnTrack` as well (`Typed`). On top of it:

- `Signed`: every copy of a session, cached, stored or in a handler, names nobody
  or one who signed in to the id it will be written under; `signed` only grows, so
  a stale copy stays right.
- `GivenUp` and `KindsFit`: a session is taken out of the store only after its id
  was given up, and which kinds of request get to which point; `TokensDurable`
  follows step by step from the two.
- `Handed`: a state has at most one owner, the map, or the one callback
  that took it, since a state is entered by one login only (`FreshIds`).
- `Unknown` and `SignedIn`: an id that a `start` has yet to write is known to
  nobody, so no first write of a session comes after a login; every later
  write of a signed-in session is somebody's.
- `OneByOne`: with one request at a time the cache names whom the store names, or
  the one request is about to write that very session and it is not stale.
  Eviction, filling and restarts then change nothing that `AppSession.get`
  answers.

**Sockets.** `OpenClientsListed` is inductive with types, the routes that pending
upgrades hold (`HeldFits`) and the servers of listed routes (`RunningListed`,
`OpenOnRunning`): together `Attached`. `FileRoutesInUse` is inductive on top of
it, written over the routes one by one (`InUse`). `LeavingDisturbsNobody` needs `Attached`
and that nobody is connected when the HTTP server has ended (`EndedAlone`): who
leaves while others are open is not the last and closes no route, and the clean-up
finds nobody to close. A reset during an upgrade takes everybody with it, and the
property says so; plain connections touch none of this.

**History.** The stores of an add or a delete answer in any order, so while it
writes, data and indexes disagree, and `IndexExact` alone is not inductive. `Apart`
says that a key nobody disturbed has one writer in flight; `Agreeing`
that the entries of a key are those of its record (`Exact`) where nobody writes and
otherwise those of the record before or after, store by store, as far as the
writer's `todo` tells (`HalfWritten`). Listings
write nothing and are proved apart: what an index page found was written by an add,
so its record is stored, its writer is still at work or the key is disturbed
(`FoundKnown`). A record, once stored, is marked and never removed, so no delete
makes a listing fail. `NothingSkipped` needs that the cursor splits what was due
into what was shown and what is still below it, up to what was skipped (`Paging`).
A page skips a record only when the entry its cursor names is gone, and then
one; so what has been skipped so far, and one more if the cursor is
gone already, are no more than the writes that took entries out since the listing
began (`Accounted`). Records are never removed, so the cursor of a user's own history
or of a search stays, and there nothing is skipped; what a search filters by is the
record's own, which only an add of the same key could change (`Found`).

**Media.** `Typed` adds to the types which kind of request gets to which point
and what it carries there. `Recorded` gives `EveryChangeHasRevision`: each revision
kept has a patch of that file and millisecond that made it, and each patch past
its revision finds one. It needs no `disturbed`, since revisions are never removed.
`Whole` gives the other two: undisturbed files have one writer in flight
(`Apart`), what that writer has found and done still stands (`Held`), and
contents that are gone have a file that is gone and binned (`Gone`). A patch that is
past its first read has found the file unmarked; for one writer that is still
so when it writes the file back, which is why an undisturbed DELETE is never undone.
`ListingComplete` comes from the cursor, which splits what was there into
listed, once, and left (`Pages`). `UndoRestores` is about a recursive walk down
the log, which no step of the model takes. Its inductive form (`Restorable`)
looks at one field at a time: the earliest revision of a field keeps what was
uploaded; where there is none the contents do, or the patch that is
about to write the first; and a revision that is written is the newest. That the walk
then ends with the earliest revision of each field is shown by giving its result
in closed form (`BackTo`), and by the least counterexample to two functions that
satisfy one recursion being one (`UndoneOnce`).

**AppStore.** Overlapping writers of a key, and a query that overlaps one, disturb
it (`Apart`). For the rest: a document is stored for its owner alone if it is
private to it (`Owned`); nothing is indexed before the first query (`Unbuilt`);
what a writer carries is, once written, what is stored (`Carries`); the index
follows the store but for what has been written and not yet indexed
(`Followed`); and a query that builds the index has indexed a document or still
will, one that has searched found exactly what it should (`Queried`).

Checked by TLC only: liveness (`EveryRequestAnswered` of three components,
`EveryUpgradeAnswered`, `OnlyClientsDelayTheEnd`), which is out of the prover's
reach with everything about fairness and `ENABLED`, and the violations of section 3,
which are counterexamples.

## 5. What is not modelled

- Listings of files, shared files, users and application documents, how a search
  of the history compares texts, reads of single records: they change nothing.
- The proxy (no state), single-user authentication (one user, no login; its
  sessions are those of `AppSession` without a provider), cursors
  and encryption, opening and closing of stores.
- Configuration and command line: the file is read, or written with a new
  secret, once before any request. Two processes that start at once on a fresh
  configuration would each write a secret of their own (`lib/Config.ts:60`); the
  server is made to run alone.
- The start of the HTTP server, and the web socket routes of application data,
  which cannot be reached.
- The search index of application data is keyed by the document alone
  (`AppProjects.ts:116`), as in `AppStore`, which has one application; two
  applications with a document of one key would share its entry.
- Failures of LevelDB other than the death of the process.

Some hazards have no property, and `PROJECT.json` says why at each: the code takes
the bad step, the model takes it too, and no text of the repository promises
otherwise. They are a role lost between a check and its write (`Files.ts:252`), a
late link of a removed permission (`Shared.ts:133`), a login whose state or nonce
the cache has dropped (`AppSession.ts:186`), a provider that never answers
(`Oidc.ts:509`), a renewal cut short (`AppSession.ts:158`), overlapping writes of
one document (`AppProjects.ts:116,472`), of one history record (`History.ts:67,353`)
and of one file's contents (`Media.ts:20`), two patches of one millisecond
(`Revisions.ts:27`), crashes between the stores of a history record or between
contents and revision (`History.ts:303`, `Media.ts:107`), and the reset that ends the
process (`Server.ts:364`). The properties leave those cases out where they are, and
hold around them.

## 6. Plan

1. `AccessControl` on its own: type correctness, and that nobody gains a role on a
   file but by its creation or from one who was entitled to give it. With
   `StoreImplementsTree` that holds of the store, too, when requests come one at a
   time.
2. What remains of `EveryRequestAnswered` without fairness: that a walk up the
   tree that is no `Circle` gets nearer to the root with every step.
