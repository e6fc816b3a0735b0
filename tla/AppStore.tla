------------------------------- MODULE AppStore -------------------------------
(***************************************************************************)
(* Application data: the documents of src/src/persistence/level/           *)
(* AppProjects.ts and the search index in front of them.  AppRequests.ts   *)
(* is the same code for another kind of document; the two share nothing.   *)
(*                                                                         *)
(* The index is in memory and is built by the first query after a start.   *)
(* From then on every write updates it, once the store has answered.  The  *)
(* store is keyed by application, user and document; the index by document *)
(* alone, with the application and the user as tags.                       *)
(*                                                                         *)
(* Not kept: events, the time fields, listings and plain reads (they       *)
(* change nothing), and the limits of a query.                             *)
(***************************************************************************)
EXTENDS Naturals, FiniteSets

CONSTANTS
    Owners,           \* pairs of an application and a user
    Keys,             \* keys of documents, chosen by the clients
    Words,            \* what a query looks for; a document contains one word
    Absent, NoEntry,
    Requests, Call,   \* Call[r]: what request r asks for
    MaxInFlight,      \* bound: requests being served at once
    MaxRestarts,      \* bound on restarts
    InitDocs          \* the store as an earlier run left it

VARIABLES
    docs,        \* Owners -> Keys -> document or Absent: the store
    index,       \* Keys -> entry or NoEntry: the FlexSearch document index
    started,     \* indexStarted
    req,         \* Requests -> the local state of the handler
    restarts,    \* counts restarts
    disturbed    \* history: keys written, since the start, by a request that
                 \* overlapped a query or another write of the key

vars == <<docs, index, started, req, restarts, disturbed>>

-----------------------------------------------------------------------------
\* Data

Document == [deleted : BOOLEAN, word : Words]
Entry == [owner : Owners, word : Words]

\* create, delete: of one document or a batch ("erase" is the delete of a
\* single one, which refuses what is not there); word: the contents brought,
\* or the word looked for.
Kinds == {"create", "erase", "delete", "undelete", "patch", "query"}
CallType == [kind : Kinds, owner : Owners, keys : SUBSET Keys, word : Words]

Busy == {"begin", "put", "reget", "index", "indexing", "read"}
Answers == {"ok", "404", "lost"}

\* mem: the documents to be written; found: the keys the index answered; todo:
\* the documents still to be indexed; got: the answer of a query; gone: history,
\* the owner's documents that were deleted when the query began.
RequestState == [pc : {"idle"} \cup Busy \cup Answers,
                 mem : [Keys -> Document \cup {Absent}],
                 todo : SUBSET (Owners \X Keys \X Words),
                 found : SUBSET Keys,
                 got : SUBSET (Keys \X Document),
                 gone : SUBSET Keys]

ASSUME SentinelsDistinct == Absent \notin Document /\ NoEntry \notin Entry
ASSUME CallsTyped == Call \in [Requests -> CallType]
ASSUME BoundsTyped == MaxInFlight \in Nat \ {0} /\ MaxRestarts \in Nat
ASSUME InitDocsTyped == InitDocs \in [Owners -> [Keys -> Document \cup {Absent}]]

-----------------------------------------------------------------------------
\* The search index (FlexSearch): one entry for a key.  A search finds the
\* entries that contain the word and carry one of the tags it is given, the
\* owner's for certain.

NoIndex == [k \in Keys |-> NoEntry]

\* Mutant of Indexed: the tags are left out.
IndexedUntagged(entries, owner) ==
    [k \in Keys |-> IF k \in DOMAIN entries
                    THEN [word |-> entries[k].word] ELSE index[k]]

Indexed(entries, owner) ==
    [k \in Keys |-> IF k \in DOMAIN entries
                    THEN [owner |-> owner, word |-> entries[k].word] ELSE index[k]]

Unindexed(keys) == [k \in Keys |-> IF k \in keys THEN NoEntry ELSE index[k]]

Hits(entries, owner, word) ==
    LET containing == {k \in Keys : entries[k] # NoEntry /\ entries[k].word = word}
    IN  {S \in SUBSET containing :
            {k \in containing : entries[k].owner = owner} \subseteq S}

-----------------------------------------------------------------------------
\* Requests

InFlight == {r \in Requests : req[r].pc \in Busy}
NoMem == [k \in Keys |-> Absent]
Rest == [pc |-> "idle", mem |-> NoMem, todo |-> {}, found |-> {}, got |-> {},
         gone |-> {}]

Is(r, kinds, pc) == Call[r].kind \in kinds /\ req[r].pc = pc
Become(r, local) == req' = [req EXCEPT ![r] = local]
Answer(r, code) == Become(r, [Rest EXCEPT !.pc = code])

Stored(r) == docs[Call[r].owner]

Init ==
    /\ docs = InitDocs
    /\ index = NoIndex
    /\ started = FALSE
    /\ req = [r \in Requests |-> Rest]
    /\ restarts = 0
    /\ disturbed = {}

\* Of two requests that overlap: a query disturbs what the other one writes.
Clash(r, s) == IF Call[r].kind = "query" \/ Call[s].kind = "query"
               THEN Call[r].keys \cup Call[s].keys
               ELSE Call[r].keys \cap Call[s].keys

\* A handler is called.
Begin(r) ==
    /\ req[r].pc = "idle"
    /\ Cardinality(InFlight) < MaxInFlight
    /\ Become(r, [Rest EXCEPT !.pc = "begin"])
    /\ disturbed' = disturbed \cup UNION {Clash(r, s) : s \in InFlight}
    /\ UNCHANGED <<docs, index, started, restarts>>

\* create, createBatch: whatever is stored under the keys is replaced.
Create(r) ==
    /\ Is(r, {"create"}, "begin")
    /\ docs' = [docs EXCEPT ![Call[r].owner] = [k \in Keys |->
                  IF k \in Call[r].keys
                  THEN [deleted |-> FALSE, word |-> Call[r].word] ELSE @[k]]]
    /\ Become(r, [Rest EXCEPT !.pc = "index",
                              !.mem = [k \in Keys |->
                                 IF k \in Call[r].keys
                                 THEN [deleted |-> FALSE, word |-> Call[r].word]
                                 ELSE Absent]])
    /\ UNCHANGED <<index, started, restarts, disturbed>>

\* Which of the stored documents a request may change: deleteBatch takes the
\* deleted ones too.
Changes(r, doc) ==
    /\ doc # Absent
    /\ CASE Call[r].kind \in {"erase", "patch"} -> ~doc.deleted
         [] Call[r].kind = "delete" -> TRUE
         [] Call[r].kind = "undelete" -> doc.deleted

Changed(r, doc) ==
    CASE Call[r].kind \in {"erase", "delete"} -> [doc EXCEPT !.deleted = TRUE]
      [] Call[r].kind = "undelete" -> [doc EXCEPT !.deleted = FALSE]
      [] Call[r].kind = "patch" -> [doc EXCEPT !.word = Call[r].word]

\* get, getMany: the documents are read and changed in memory.  A single one
\* that is missing or deleted is a 404; a batch skips it.
Get(r) ==
    /\ Is(r, {"erase", "delete", "undelete", "patch"}, "begin")
    /\ LET keys == {k \in Call[r].keys : Changes(r, Stored(r)[k])}
       IN  IF Call[r].kind \in {"erase", "patch"} /\ keys = {}
           THEN Answer(r, "404")
           ELSE Become(r, [Rest EXCEPT
                   !.pc = IF Call[r].kind = "patch" THEN "reget" ELSE "put",
                   !.mem = [k \in Keys |-> IF k \in keys
                               THEN Changed(r, Stored(r)[k]) ELSE Absent]])
    /\ UNCHANGED <<docs, index, started, restarts, disturbed>>

\* update reads the record again, for its mark, and puts the patched contents
\* of the first read into it.
Reget(r) ==
    /\ Is(r, {"patch"}, "reget")
    /\ Become(r, [req[r] EXCEPT !.pc = "put", !.mem = [k \in Keys |->
          IF req[r].mem[k] = Absent THEN Absent
          ELSE [req[r].mem[k] EXCEPT !.deleted = Stored(r)[k].deleted]]])
    /\ UNCHANGED <<docs, index, started, restarts, disturbed>>

\* put, batch: the whole records.
Put(r) ==
    /\ req[r].pc = "put"
    /\ docs' = [docs EXCEPT ![Call[r].owner] = [k \in Keys |->
                  IF req[r].mem[k] # Absent THEN req[r].mem[k] ELSE @[k]]]
    /\ Become(r, [req[r] EXCEPT !.pc = "index"])
    /\ UNCHANGED <<index, started, restarts, disturbed>>

\* The index after a write: deleted documents leave, others (a patched one that
\* is deleted, too) enter.
Written(r) ==
    LET keys == {k \in Keys : req[r].mem[k] # Absent}
    IN  IF Call[r].kind \in {"erase", "delete"} THEN Unindexed(keys)
        ELSE Indexed([k \in keys |-> req[r].mem[k]], Call[r].owner)

\* The store has answered: the index follows, if it was built.
Index(r) ==
    /\ req[r].pc = "index"
    /\ index' = IF started THEN Written(r) ELSE index
    /\ Answer(r, "ok")
    /\ UNCHANGED <<docs, started, restarts, disturbed>>

-----------------------------------------------------------------------------
\* query

\* The documents of an owner that requests in flight are about to change.
Touched(owner) ==
    UNION {Call[s].keys : s \in {t \in InFlight : /\ Call[t].owner = owner
                                                 /\ Call[t].kind # "query"}}

\* index.search, then getMany.
Search(r, local, entries) ==
    \E found \in Hits(entries, Call[r].owner, Call[r].word) :
        Become(r, [local EXCEPT !.found = found, !.todo = {},
                                !.pc = IF found = {} THEN "ok" ELSE "read"])

\* What the iterator of indexAll will deliver: it works on a snapshot.
Live == {e \in Owners \X Keys \X Words :
            /\ docs[e[1]][e[2]] # Absent
            /\ ~docs[e[1]][e[2]].deleted /\ docs[e[1]][e[2]].word = e[3]}

\* Mutant of Query: the flag goes up before the index is built.
QueryStartsFirst(r) ==
    /\ Is(r, {"query"}, "begin")
    /\ LET local == [req[r] EXCEPT !.gone =
              {k \in Keys \ Touched(Call[r].owner) :
                  Stored(r)[k] # Absent /\ Stored(r)[k].deleted}]
       IN  IF started THEN Search(r, local, index)
           ELSE Become(r, [local EXCEPT !.pc = "indexing", !.todo = Live])
    /\ started' = TRUE
    /\ UNCHANGED <<docs, index, restarts, disturbed>>

Query(r) ==
    /\ Is(r, {"query"}, "begin")
    /\ LET local == [req[r] EXCEPT !.gone =
              {k \in Keys \ Touched(Call[r].owner) :
                  Stored(r)[k] # Absent /\ Stored(r)[k].deleted}]
       IN  IF started THEN Search(r, local, index)
           ELSE Become(r, [local EXCEPT !.pc = "indexing", !.todo = Live])
    /\ UNCHANGED <<docs, index, started, restarts, disturbed>>

\* indexAll: one document after the other, with an await before each.
IndexOne(r) ==
    /\ req[r].pc = "indexing"
    /\ \E e \in req[r].todo :
          /\ index' = [index EXCEPT ![e[2]] = [owner |-> e[1], word |-> e[3]]]
          /\ Become(r, [req[r] EXCEPT !.todo = @ \ {e}])
    /\ UNCHANGED <<docs, started, restarts, disturbed>>

IndexDone(r) ==
    /\ req[r].pc = "indexing" /\ req[r].todo = {}
    /\ started' = TRUE
    /\ Search(r, req[r], index)
    /\ UNCHANGED <<docs, index, restarts, disturbed>>

\* getMany of what was found: the mark is not looked at.
ReadFound(r) ==
    /\ req[r].pc = "read"
    /\ LET keys == {k \in req[r].found : Stored(r)[k] # Absent}
       IN  Become(r, [req[r] EXCEPT !.pc = "ok", !.found = {},
                                    !.got = {<<k, Stored(r)[k]>> : k \in keys}])
    /\ UNCHANGED <<docs, index, started, restarts, disturbed>>

-----------------------------------------------------------------------------
\* The process stops or dies and is started again: warmup resets the index.
Restart ==
    /\ restarts < MaxRestarts
    /\ restarts' = restarts + 1
    /\ index' = NoIndex
    /\ started' = FALSE
    /\ req' = [r \in Requests |-> IF r \in InFlight
                                  THEN [Rest EXCEPT !.pc = "lost"] ELSE req[r]]
    /\ disturbed' = {}
    /\ UNCHANGED docs

Finished == /\ \A r \in Requests : req[r].pc \in Answers
            /\ UNCHANGED vars

Serve(r) ==
    \/ Create(r) \/ Get(r) \/ Reget(r) \/ Put(r) \/ Index(r)
    \/ Query(r) \/ IndexOne(r) \/ IndexDone(r) \/ ReadFound(r)

Next == \/ \E r \in Requests : Begin(r) \/ Serve(r)
        \/ Restart
        \/ Finished

Spec == Init /\ [][Next]_vars
-----------------------------------------------------------------------------
\* Properties

\* The variables keep their types; an index entry always carries its tags.
TypeOK ==
    /\ docs \in [Owners -> [Keys -> Document \cup {Absent}]]
    /\ index \in [Keys -> Entry \cup {NoEntry}]
    /\ started \in BOOLEAN
    /\ req \in [Requests -> RequestState]
    /\ restarts \in 0..MaxRestarts
    /\ disturbed \subseteq Keys

\* A key that only one owner uses: the index cannot confuse it.
Private(owner, k) ==
    \A o \in Owners \ {owner} :
        /\ InitDocs[o][k] = Absent
        /\ \A r \in Requests : Call[r].owner = o => k \notin Call[r].keys

Answered(r) == Call[r].kind = "query" /\ req[r].pc # "ok" /\ req'[r].pc = "ok"

\* Whatever overlaps it, and before and after a restart at any point, a query
\* answers exactly the owner's documents that contain the word and are not
\* deleted, as they are stored, apart from the keys whose writes overlapped a
\* query or each other since the start.  The index is built late, by one query
\* or several at once, document by document, and kept up to date by five
\* operations after their writes; a restart heals what a race has spoiled.
QueryExact ==
    [][\A r \in Requests : Answered(r) =>
          LET own == docs[Call[r].owner]
              sure == {k \in Keys \ disturbed : Private(Call[r].owner, k)}
          IN  {g \in req'[r].got : g[1] \in sure} =
                 {<<k, own[k]>> : k \in {j \in sure :
                     own[j] # Absent /\ ~own[j].deleted /\ own[j].word = Call[r].word}}]_vars

\* AppProjects.test.ts:1067, "removes from the index when removing a new
\* document": a query that begins when a document has been deleted, with no
\* request for it under way, does not return it, marked as deleted.
RemovedNotFound ==
    \A r \in Requests : \A g \in req[r].got :
        ~(g[1] \in req[r].gone /\ g[2].deleted)
=============================================================================
