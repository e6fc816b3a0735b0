------------------------------- MODULE History -------------------------------
(***************************************************************************)
(* The HTTP history: src/src/persistence/level/History.ts.                 *)
(*                                                                         *)
(* A record is kept once, under its user and the time it was created, and  *)
(* once in the index of each thing it belongs to: a space, a project, a    *)
(* request of a project, an application.  The record and the indexes are   *)
(* five stores, written at once and in no order; listings read an index    *)
(* first and the records afterwards, page by page.                         *)
(*                                                                         *)
(* Keys are numbered in the order of the stores (by user, then by time).   *)
(* Who may read or write the files is a constant here: FileStore is about  *)
(* how that changes.  Events and plain reads are not kept: they change     *)
(* nothing.                                                                *)
(***************************************************************************)
EXTENDS Naturals, FiniteSets

CONSTANTS
    LastKey,            \* keys of records: 1..LastKey
    Users, UserOf,      \* UserOf[k]: the user in the key
    Targets, KindOf,    \* what records belong to; the index it is listed in
    Writers, Readers,   \* users and files: who passes checkAccess
    Filled,             \* files whose contents are stored and not removed
    Absent,
    Requests, Call,     \* Call[r]: what request r asks for
    Limit,              \* bound: records of a page
    MaxInFlight,        \* bound: requests being served at once
    MaxRestarts,        \* bound on crashes
    InitData            \* the records an earlier run left

VARIABLES
    data,        \* Keys -> record or Absent: history-data
    index,       \* pairs <<target, key>>: history-space, -project, -request, -app
    req,         \* Requests -> the local state of the handler
    restarts,    \* counts crashes
    disturbed,   \* history: keys written by requests that overlapped, died, or
                 \* found the key taken
    erased       \* history: counts the writes that took entries out of an index
                 \* while listings ran

vars == <<data, index, req, restarts, disturbed, erased>>

-----------------------------------------------------------------------------
\* Data

Keys == 1..LastKey
Indexes == {"space", "project", "request", "app"}
Stores == {"data"} \cup Indexes

HistoryRecord == [deleted : BOOLEAN, targets : SUBSET Targets]
Adds == {"add", "bulkAdd"}
Deletes == {"delete", "bulkDelete"}

\* keys: of the records added or deleted; targets: what the added records
\* belong to, or what is listed (nothing for the user's own history; a request
\* together with its project).  query: the listing is a search, for a term that
\* every record has.
CallType == [kind : Adds \cup Deletes \cup {"list"}, user : Users,
             keys : SUBSET Keys, targets : SUBSET Targets, query : BOOLEAN]

Busy == {"begin", "write", "page", "fetch"}
Answers == {"ok", "400", "403", "404", "500", "lost"}

\* mem: the records to write; todo: the stores not yet written.  last: the key
\* in the cursor (0: none); found: a page of an index; got: all that was listed.
\* due, before: history, what there was to list, and `erased`, at the beginning.
RequestState == [pc : {"idle"} \cup Busy \cup Answers,
                 mem : [Keys -> HistoryRecord \cup {Absent}],
                 todo : SUBSET Stores,
                 last : Keys \cup {0}, found : SUBSET Keys, got : SUBSET Keys,
                 due : SUBSET Keys, before : Nat]

ASSUME KeysTyped == LastKey \in Nat \ {0} /\ UserOf \in [Keys -> Users]
ASSUME KindOfTyped == KindOf \in [Targets -> Indexes]
ASSUME SentinelDistinct == Absent \notin HistoryRecord
ASSUME CallsTyped == Call \in [Requests -> CallType]
ASSUME BoundsTyped == MaxInFlight \in Nat \ {0} /\ Limit \in Nat \ {0} /\ MaxRestarts \in Nat
ASSUME InitDataTyped == InitData \in [Keys -> HistoryRecord \cup {Absent}]

InIndex(targets, kind) == {t \in targets : KindOf[t] = kind}

-----------------------------------------------------------------------------
\* Access

Passes(user, targets, who) == \A t \in targets : <<user, t>> \in who

\* validateHistoryObject: the project decides, without one the space.
MayAdd(call) ==
    LET project == InIndex(call.targets, "project")
        space == InIndex(call.targets, "space")
    IN  Passes(call.user, IF project # {} THEN project ELSE space, Writers)

Complete(targets) ==
    /\ InIndex(targets, "request") # {} => InIndex(targets, "project") # {}
    /\ \E kind \in {"project", "space", "app"} : InIndex(targets, kind) # {}

\* delete: the user's own; bulkDelete: the space decides, without one the
\* project, and of an application's records the user's own.
MayDelete(call, k) ==
    LET project == InIndex(data[k].targets, "project")
        space == InIndex(data[k].targets, "space")
    IN  IF call.kind = "delete" \/ space \cup project = {}
        THEN UserOf[k] = call.user
        ELSE Passes(call.user, IF space # {} THEN space ELSE project, Writers)

MayList(call) ==
    LET files == {t \in call.targets : KindOf[t] \in {"space", "project"}}
    IN  Passes(call.user, files, Readers)

\* A project that is listed for itself is opened, too, unless it is searched.
Opens(call) == (~call.query /\ InIndex(call.targets, "request") = {}) =>
                   InIndex(call.targets, "project") \subseteq Filled

-----------------------------------------------------------------------------
\* Requests

InFlight == {r \in Requests : req[r].pc \in Busy}
Writing(k) == \E r \in InFlight : k \in Call[r].keys
Listing == \E r \in InFlight : Call[r].kind = "list"

Rest == [pc |-> "idle", mem |-> [k \in Keys |-> Absent], todo |-> {},
         last |-> 0, found |-> {}, got |-> {}, due |-> {}, before |-> 0]

Is(r, kinds, pc) == Call[r].kind \in kinds /\ req[r].pc = pc
Become(r, local) == req' = [req EXCEPT ![r] = local]
Answer(r, code) == Become(r, [Rest EXCEPT !.pc = code])

Init ==
    /\ data = InitData
    /\ index = {e \in Targets \X Keys : /\ InitData[e[2]] # Absent
                                        /\ ~InitData[e[2]].deleted
                                        /\ e[1] \in InitData[e[2]].targets}
    /\ req = [r \in Requests |-> Rest]
    /\ restarts = 0
    /\ disturbed = {} /\ erased = 0

Live(k) == data[k] # Absent /\ ~data[k].deleted

\* A listing goes through the records when it is a search, and for the user's own
\* history; otherwise it goes through an index.
Scans(call) == call.query \/ call.targets = {}

\* What it names: a request, whatever project it is in.
Subject(call) == IF InIndex(call.targets, "request") # {}
                 THEN InIndex(call.targets, "request") ELSE call.targets

\* A file is searched through the records of all users, an application or
\* nothing through those of the user.
Scanned(call) ==
    {k \in Keys : /\ data[k] # Absent
                  /\ InIndex(call.targets, "app") = call.targets => UserOf[k] = call.user}

\* filterType, and what is deleted does not count.
Matches(call, k) ==
    Live(k) /\ (call.targets # {} => Subject(call) \cap data[k].targets # {})

\* Of an application's index the user sees the own part.
Entries(call) ==
    {k \in Keys : \E t \in Subject(call) : /\ <<t, k>> \in index
                                           /\ KindOf[t] = "app" => UserOf[k] = call.user}

Listable(call) == IF Scans(call) THEN {k \in Scanned(call) : Matches(call, k)}
                  ELSE {k \in Entries(call) : Live(k)}

\* A handler is called.
Begin(r) ==
    /\ req[r].pc = "idle"
    /\ Cardinality(InFlight) < MaxInFlight
    /\ Become(r, IF Call[r].kind = "list"
                 THEN [Rest EXCEPT !.pc = "begin", !.due = Listable(Call[r]),
                                   !.before = erased]
                 ELSE [Rest EXCEPT !.pc = "begin"])
    /\ disturbed' = disturbed \cup
          UNION {Call[r].keys \cap Call[s].keys : s \in InFlight}
    /\ UNCHANGED <<data, index, restarts, erased>>

\* Mutant of Concerned: the targets instead of their indexes.
ConcernedTargets(records, keys) ==
    {"data"} \cup UNION {records[k].targets : k \in keys}

\* Which stores a write of records concerns.
Concerned(records, keys) ==
    {"data"} \cup UNION {{KindOf[t] : t \in records[k].targets} : k \in keys}

\* add, bulkAdd: the checks, and what is to be written.
Validate(r) ==
    /\ Is(r, Adds, "begin")
    /\ LET records == [k \in Keys |-> IF k \in Call[r].keys
                          THEN [deleted |-> FALSE, targets |-> Call[r].targets]
                          ELSE Absent]
       IN  IF ~Complete(Call[r].targets)
           THEN Answer(r, "400") /\ UNCHANGED disturbed
           ELSE IF ~MayAdd(Call[r])
           THEN Answer(r, "403") /\ UNCHANGED disturbed
           ELSE /\ Become(r, [Rest EXCEPT !.pc = "write", !.mem = records,
                                 !.todo = Concerned(records, Call[r].keys)])
                /\ disturbed' = disturbed \cup {k \in Call[r].keys : data[k] # Absent}
    /\ UNCHANGED <<data, index, restarts, erased>>

\* delete, bulkDelete: the records are read, whether they are deleted or not.
\* delete refuses a record that is missing; bulkDelete skips it and refuses them
\* all when it refuses one.
Read(r) ==
    /\ Is(r, Deletes, "begin")
    /\ LET keys == {k \in Call[r].keys : data[k] # Absent}
           records == [k \in Keys |-> IF k \in keys
                          THEN [data[k] EXCEPT !.deleted = TRUE] ELSE Absent]
       IN  IF Call[r].kind = "delete" /\ keys = {}
           THEN Answer(r, "404")
           ELSE IF \E k \in keys : ~MayDelete(Call[r], k)
           THEN Answer(r, "403")
           ELSE Become(r, [Rest EXCEPT !.pc = "write", !.mem = records,
                                       !.todo = Concerned(records, keys)])
    /\ UNCHANGED <<data, index, restarts, disturbed, erased>>

\* The entries of one index that a request puts or removes.
EntriesOf(r, store) ==
    {e \in Targets \X Keys : /\ KindOf[e[1]] = store
                             /\ req[r].mem[e[2]] # Absent
                             /\ e[1] \in req[r].mem[e[2]].targets}

\* delete awaits the record and then removes the entries; otherwise the stores
\* are written in any order.
Ready(r, store) ==
    /\ store \in req[r].todo
    /\ Call[r].kind = "delete" => (store = "data" \/ "data" \notin req[r].todo)

\* Mutant of Written: a record that is deleted goes away.
WrittenRemoving(r) ==
    [k \in Keys |-> IF req[r].mem[k] = Absent THEN data[k]
                    ELSE IF req[r].mem[k].deleted THEN Absent ELSE req[r].mem[k]]

Written(r) ==
    [k \in Keys |-> IF req[r].mem[k] = Absent THEN data[k] ELSE req[r].mem[k]]

\* Mutant of Indexed: the entries of requests stay.
IndexedForgetful(r, store) ==
    IF Call[r].kind \in Adds THEN index \cup EntriesOf(r, store)
    ELSE index \ {e \in EntriesOf(r, store) : KindOf[e[1]] # "request"}

Indexed(r, store) ==
    IF Call[r].kind \in Adds THEN index \cup EntriesOf(r, store)
    ELSE index \ EntriesOf(r, store)

\* One store answers; the handler answers after the last.
WriteOne(r, store) ==
    /\ req[r].pc = "write"
    /\ Ready(r, store)
    /\ data' = IF store = "data" THEN Written(r) ELSE data
    /\ index' = IF store = "data" THEN index ELSE Indexed(r, store)
    /\ erased' = IF ~Listing THEN 0
                 ELSE IF index \subseteq index' THEN erased ELSE erased + 1
    /\ IF req[r].todo = {store} THEN Answer(r, "ok")
       ELSE Become(r, [req[r] EXCEPT !.todo = @ \ {store}])
    /\ UNCHANGED <<restarts, disturbed>>

Write(r) == \E store \in Stores : WriteOne(r, store)

-----------------------------------------------------------------------------
\* Listings.  The client asks for one page after the other, each with the cursor
\* of the one before, until a page is empty.

StartList(r) ==
    /\ Is(r, {"list"}, "begin")
    /\ IF ~MayList(Call[r]) THEN Answer(r, "403")
       ELSE IF ~Opens(Call[r]) THEN Answer(r, "404")
       ELSE Become(r, [req[r] EXCEPT !.pc = "page"])
    /\ UNCHANGED <<data, index, restarts, disturbed, erased>>

\* Mutant of After: next steps over two entries.
AfterTwo(keys, last) ==
    IF last = 0 THEN keys
    ELSE LET below == {k \in keys : k <= last}
         IN  {k \in below : Cardinality({j \in below : j > k}) > 1}

\* The iterator goes from the newest to the oldest.  seek moves to the cursor's
\* key, or to the next one when it is gone, and next steps over what is there.
After(keys, last) ==
    IF last = 0 THEN keys
    ELSE LET below == {k \in keys : k <= last}
         IN  {k \in below : \E j \in below : j > k}

Newest(keys) == {k \in keys : Cardinality({j \in keys : j > k}) < Limit}
Oldest(keys) == CHOOSE k \in keys : \A j \in keys : k <= j

\* listAllUserHistory, queryHistory: the records that match, and only they, fill
\* the page.
ScanPage(r) ==
    /\ Is(r, {"list"}, "page") /\ Scans(Call[r])
    /\ LET page == Newest({k \in After(Scanned(Call[r]), req[r].last) : Matches(Call[r], k)})
       IN  IF page = {} THEN Answer(r, "ok")
           ELSE Become(r, [req[r] EXCEPT !.last = Oldest(page), !.got = @ \cup page])
    /\ UNCHANGED <<data, index, restarts, disturbed, erased>>

\* listHistoryType: a page of the index ...
IndexPage(r) ==
    /\ Is(r, {"list"}, "page") /\ ~Scans(Call[r])
    /\ LET page == Newest(After(Entries(Call[r]), req[r].last))
       IN  IF page = {} THEN Answer(r, "ok")
           ELSE Become(r, [req[r] EXCEPT !.pc = "fetch", !.last = Oldest(page),
                                         !.found = page])
    /\ UNCHANGED <<data, index, restarts, disturbed, erased>>

\* ... and its records; one that is not there cannot be decoded.
Fetch(r) ==
    /\ Is(r, {"list"}, "fetch")
    /\ IF \E k \in req[r].found : data[k] = Absent
       THEN Answer(r, "500")
       ELSE Become(r, [req[r] EXCEPT !.pc = "page", !.found = {},
                                     !.got = @ \cup req[r].found])
    /\ UNCHANGED <<data, index, restarts, disturbed, erased>>

-----------------------------------------------------------------------------
\* The process dies and is started again.
Crash ==
    /\ restarts < MaxRestarts
    /\ InFlight # {}
    /\ restarts' = restarts + 1
    /\ disturbed' = disturbed \cup UNION {Call[r].keys : r \in InFlight}
    /\ req' = [r \in Requests |-> IF r \in InFlight
                                  THEN [Rest EXCEPT !.pc = "lost"] ELSE req[r]]
    /\ UNCHANGED <<data, index, erased>>

Finished == /\ \A r \in Requests : req[r].pc \in Answers
            /\ UNCHANGED vars

Serve(r) ==
    \/ Validate(r) \/ Read(r) \/ Write(r)
    \/ StartList(r) \/ ScanPage(r) \/ IndexPage(r) \/ Fetch(r)

Next == \/ \E r \in Requests : Begin(r) \/ Serve(r)
        \/ Crash
        \/ Finished

Spec == Init /\ [][Next]_vars
-----------------------------------------------------------------------------
\* Properties

\* The variables keep their types.
TypeOK ==
    /\ data \in [Keys -> HistoryRecord \cup {Absent}]
    /\ index \subseteq Targets \X Keys
    /\ req \in [Requests -> RequestState]
    /\ restarts \in 0..MaxRestarts
    /\ disturbed \subseteq Keys /\ erased \in Nat

\* Five stores, written in any order by requests that overlap: once its writers
\* have answered, a record that is not deleted is in the index of everything it
\* belongs to and in no other, and a deleted one is in none, unless writers of
\* the same key overlapped or died, or a new record took the key of another.
IndexExact ==
    \A k \in Keys \ disturbed :
        ~Writing(k) => {t \in Targets : <<t, k>> \in index} =
                          IF Live(k) THEN data[k].targets ELSE {}

\* A listing of an index breaks off only when it comes across a record whose
\* add has not finished, or was cut short by a crash; deletes, which leave the
\* record, never make it fail.
ListFailsForUnfinishedAdds ==
    [][\A r \in Requests : (req[r].pc = "fetch" /\ req'[r].pc = "500") =>
          \E k \in req[r].found : k \in disturbed \/ Writing(k)]_vars

\* Whatever is added and deleted between its pages, a listing that comes to its
\* end has shown the records that were there all the time: the user's own
\* history and a search all of them; an index, whose cursor may point at an entry
\* that is gone, all but one for each write that removed entries meanwhile.
NothingSkipped ==
    [][\A r \in Requests : (req[r].pc = "page" /\ req'[r].pc = "ok") =>
          LET missed == ((req[r].due \cap Listable(Call[r])) \ disturbed) \ req[r].got
          IN  Cardinality(missed) <=
                 IF Scans(Call[r]) THEN 0
                 ELSE erased - req[r].before]_vars
=============================================================================
