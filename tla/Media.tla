-------------------------------- MODULE Media --------------------------------
(***************************************************************************)
(* The contents of files: src/src/persistence/level/Media.ts and           *)
(* Revisions.ts, driven by the `alt=media` half of FilesHttpRoute.ts, and  *)
(* of the metadata of a file what that half reads and writes.              *)
(*                                                                         *)
(* A request is a process; a step runs from the answer of one LevelDB call *)
(* to the next call and includes the effect of the call that was awaited.  *)
(* Who may do what is a constant: FileStore is about how it changes.       *)
(***************************************************************************)
EXTENDS Naturals, Sequences, FiniteSets

CONSTANTS
    Files,            \* keys of files
    Spaces,           \* those that are spaces: contents can be put and not read
    People,
    Access,           \* Access[p][f]: the role checkAccess finds
    Fields, Values, Absent,   \* contents map fields to values
    NoContents, NoRevision,
    Requests, Call,   \* Call[r]: what request r asks for
    Scripts,          \* bound: the sets of requests made together
    MaxTime,          \* bound: milliseconds that pass
    MaxInFlight       \* bound: requests being served at once

VARIABLES
    removed,   \* Files -> BOOLEAN: the deleted mark of the file's metadata
    bin,       \* files with a record in the bin
    contents,  \* Files -> contents or NoContents: the media store
    revisions, \* Files -> milliseconds -> revision or NoRevision
    clock,
    req,       \* Requests -> the local state of the handler
    origin,    \* history: Files -> the value that was uploaded last
    disturbed  \* history: files whose writers overlapped or died, whose
               \* contents were uploaded again or that lost a revision

vars == <<removed, bin, contents, revisions, clock, req, origin, disturbed>>
stores == <<removed, bin, contents, revisions>>
histories == <<origin, disturbed>>

-----------------------------------------------------------------------------
\* Data

Roles == {"none", "reader", "writer", "owner"}
Sufficient(minimum) == CASE minimum = "reader" -> {"reader", "writer", "owner"}
                         [] minimum = "writer" -> {"writer", "owner"}
                         [] minimum = "owner" -> {"owner"}

Value == [Fields -> Values \cup {Absent}]
Contents == [value : Value, deleted : BOOLEAN]

Times == 1..MaxTime
\* What undoes a patch, and who made it.
Revision == [field : Fields, old : Values, by : People]

\* upload: PUT ?alt=media, `typed` when the value has a `kind`; patch: PATCH
\* ?alt=media, replaces one field; delete: DELETE; get: GET ?alt=media; list:
\* Revisions.list, page after page.
Kinds == {"upload", "patch", "delete", "get", "list"}
CallType == [kind : Kinds, by : People, file : Files,
             value : Value, typed : BOOLEAN, field : Fields, new : Values]

Busy == {"file", "check", "free", "read", "put", "revision", "recheck",
         "putfile", "authorise", "get", "bin", "mark", "rebin", "page"}
Answers == {"ok", "denied", "missing", "taken", "failed", "lost"}

\* got: the handler's copy of the contents; time: of its revision, or the
\* cursor of a listing; changed: it has written the contents; listed: what a
\* listing has returned; before: the revisions there were when it began.
RequestState == [pc : {"unmade", "idle"} \cup Busy \cup Answers,
                 got : Contents \cup {NoContents},
                 time : 0..(MaxTime + 1), changed : BOOLEAN,
                 listed : Seq(Times), before : SUBSET Times]

ASSUME CallsTyped == /\ Call \in [Requests -> CallType]
                     /\ Access \in [People -> [Files -> Roles]]
                     /\ Spaces \subseteq Files
                     /\ Scripts \subseteq SUBSET Requests
ASSUME SentinelsDistinct == /\ Absent \notin Values /\ NoContents \notin Contents
                            /\ NoRevision \notin Revision
ASSUME BoundsTyped == MaxTime \in Nat \ {0} /\ MaxInFlight \in Nat \ {0}

InFlight == {r \in Requests : req[r].pc \in Busy}
Rest == [pc |-> "idle", got |-> NoContents, time |-> 0, changed |-> FALSE,
         listed |-> <<>>, before |-> {}]

At(r, pc) == req[r].pc = pc
Goto(r, pc) == req' = [req EXCEPT ![r].pc = pc]
Answer(r, code) == req' = [req EXCEPT ![r].pc = code, ![r].got = NoContents]
File(r) == Call[r].file
May(r, minimum) == /\ ~removed[File(r)]
                   /\ Access[Call[r].by][File(r)] \in Sufficient(minimum)

Init ==
    /\ removed = [f \in Files |-> FALSE]
    /\ bin = {}
    /\ contents = [f \in Files |-> NoContents]
    /\ revisions = [f \in Files |-> [t \in Times |-> NoRevision]]
    /\ clock = 1
    /\ \E script \in Scripts :
          req = [r \in Requests |-> IF r \in script THEN Rest
                                    ELSE [Rest EXCEPT !.pc = "unmade"]]
    /\ origin = [f \in Files |-> NoContents]
    /\ disturbed = {}

-----------------------------------------------------------------------------
\* Arriving, and the look at the file that comes first

Writers(f) == {r \in InFlight : File(r) = f /\ Call[r].kind \in {"upload", "patch", "delete"}}
Writes(r) == Call[r].kind \in {"upload", "patch", "delete"}
Revised(f) == {t \in Times : revisions[f][t] # NoRevision}

Begin(r) ==
    /\ At(r, "idle") /\ Cardinality(InFlight) < MaxInFlight
    /\ req' = [req EXCEPT ![r] =
          CASE Call[r].kind = "upload" -> [@ EXCEPT !.pc = "check"]
            [] Call[r].kind = "list" -> [@ EXCEPT !.pc = "check", !.time = MaxTime + 1,
                                                  !.before = Revised(File(r))]
            [] OTHER -> [@ EXCEPT !.pc = "file"]]
    /\ disturbed' = IF Writes(r) /\ Writers(File(r)) # {}
                    THEN disturbed \cup {File(r)} ELSE disturbed
    /\ UNCHANGED <<stores, clock, origin>>

\* fileReadHandler, patchFileContents and fileDeleteHandler read the file first.
\* The reader's check and the read that follows it are one step here: a mark put
\* between the two would be in the copy that PutFile writes.
ReadFile(r) ==
    /\ At(r, "file")
    /\ IF ~May(r, "reader") \/ (File(r) \in Spaces /\ Call[r].kind # "delete")
       THEN Answer(r, "denied")
       ELSE Goto(r, IF Call[r].kind = "delete" THEN "authorise" ELSE "read")
    /\ UNCHANGED <<stores, clock, histories>>

\* createFileMedia and Revisions.list begin with checkAccess.
CheckAccess(r) ==
    /\ At(r, "check")
    /\ IF ~May(r, IF Call[r].kind = "list" THEN "reader" ELSE "writer")
       THEN Answer(r, "denied")
       ELSE IF Call[r].kind = "list" THEN Goto(r, "page")
       ELSE IF Call[r].typed THEN Goto(r, "free")
       ELSE req' = [req EXCEPT ![r].pc = "put",
                               ![r].got = [value |-> Call[r].value, deleted |-> FALSE]]
    /\ UNCHANGED <<stores, clock, histories>>

\* Mutant of CheckFree: allowOverwrite is forgotten.
CheckNothing(r) ==
    /\ At(r, "free")
    /\ req' = [req EXCEPT ![r].pc = "put",
                          ![r].got = [value |-> Call[r].value, deleted |-> FALSE]]
    /\ UNCHANGED <<stores, clock, histories>>

\* Media.set without allowOverwrite: contents that are there, marked or not,
\* stay.
CheckFree(r) ==
    /\ At(r, "free")
    /\ IF contents[File(r)] # NoContents THEN Answer(r, "taken")
       ELSE req' = [req EXCEPT ![r].pc = "put",
                               ![r].got = [value |-> Call[r].value, deleted |-> FALSE]]
    /\ UNCHANGED <<stores, clock, histories>>

-----------------------------------------------------------------------------
\* Reading the contents

\* Patch.apply on the copy in memory.
Applied(c, field, new) == [c EXCEPT !.value = [@ EXCEPT ![field] = new]]

\* Media.read, and the read of Media.delete, which looks at no mark.
ReadContents(r) ==
    /\ At(r, "read")
    /\ LET c == contents[File(r)]
           kind == Call[r].kind
       IN  IF c = NoContents \/ (kind # "delete" /\ c.deleted)
           THEN Answer(r, "missing")
           ELSE CASE kind = "get" -> Answer(r, "ok")
                  [] kind = "delete" ->
                       req' = [req EXCEPT ![r].pc = "rebin",
                                          ![r].got = [c EXCEPT !.deleted = TRUE]]
                  [] kind = "patch" /\ c.value[Call[r].field] = Absent -> Answer(r, "failed")
                  [] kind = "patch" /\ c.value[Call[r].field] # Absent ->
                       \* `got` keeps the old value until the put: see Undo
                       req' = [req EXCEPT ![r].pc = "put", ![r].got = c]
    /\ UNCHANGED <<stores, clock, histories>>

-----------------------------------------------------------------------------
\* Writing the contents

\* The whole record from the handler's copy, whatever the store holds now.
\* After the put of a patch Revisions.add reads the clock.
PutContents(r) ==
    /\ At(r, "put")
    /\ contents' = [contents EXCEPT ![File(r)] =
          IF Call[r].kind = "patch"
          THEN Applied(req[r].got, Call[r].field, Call[r].new) ELSE req[r].got]
    /\ IF Call[r].kind = "patch"
       THEN req' = [req EXCEPT ![r].pc = "revision", ![r].time = clock,
                               ![r].changed = TRUE]
       ELSE Answer(r, "ok")
    /\ origin' = IF Call[r].kind = "upload"
                 THEN [origin EXCEPT ![File(r)] = Call[r].value] ELSE origin
    /\ disturbed' = IF /\ Call[r].kind = "upload" /\ ~Call[r].typed
                       /\ contents[File(r)] # NoContents
                    THEN disturbed \cup {File(r)} ELSE disturbed
    /\ UNCHANGED <<removed, bin, revisions, clock>>

\* Mutant of Undo: the patch itself is kept, not what reverts it.
Redo(r) == [field |-> Call[r].field, old |-> Call[r].new, by |-> Call[r].by]

\* Mutant of Undo: the revision keeps the whole contents that were.
UndoWhole(r) == [field |-> Call[r].field, old |-> req[r].got, by |-> Call[r].by]

Undo(r) == [field |-> Call[r].field, old |-> req[r].got.value[Call[r].field],
            by |-> Call[r].by]

\* Mutant of PutRevision: only those who may write leave one.
PutWritersRevision(r) ==
    /\ At(r, "revision")
    /\ revisions' = IF May(r, "writer")
                    THEN [revisions EXCEPT ![File(r)][req[r].time] = Undo(r)]
                    ELSE revisions
    /\ disturbed' = IF revisions[File(r)][req[r].time] # NoRevision
                    THEN disturbed \cup {File(r)} ELSE disturbed
    /\ Goto(r, "recheck")
    /\ UNCHANGED <<removed, bin, contents, clock, origin>>

\* The millisecond is the key: another patch's revision is replaced.
\* The events that follow, of the revision and of the patch, change nothing.
PutRevision(r) ==
    /\ At(r, "revision")
    /\ revisions' = [revisions EXCEPT ![File(r)][req[r].time] = Undo(r)]
    /\ disturbed' = IF revisions[File(r)][req[r].time] # NoRevision
                    THEN disturbed \cup {File(r)} ELSE disturbed
    /\ Goto(r, "recheck")
    /\ UNCHANGED <<removed, bin, contents, clock, origin>>

\* patchFileContents ends with Files.update, and only that asks for a writer ...
Recheck(r) ==
    /\ At(r, "recheck")
    /\ IF May(r, "writer") THEN Goto(r, "putfile") ELSE Answer(r, "denied")
    /\ UNCHANGED <<stores, clock, histories>>

\* ... and writes the copy of the metadata read at the start, without a mark.
PutFile(r) ==
    /\ At(r, "putfile")
    /\ removed' = [removed EXCEPT ![File(r)] = FALSE]
    /\ Answer(r, "ok")
    /\ UNCHANGED <<bin, contents, revisions, clock, histories>>

-----------------------------------------------------------------------------
\* Deleting: the file first, then its contents

\* Files.delete asks for a writer ...
Authorise(r) ==
    /\ At(r, "authorise")
    /\ IF May(r, "writer") THEN Goto(r, "get") ELSE Answer(r, "denied")
    /\ UNCHANGED <<stores, clock, histories>>

\* ... reads the file, which is there though it may have been marked meanwhile,
\* and refuses whom the check found not to be its owner.
GetFile(r) ==
    /\ At(r, "get")
    /\ IF Access[Call[r].by][File(r)] = "owner" THEN Goto(r, "bin") ELSE Answer(r, "denied")
    /\ UNCHANGED <<stores, clock, histories>>

\* Mutant of AddToBin: the contents go before the file does.
AddToBinAndGo(r) ==
    /\ req[r].pc \in {"bin", "rebin"}
    /\ bin' = bin \cup {File(r)}
    /\ contents' = IF contents[File(r)] = NoContents THEN contents
                   ELSE [contents EXCEPT ![File(r)].deleted = TRUE]
    /\ Goto(r, IF At(r, "bin") THEN "mark" ELSE "put")
    /\ UNCHANGED <<removed, revisions, clock, histories>>

\* Files.delete and Media.delete use the same key.
AddToBin(r) ==
    /\ req[r].pc \in {"bin", "rebin"}
    /\ bin' = bin \cup {File(r)}
    /\ Goto(r, IF At(r, "bin") THEN "mark" ELSE "put")
    /\ UNCHANGED <<removed, contents, revisions, clock, histories>>

Mark(r) ==
    /\ At(r, "mark")
    /\ removed' = [removed EXCEPT ![File(r)] = TRUE]
    /\ IF File(r) \in Spaces THEN Answer(r, "ok") ELSE Goto(r, "read")
    /\ UNCHANGED <<bin, contents, revisions, clock, histories>>

-----------------------------------------------------------------------------
\* Listing revisions

\* Mutant of Older: one too many skipped.
OlderThanNext(f, cursor) ==
    {t \in Revised(f) : \/ cursor > MaxTime
                        \/ \E u \in Revised(f) : t < u /\ u < cursor}

\* `seek` to the cursor and the `next` that drops it, in a reverse iterator.
Older(f, cursor) == {t \in Revised(f) : t < cursor}

\* Mutant of Page: a page comes without a cursor, and the next is the first again.
PageWithoutCursor(r) ==
    /\ At(r, "page")
    /\ IF Revised(File(r)) = {} THEN Answer(r, "ok")
       ELSE req' = [req EXCEPT ![r].pc = "check", ![r].listed = <<>>]
    /\ UNCHANGED <<stores, clock, histories>>

\* One page, of one revision; the client goes on until a page is empty.
Page(r) ==
    /\ At(r, "page")
    /\ LET left == Older(File(r), req[r].time)
       IN  IF left = {} THEN Answer(r, "ok")
           ELSE \E newest \in left :
               /\ \A t \in left : t <= newest
               /\ req' = [req EXCEPT ![r].pc = "check", ![r].time = newest,
                                     ![r].listed = Append(@, newest)]
    /\ UNCHANGED <<stores, clock, histories>>

-----------------------------------------------------------------------------
\* Time and failure

Tick == /\ clock < MaxTime
        /\ clock' = clock + 1
        /\ UNCHANGED <<stores, req, histories>>

\* The process dies.  A patch that has written the contents and not yet its
\* revision leaves a change without one.
Crash ==
    /\ InFlight # {}
    /\ req' = [r \in Requests |-> IF r \in InFlight
                                  THEN [req[r] EXCEPT !.pc = "lost", !.got = NoContents]
                                  ELSE req[r]]
    /\ disturbed' = disturbed \cup {File(r) : r \in {q \in InFlight : At(q, "revision")}}
    /\ UNCHANGED <<stores, clock, origin>>

Quiet == /\ \A r \in Requests : req[r].pc \in Answers \cup {"unmade"}
         /\ UNCHANGED vars

Serve(r) ==
    \/ ReadFile(r) \/ CheckAccess(r) \/ CheckFree(r) \/ ReadContents(r)
    \/ PutContents(r) \/ PutRevision(r) \/ Recheck(r) \/ PutFile(r)
    \/ Authorise(r) \/ GetFile(r) \/ AddToBin(r) \/ Mark(r) \/ Page(r)

Next == \/ \E r \in Requests : Begin(r) \/ Serve(r)
        \/ Tick \/ Crash \/ Quiet

Spec == Init /\ [][Next]_vars

\* The event loop does not rest while LevelDB has answered some request; which it
\* takes first is open, and arrivals, time and crashes are nobody's duty.
FairSpec == Spec /\ WF_vars(\E r \in Requests : Serve(r))
-----------------------------------------------------------------------------
\* Properties

\* The variables keep their types.
TypeOK ==
    /\ removed \in [Files -> BOOLEAN]
    /\ bin \subseteq Files
    /\ contents \in [Files -> Contents \cup {NoContents}]
    /\ revisions \in [Files -> [Times -> Revision \cup {NoRevision}]]
    /\ clock \in Times
    /\ req \in [Requests -> RequestState]
    /\ origin \in [Files -> Value \cup {NoContents}]
    /\ disturbed \subseteq Files

\* The value of f after its revisions of time t and later were undone, the
\* newest first.
UndoneFrom(f) ==
    LET undone[t \in 1..(MaxTime + 1)] ==
            IF t > MaxTime THEN contents[f].value
            ELSE IF revisions[f][t] = NoRevision THEN undone[t + 1]
            ELSE [undone[t + 1] EXCEPT ![revisions[f][t].field] = revisions[f][t].old]
    IN  undone

\* docs/patch-operation.md: the result of a patch, which is what the revision
\* keeps, can be used to reverse the change.  Undoing all revisions gives back
\* what was uploaded, whoever patched (a patch that Files.update refused has
\* changed the contents and can be undone like any other), whatever was read
\* and listed meanwhile, and across a delete that died half way.
UndoRestores ==
    \A f \in Files \ disturbed :
        (contents[f] # NoContents
         /\ ~\E r \in InFlight : File(r) = f /\ At(r, "revision"))
            => UndoneFrom(f)[1] = origin[f]

\* However patches overlap: one that has changed the contents has left a
\* revision in its own name by the time it is answered, refused or not; only
\* another patch of the very same millisecond can have taken its place
\* (Revisions.ts:29).
EveryChangeHasRevision ==
    \A r \in Requests :
        (req[r].changed /\ req[r].pc \in Answers \ {"lost"}) =>
            LET kept == revisions[File(r)][req[r].time]
            IN  /\ kept # NoRevision
                /\ \/ kept.by = Call[r].by /\ kept.field = Call[r].field
                   \/ \E q \in Requests \ {r} :
                         /\ req[q].changed /\ File(q) = File(r)
                         /\ req[q].time = req[r].time

\* Pages of revisions are requests of their own, and patches go on between
\* them: the listing still has every revision that was there when it began,
\* once (Revisions.ts:78-84, the cursor's seek and next).
ListingComplete ==
    \A r \in Requests :
        (Call[r].kind = "list" /\ At(r, "ok")) =>
            \A t \in req[r].before :
                Cardinality({i \in DOMAIN req[r].listed : req[r].listed[i] = t}) = 1

\* FilesHttpRoute.ts:281-297 deletes in two halves, and may die between them:
\* contents are never gone from a file that is still there, what is gone is in
\* the bin, and an answered DELETE has removed both (of a space the file only:
\* contents that were put there stay).
RemovedTogether ==
    /\ \A f \in Files \ disturbed :
           (contents[f] # NoContents /\ contents[f].deleted) => removed[f] /\ f \in bin
    /\ \A r \in Requests :
           (Call[r].kind = "delete" /\ At(r, "ok") /\ File(r) \notin disturbed \cup Spaces) =>
               /\ removed[File(r)]
               /\ contents[File(r)] # NoContents /\ contents[File(r)].deleted

\* FilesHttpRoute.ts:177, "all files that have `kind` property are only allowed
\* to be patched after create": once there are contents, only a patch, an
\* upload without a kind or the mark of a DELETE changes them, unless two
\* uploads overlapped (Media.ts:20).
ReplacedByPatchOnly ==
    [][\A f \in Files \ disturbed' :
          (contents[f] # NoContents /\ contents'[f] # contents[f]) =>
              \E r \in InFlight :
                  /\ File(r) = f /\ req'[r] # req[r]
                  /\ Call[r].kind = "patch"
                     \/ contents'[f] = [contents[f] EXCEPT !.deleted = TRUE]]_vars

\* Every request is answered, a listing too, though patches add revisions
\* while it runs: again and again nobody waits.
EveryRequestAnswered == []<>(InFlight = {})
=============================================================================
