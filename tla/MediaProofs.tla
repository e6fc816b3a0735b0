----------------------------- MODULE MediaProofs -----------------------------
(***************************************************************************)
(* Theorems about Media, for any files, people, rights, contents and       *)
(* requests: the types, that no change goes unrecorded, that contents are  *)
(* replaced by patches only, that a file and its contents go together,     *)
(* that a listing of revisions misses none, and that undoing them gives    *)
(* back what was uploaded.                                                 *)
(***************************************************************************)
EXTENDS Media, FiniteSetTheorems, WellFoundedInduction, TLAPS

\* Which requests get where, and what they carry there.
Fits(r, x) ==
    /\ x.pc = "check" => Call[r].kind \in {"upload", "list"}
    /\ x.pc = "file" => Call[r].kind \in {"patch", "delete", "get"}
    /\ x.pc = "read" => Call[r].kind \in {"patch", "delete", "get"}
    /\ x.pc = "free" => Call[r].kind = "upload" /\ Call[r].typed
    /\ x.pc = "put" => Call[r].kind \in {"upload", "patch", "delete"} /\ x.got \in Contents
    /\ x.pc \in {"authorise", "get", "bin", "mark", "rebin"} => Call[r].kind = "delete"
    /\ x.pc \in {"revision", "recheck", "putfile"} => Call[r].kind = "patch" /\ x.changed
    /\ x.pc = "page" => Call[r].kind = "list"
    /\ x.pc = "rebin" => x.got \in Contents
    /\ (x.pc \in {"put", "revision"} /\ Call[r].kind = "patch") =>
          x.got \in Contents /\ x.got.value[Call[r].field] \in Values
    /\ (x.pc = "put" /\ Call[r].kind = "upload") =>
          x.got = [value |-> Call[r].value, deleted |-> FALSE]
    /\ x.changed => /\ Call[r].kind = "patch" /\ x.time \in Times
                    /\ x.pc \in {"revision", "recheck", "putfile"} \cup Answers
    /\ Call[r].kind = "list" => ~x.changed

OnTrack == \A r \in Requests : Fits(r, req[r])

Typed == TypeOK /\ OnTrack

-----------------------------------------------------------------------------
\* Types

LEMMA CallTypes ==
    \A r \in Requests :
        /\ Call[r].kind \in Kinds /\ Call[r].by \in People /\ File(r) \in Files
        /\ Call[r].value \in Value /\ Call[r].typed \in BOOLEAN
        /\ Call[r].field \in Fields /\ Call[r].new \in Values
  BY CallsTyped DEF CallType, File

LEMMA RestTyped == Rest \in RequestState
<1>1. 0 \in 0..(MaxTime + 1) /\ <<>> \in Seq(Times)
  BY BoundsTyped
<1>. QED  BY <1>1 DEF Rest, RequestState

LEMMA ContentsTypes ==
    /\ \A v \in Value, d \in BOOLEAN : [value |-> v, deleted |-> d] \in Contents
    /\ \A c \in Contents :
          /\ c.value \in Value /\ c.deleted \in BOOLEAN /\ c # NoContents
          /\ [c EXCEPT !.deleted = TRUE] \in Contents
          /\ [c EXCEPT !.deleted = TRUE].deleted = TRUE
          /\ [c EXCEPT !.deleted = TRUE].value = c.value
  BY SentinelsDistinct DEF Contents

LEMMA AppliedTyped ==
    \A c \in Contents, f \in Fields, v \in Values :
        Applied(c, f, v) \in Contents /\ Applied(c, f, v).deleted = c.deleted
<1>. SUFFICES ASSUME NEW c \in Contents, NEW f \in Fields, NEW v \in Values
              PROVE  Applied(c, f, v) \in Contents /\ Applied(c, f, v).deleted = c.deleted
  OBVIOUS
<1>1. [c.value EXCEPT ![f] = v] \in Value
  BY ContentsTypes DEF Value
<1>2. Applied(c, f, v) = [c EXCEPT !.value = [c.value EXCEPT ![f] = v]]
  BY DEF Applied
<1>. QED  BY <1>1, <1>2 DEF Contents

LEMMA InitTyped == Init => Typed
<1>. SUFFICES ASSUME Init PROVE Typed
  OBVIOUS
<1>1. /\ Rest.pc = "idle" /\ ~Rest.changed
      /\ [Rest EXCEPT !.pc = "unmade"] \in RequestState
      /\ [Rest EXCEPT !.pc = "unmade"].pc = "unmade" /\ ~[Rest EXCEPT !.pc = "unmade"].changed
  BY RestTyped DEF Rest, RequestState
<1>2. req \in [Requests -> RequestState]
  BY <1>1, RestTyped DEF Init
<1>3. \A r \in Requests : req[r].pc \in {"idle", "unmade"} /\ ~req[r].changed
  BY <1>1 DEF Init
<1>4. OnTrack
  BY <1>3 DEF OnTrack, Fits
<1>5. clock \in Times
  BY BoundsTyped DEF Init, Times
<1>. QED  BY <1>2, <1>4, <1>5 DEF Init, Typed, TypeOK

\* A step takes one request on, to a typed state it fits.
Becomes(r, x) == req' = [req EXCEPT ![r] = x] /\ x \in RequestState /\ Fits(r, x)

LEMMA BecomesTyped ==
    ASSUME Typed, NEW r \in Requests, NEW x, Becomes(r, x)
    PROVE  req' \in [Requests -> RequestState] /\ OnTrack'
  BY DEF Typed, TypeOK, OnTrack, Becomes

LEMMA AnswerBecomes ==
    ASSUME Typed, NEW r \in Requests, NEW code \in Answers, Answer(r, code)
    PROVE  /\ Becomes(r, [req[r] EXCEPT !.pc = code, !.got = NoContents])
           /\ req'[r].pc = code /\ req'[r].changed = req[r].changed /\ req'[r].time = req[r].time
<1>. DEFINE x == [req[r] EXCEPT !.pc = code, !.got = NoContents]
<1>1. req \in [Requests -> RequestState] /\ req[r] \in RequestState /\ Fits(r, req[r])
  BY DEF Typed, TypeOK, OnTrack
<1>2. /\ x \in RequestState /\ x.pc = code /\ x.changed = req[r].changed
      /\ x.time = req[r].time
  BY <1>1 DEF RequestState
<1>3. Fits(r, x)
  BY <1>1, <1>2 DEF Fits, Answers
<1>4. req' = [req EXCEPT ![r] = x]
  BY DEF Answer
<1>. QED  BY <1>1, <1>2, <1>3, <1>4 DEF Becomes

LEMMA GotoBecomes ==
    ASSUME Typed, NEW r \in Requests, NEW pc \in Busy, Goto(r, pc),
           Fits(r, [req[r] EXCEPT !.pc = pc])
    PROVE  Becomes(r, [req[r] EXCEPT !.pc = pc])
<1>1. req[r] \in RequestState
  BY DEF Typed, TypeOK
<1>2. [req[r] EXCEPT !.pc = pc] \in RequestState
  BY <1>1 DEF RequestState
<1>3. req' = [req EXCEPT ![r] = [req[r] EXCEPT !.pc = pc]]
  BY DEF Goto
<1>. QED  BY <1>2, <1>3 DEF Becomes

\* A request goes on to a point where it carries nothing new.
LEMMA GoesOn ==
    ASSUME Typed, NEW r \in Requests, NEW pc \in Busy, Goto(r, pc), req[r].pc \in Busy,
           \/ pc \in {"free", "page"} /\ req[r].pc = "check"
                /\ (pc = "free" => Call[r].kind = "upload" /\ Call[r].typed)
                /\ (pc = "page" => Call[r].kind = "list")
           \/ pc \in {"authorise", "read"} /\ req[r].pc = "file"
                /\ (pc = "authorise" => Call[r].kind = "delete")
           \/ pc = "recheck" /\ req[r].pc = "revision"
           \/ pc = "putfile" /\ req[r].pc = "recheck"
           \/ pc = "get" /\ req[r].pc = "authorise"
           \/ pc = "bin" /\ req[r].pc = "get"
           \/ pc = "mark" /\ req[r].pc = "bin"
           \/ pc = "put" /\ req[r].pc = "rebin"
           \/ pc = "read" /\ req[r].pc = "mark"
    PROVE  /\ Becomes(r, [req[r] EXCEPT !.pc = pc])
           /\ req'[r].pc = pc /\ req'[r].got = req[r].got
           /\ req'[r].changed = req[r].changed /\ req'[r].time = req[r].time
<1>. DEFINE x == [req[r] EXCEPT !.pc = pc]
<1>1. req \in [Requests -> RequestState] /\ req[r] \in RequestState /\ Fits(r, req[r])
  BY DEF Typed, TypeOK, OnTrack
<1>2. /\ x.pc = pc /\ x.got = req[r].got /\ x.changed = req[r].changed /\ x.time = req[r].time
  BY <1>1 DEF RequestState
<1>3. Fits(r, x)
  <2>. HIDE DEF x
  <2>. QED  BY <1>1, <1>2 DEF Fits, Busy, Answers
<1>4. Becomes(r, x)
  BY <1>3, GotoBecomes
<1>. QED  BY <1>1, <1>2, <1>4 DEF Becomes

LEMMA BeginTyped == ASSUME Typed, NEW r \in Requests, Begin(r) PROVE Typed'
<1>1. /\ req \in [Requests -> RequestState] /\ req[r] \in RequestState /\ Fits(r, req[r])
      /\ req[r].pc = "idle"
  BY DEF Typed, TypeOK, OnTrack, Begin, At
<1>2. Revised(File(r)) \subseteq Times /\ MaxTime + 1 \in 0..(MaxTime + 1)
  BY BoundsTyped DEF Revised
<1>3. \E x : Becomes(r, x)
  <2>1. CASE Call[r].kind = "upload"
    <3>. DEFINE x == [req[r] EXCEPT !.pc = "check"]
    <3>1. req' = [req EXCEPT ![r] = x]
      BY <2>1 DEF Begin
    <3>2. x \in RequestState /\ x.pc = "check" /\ x.changed = req[r].changed
      BY <1>1 DEF RequestState, Busy
    <3>3. Fits(r, x)
      <4>. HIDE DEF x
      <4>. QED  BY <1>1, <2>1, <3>2 DEF Fits, Answers
    <3>. QED  BY <3>1, <3>2, <3>3 DEF Becomes
  <2>2. CASE Call[r].kind = "list"
    <3>. DEFINE x == [req[r] EXCEPT !.pc = "check", !.time = MaxTime + 1, !.before = Revised(File(r))]
    <3>1. req' = [req EXCEPT ![r] = x]
      BY <2>2 DEF Begin
    <3>2. x \in RequestState /\ x.pc = "check" /\ x.changed = req[r].changed
      BY <1>1, <1>2 DEF RequestState, Busy
    <3>3. Fits(r, x)
      <4>. HIDE DEF x
      <4>. QED  BY <1>1, <2>2, <3>2 DEF Fits, Answers
    <3>. QED  BY <3>1, <3>2, <3>3 DEF Becomes
  <2>3. CASE Call[r].kind \notin {"upload", "list"}
    <3>. DEFINE x == [req[r] EXCEPT !.pc = "file"]
    <3>1. req' = [req EXCEPT ![r] = x]
      BY <2>3 DEF Begin
    <3>2. x \in RequestState /\ x.pc = "file" /\ x.changed = req[r].changed
      BY <1>1 DEF RequestState, Busy
    <3>3. Fits(r, x)
      <4>. HIDE DEF x
      <4>. QED  BY <1>1, <2>3, <3>2, CallTypes DEF Fits, Answers, Kinds
    <3>. QED  BY <3>1, <3>2, <3>3 DEF Becomes
  <2>. QED  BY <2>1, <2>2, <2>3
<1>4. disturbed' \subseteq Files
  BY CallTypes DEF Begin, Typed, TypeOK
<1>. QED  BY <1>3, <1>4, BecomesTyped DEF Begin, stores, Typed, TypeOK

\* Reading contents ends the request, or goes on with a copy of them.
LEMMA ReadOutcomes ==
    ASSUME Typed, NEW r \in Requests, ReadContents(r)
    PROVE  \/ \E code \in Answers \ {"ok"} : Answer(r, code)
           \/ Call[r].kind = "get" /\ Answer(r, "ok")
           \/ /\ Call[r].kind = "delete" /\ contents[File(r)] # NoContents
              /\ req' = [req EXCEPT ![r] = [req[r] EXCEPT !.pc = "rebin",
                                               !.got = [contents[File(r)] EXCEPT !.deleted = TRUE]]]
           \/ /\ Call[r].kind = "patch" /\ contents[File(r)] # NoContents
              /\ contents[File(r)].value[Call[r].field] # Absent
              /\ req' = [req EXCEPT ![r] = [req[r] EXCEPT !.pc = "put", !.got = contents[File(r)]]]
<1>1. /\ req \in [Requests -> RequestState] /\ Call[r].kind \in {"patch", "delete", "get"}
  BY DEF Typed, TypeOK, OnTrack, Fits, ReadContents, At
<1>2. CASE contents[File(r)] = NoContents \/ (Call[r].kind # "delete" /\ contents[File(r)].deleted)
  <2>1. Answer(r, "missing")
    BY <1>2 DEF ReadContents
  <2>. QED  BY <2>1 DEF Answers
<1>3. CASE ~(contents[File(r)] = NoContents \/ (Call[r].kind # "delete" /\ contents[File(r)].deleted))
  <2>1. CASE Call[r].kind = "get"
    BY <1>3, <2>1 DEF ReadContents
  <2>2. CASE Call[r].kind = "delete"
    BY <1>1, <1>3, <2>2 DEF ReadContents
  <2>3. CASE Call[r].kind = "patch" /\ contents[File(r)].value[Call[r].field] = Absent
    <3>1. Answer(r, "failed")
      BY <1>3, <2>3 DEF ReadContents
    <3>. QED  BY <3>1 DEF Answers
  <2>4. CASE Call[r].kind = "patch" /\ contents[File(r)].value[Call[r].field] # Absent
    BY <1>1, <1>3, <2>4 DEF ReadContents
  <2>. QED  BY <1>1, <2>1, <2>2, <2>3, <2>4
<1>. QED  BY <1>2, <1>3

\* Steps that look and write nothing but the request's own state.
LEMMA LookBecomes ==
    ASSUME Typed, NEW r \in Requests,
           ReadFile(r) \/ CheckAccess(r) \/ CheckFree(r) \/ ReadContents(r) \/ Recheck(r)
           \/ Authorise(r) \/ GetFile(r) \/ Page(r)
    PROVE  \E x : Becomes(r, x)
<1>1. req \in [Requests -> RequestState] /\ req[r] \in RequestState /\ Fits(r, req[r])
  BY DEF Typed, TypeOK, OnTrack
<1>2. CASE \E code \in Answers : Answer(r, code)
  BY <1>2, AnswerBecomes
<1>3. ASSUME NEW c \in Contents, NEW pc \in {"put", "rebin"}, ~req[r].changed,
             req' = [req EXCEPT ![r] = [req[r] EXCEPT !.pc = pc, !.got = c]],
             \/ pc = "put" /\ Call[r].kind = "upload" /\ c = [value |-> Call[r].value, deleted |-> FALSE]
             \/ pc = "rebin" /\ Call[r].kind = "delete"
             \/ pc = "put" /\ Call[r].kind = "patch" /\ c.value[Call[r].field] \in Values
      PROVE  \E x : Becomes(r, x)
  <2>. DEFINE x == [req[r] EXCEPT !.pc = pc, !.got = c]
  <2>1. x \in RequestState /\ x.pc = pc /\ x.got = c /\ x.changed = req[r].changed
    BY <1>1 DEF RequestState, Busy
  <2>2. Fits(r, x)
    <3>. HIDE DEF x
    <3>. QED  BY <1>3, <2>1 DEF Fits, Answers
  <2>. QED  BY <1>3, <2>1, <2>2 DEF Becomes
<1>4. CASE ReadFile(r)
  <2>1. CASE Goto(r, "authorise") /\ Call[r].kind = "delete"
    BY <1>4, <2>1, GoesOn DEF ReadFile, At, Busy
  <2>2. CASE Goto(r, "read")
    BY <1>4, <2>2, GoesOn DEF ReadFile, At, Busy
  <2>. QED  BY <1>2, <1>4, <2>1, <2>2 DEF ReadFile, Answers
<1>5. CASE CheckAccess(r)
  <2>1. req[r].pc = "check" /\ ~req[r].changed
    BY <1>1, <1>5 DEF CheckAccess, At, Fits, Answers
  <2>2. CASE Goto(r, "page") /\ Call[r].kind = "list"
    BY <2>1, <2>2, GoesOn DEF Busy
  <2>3. CASE Goto(r, "free") /\ Call[r].kind # "list" /\ Call[r].typed
    BY <1>1, <2>1, <2>3, GoesOn DEF Busy, Fits
  <2>4. CASE /\ req' = [req EXCEPT ![r].pc = "put",
                               ![r].got = [value |-> Call[r].value, deleted |-> FALSE]]
             /\ Call[r].kind # "list"
    <3>1. Call[r].kind = "upload"
      BY <1>1, <2>1, <2>4 DEF Fits
    <3>2. req' = [req EXCEPT ![r] = [req[r] EXCEPT !.pc = "put",
                                        !.got = [value |-> Call[r].value, deleted |-> FALSE]]]
      BY <1>1, <2>4
    <3>3. [value |-> Call[r].value, deleted |-> FALSE] \in Contents
      BY CallTypes, ContentsTypes
    <3>. QED  BY <1>3, <2>1, <3>1, <3>2, <3>3
  <2>. QED  BY <1>2, <1>5, <2>2, <2>3, <2>4 DEF CheckAccess, Answers
<1>6. CASE CheckFree(r)
  <2>1. CASE req' = [req EXCEPT ![r].pc = "put",
                               ![r].got = [value |-> Call[r].value, deleted |-> FALSE]]
    <3>1. Call[r].kind = "upload" /\ ~req[r].changed
      BY <1>1, <1>6 DEF CheckFree, At, Fits, Answers
    <3>2. req' = [req EXCEPT ![r] = [req[r] EXCEPT !.pc = "put",
                                        !.got = [value |-> Call[r].value, deleted |-> FALSE]]]
      BY <1>1, <2>1
    <3>3. [value |-> Call[r].value, deleted |-> FALSE] \in Contents
      BY CallTypes, ContentsTypes
    <3>. QED  BY <1>3, <3>1, <3>2, <3>3
  <2>. QED  BY <1>2, <1>6, <2>1 DEF CheckFree, Answers
<1>7. CASE ReadContents(r) /\ ~\E code \in Answers : Answer(r, code)
  <2>. DEFINE c == contents[File(r)]
  <2>1. c \in Contents /\ ~req[r].changed /\ Call[r].kind \in {"patch", "delete", "get"}
    BY <1>1, <1>7, CallTypes DEF ReadContents, At, Fits, Answers, Typed, TypeOK
  <2>2. CASE Call[r].kind = "delete"
    <3>1. req' = [req EXCEPT ![r] = [req[r] EXCEPT !.pc = "rebin", !.got = [c EXCEPT !.deleted = TRUE]]]
      BY <1>7, <2>2, ReadOutcomes DEF Answers
    <3>2. [c EXCEPT !.deleted = TRUE] \in Contents
      BY <2>1, ContentsTypes
    <3>. QED  BY <1>3, <2>1, <2>2, <3>1, <3>2
  <2>3. CASE Call[r].kind = "patch"
    <3>1. /\ req' = [req EXCEPT ![r] = [req[r] EXCEPT !.pc = "put", !.got = c]]
          /\ c.value[Call[r].field] # Absent
      BY <1>7, <2>3, ReadOutcomes DEF Answers
    <3>2. c.value[Call[r].field] \in Values
      <4>1. c.value \in Value /\ Call[r].field \in Fields
        BY <2>1, CallTypes, ContentsTypes
      <4>. HIDE DEF c
      <4>. QED  BY <3>1, <4>1 DEF Value
    <3>. QED  BY <1>3, <2>1, <2>3, <3>1, <3>2
  <2>4. Call[r].kind # "get"
    BY <1>7, ReadOutcomes DEF Answers
  <2>. QED  BY <2>1, <2>2, <2>3, <2>4
<1>8. CASE Recheck(r)
  <2>1. CASE Goto(r, "putfile")
    BY <1>8, <2>1, GoesOn DEF Recheck, At, Busy
  <2>. QED  BY <1>2, <1>8, <2>1 DEF Recheck, Answers
<1>9. CASE Authorise(r) \/ GetFile(r)
  <2>1. CASE Authorise(r) /\ Goto(r, "get")
    BY <2>1, GoesOn DEF Authorise, At, Busy
  <2>2. CASE GetFile(r) /\ Goto(r, "bin")
    BY <2>2, GoesOn DEF GetFile, At, Busy
  <2>. QED  BY <1>2, <1>9, <2>1, <2>2 DEF Authorise, GetFile, Answers
<1>10. CASE Page(r) /\ ~\E code \in Answers : Answer(r, code)
  <2>1. PICK newest \in Older(File(r), req[r].time) :
            req' = [req EXCEPT ![r].pc = "check", ![r].time = newest,
                               ![r].listed = Append(@, newest)]
    BY <1>10 DEF Page, Answers
  <2>. DEFINE x == [req[r] EXCEPT !.pc = "check", !.time = newest,
                                  !.listed = Append(req[r].listed, newest)]
  <2>2. newest \in Times /\ newest \in 0..(MaxTime + 1)
    BY BoundsTyped DEF Older, Revised, Times
  <2>3. Append(req[r].listed, newest) \in Seq(Times)
    BY <1>1, <2>2 DEF RequestState
  <2>4. x \in RequestState /\ x.pc = "check" /\ x.changed = req[r].changed
    BY <1>1, <2>2, <2>3 DEF RequestState, Busy
  <2>5. Call[r].kind = "list" /\ ~req[r].changed
    BY <1>1, <1>10 DEF Page, At, Fits
  <2>6. Fits(r, x)
    <3>. HIDE DEF x
    <3>. QED  BY <2>4, <2>5 DEF Fits, Answers
  <2>7. req' = [req EXCEPT ![r] = x]
    BY <1>1, <2>1
  <2>. QED  BY <2>4, <2>6, <2>7 DEF Becomes
<1>. QED  BY <1>2, <1>4, <1>5, <1>6, <1>7, <1>8, <1>9, <1>10

\* Steps that write a store.
LEMMA PutContentsTyped ==
    ASSUME Typed, NEW r \in Requests, PutContents(r)
    PROVE  /\ Typed' /\ \E x : Becomes(r, x)
           /\ Call[r].kind = "patch" =>
                 contents' = [contents EXCEPT ![File(r)] =
                                Applied(req[r].got, Call[r].field, Call[r].new)]
           /\ Call[r].kind # "patch" =>
                 contents' = [contents EXCEPT ![File(r)] = req[r].got]
           /\ contents' \in [Files -> Contents \cup {NoContents}]
<1>1. /\ req \in [Requests -> RequestState] /\ req[r] \in RequestState /\ Fits(r, req[r])
      /\ req[r].pc = "put"
  BY DEF Typed, TypeOK, OnTrack, PutContents, At
<1>2. /\ Call[r].kind \in {"upload", "patch", "delete"} /\ req[r].got \in Contents
      /\ ~req[r].changed
  BY <1>1 DEF Fits, Answers
<1>3. \E x : Becomes(r, x)
  <2>1. CASE Call[r].kind = "patch"
    <3>. DEFINE x == [req[r] EXCEPT !.pc = "revision", !.time = clock, !.changed = TRUE]
    <3>1. req' = [req EXCEPT ![r] = x]
      BY <1>1, <2>1 DEF PutContents
    <3>2. clock \in Times /\ clock \in 0..(MaxTime + 1)
      BY BoundsTyped DEF Typed, TypeOK, Times
    <3>3. /\ x \in RequestState /\ x.pc = "revision" /\ x.changed /\ x.time = clock
          /\ x.got = req[r].got
      BY <1>1, <3>2 DEF RequestState, Busy
    <3>4. Fits(r, x)
      <4>. HIDE DEF x
      <4>. QED  BY <1>1, <2>1, <3>2, <3>3 DEF Fits
    <3>. QED  BY <3>1, <3>3, <3>4 DEF Becomes
  <2>2. CASE Call[r].kind # "patch"
    BY <2>2, AnswerBecomes DEF PutContents, Answers
  <2>. QED  BY <2>1, <2>2
<1>4. /\ Call[r].kind = "patch" =>
           contents' = [contents EXCEPT ![File(r)] =
                          Applied(req[r].got, Call[r].field, Call[r].new)]
      /\ Call[r].kind # "patch" => contents' = [contents EXCEPT ![File(r)] = req[r].got]
  BY DEF PutContents
<1>5. contents' \in [Files -> Contents \cup {NoContents}]
  BY <1>2, <1>4, CallTypes, AppliedTyped DEF Typed, TypeOK
<1>6. origin' \in [Files -> Value \cup {NoContents}] /\ disturbed' \subseteq Files
  BY CallTypes DEF PutContents, Typed, TypeOK
<1>7. UNCHANGED <<removed, bin, revisions, clock>>
  BY DEF PutContents
<1>8. req' \in [Requests -> RequestState] /\ OnTrack'
  BY <1>3, BecomesTyped
<1>. QED  BY <1>3, <1>4, <1>5, <1>6, <1>7, <1>8 DEF Typed, TypeOK

LEMMA UndoTyped ==
    ASSUME Typed, NEW r \in Requests, req[r].pc = "revision"
    PROVE  /\ Undo(r) \in Revision /\ Undo(r) # NoRevision
           /\ Undo(r).by = Call[r].by /\ Undo(r).field = Call[r].field
           /\ req[r].time \in Times /\ File(r) \in Files
<1>1. Fits(r, req[r])
  BY DEF Typed, OnTrack
<1>2. /\ req[r].got.value[Call[r].field] \in Values /\ req[r].time \in Times
  BY <1>1 DEF Fits
<1>3. Undo(r) \in Revision
  BY <1>2, CallTypes DEF Undo, Revision
<1>. QED  BY <1>2, <1>3, CallTypes, SentinelsDistinct DEF Undo

LEMMA PutRevisionTyped ==
    ASSUME Typed, NEW r \in Requests, PutRevision(r)
    PROVE  Typed' /\ \E x : Becomes(r, x)
<1>1. req[r].pc = "revision"
  BY DEF PutRevision, At
<1>2. \E x : Becomes(r, x)
  BY <1>1, GoesOn DEF PutRevision, Busy
<1>3. revisions' \in [Files -> [Times -> Revision \cup {NoRevision}]]
  BY <1>1, UndoTyped DEF PutRevision, Typed, TypeOK
<1>4. disturbed' \subseteq Files
  BY CallTypes DEF PutRevision, Typed, TypeOK
<1>. QED  BY <1>2, <1>3, <1>4, BecomesTyped DEF PutRevision, Typed, TypeOK

LEMMA PutFileTyped ==
    ASSUME Typed, NEW r \in Requests, PutFile(r)
    PROVE  Typed' /\ \E x : Becomes(r, x)
<1>1. \E x : Becomes(r, x)
  BY AnswerBecomes DEF PutFile, Answers
<1>2. removed' \in [Files -> BOOLEAN]
  BY DEF PutFile, Typed, TypeOK
<1>. QED  BY <1>1, <1>2, BecomesTyped DEF PutFile, histories, Typed, TypeOK

LEMMA AddToBinTyped ==
    ASSUME Typed, NEW r \in Requests, AddToBin(r)
    PROVE  Typed' /\ \E x : Becomes(r, x)
<1>1. \E x : Becomes(r, x)
  <2>1. CASE At(r, "bin")
    BY <2>1, GoesOn DEF AddToBin, At, Busy
  <2>2. CASE At(r, "rebin")
    BY <2>2, GoesOn DEF AddToBin, At, Busy
  <2>. QED  BY <2>1, <2>2 DEF AddToBin, At
<1>2. bin' \subseteq Files
  BY CallTypes DEF AddToBin, Typed, TypeOK
<1>. QED  BY <1>1, <1>2, BecomesTyped DEF AddToBin, histories, Typed, TypeOK

LEMMA MarkTyped ==
    ASSUME Typed, NEW r \in Requests, Mark(r)
    PROVE  Typed' /\ \E x : Becomes(r, x)
<1>1. \E x : Becomes(r, x)
  <2>1. CASE File(r) \in Spaces
    BY <2>1, AnswerBecomes DEF Mark, Answers
  <2>2. CASE File(r) \notin Spaces
    BY <2>2, GoesOn DEF Mark, At, Busy
  <2>. QED  BY <2>1, <2>2
<1>2. removed' \in [Files -> BOOLEAN]
  BY DEF Mark, Typed, TypeOK
<1>. QED  BY <1>1, <1>2, BecomesTyped DEF Mark, histories, Typed, TypeOK

LEMMA CrashTyped ==
    ASSUME Typed, Crash
    PROVE  /\ Typed'
           /\ \A q \in Requests :
                 \/ req[q].pc \in Busy /\ req'[q].pc = "lost" /\ req'[q].changed = req[q].changed
                      /\ req'[q].time = req[q].time
                 \/ req[q].pc \notin Busy /\ req'[q] = req[q]
<1>1. \A q \in Requests :
         /\ req[q] \in RequestState /\ Fits(q, req[q])
         /\ req'[q] = IF req[q].pc \in Busy THEN [req[q] EXCEPT !.pc = "lost", !.got = NoContents]
                      ELSE req[q]
  BY DEF Typed, TypeOK, OnTrack, Crash, InFlight
<1>2. ASSUME NEW q \in Requests, req[q].pc \in Busy
      PROVE  /\ req'[q] \in RequestState /\ Fits(q, req'[q]) /\ req'[q].pc = "lost"
             /\ req'[q].changed = req[q].changed /\ req'[q].time = req[q].time
  <2>1. req'[q] = [req[q] EXCEPT !.pc = "lost", !.got = NoContents]
    BY <1>1, <1>2
  <2>2. req[q] \in RequestState /\ Fits(q, req[q])
    BY <1>1
  <2>3. /\ req'[q] \in RequestState /\ req'[q].pc = "lost"
        /\ req'[q].changed = req[q].changed /\ req'[q].time = req[q].time
    BY <2>1, <2>2 DEF RequestState, Answers
  <2>4. Fits(q, req'[q])
    BY <2>2, <2>3 DEF Fits, Answers
  <2>. QED  BY <2>3, <2>4
<1>3. \A q \in Requests : req'[q] \in RequestState /\ Fits(q, req'[q])
  BY <1>1, <1>2
<1>4. req' \in [Requests -> RequestState]
  BY <1>3 DEF Crash
<1>5. disturbed' \subseteq Files
  BY CallTypes DEF Crash, InFlight, Typed, TypeOK
<1>6. OnTrack'
  BY <1>3 DEF OnTrack
<1>7. Typed'
  BY <1>4, <1>5, <1>6 DEF Crash, stores, Typed, TypeOK
<1>. QED  BY <1>1, <1>2, <1>7

LEMMA StepTyped == Typed /\ [Next]_vars => Typed'
<1>. SUFFICES ASSUME Typed, [Next]_vars PROVE Typed'
  OBVIOUS
<1>1. ASSUME NEW r \in Requests, Begin(r) PROVE Typed'
  BY <1>1, BeginTyped
<1>2. ASSUME NEW r \in Requests,
             ReadFile(r) \/ CheckAccess(r) \/ CheckFree(r) \/ ReadContents(r) \/ Recheck(r)
             \/ Authorise(r) \/ GetFile(r) \/ Page(r)
      PROVE  Typed'
  <2>1. req' \in [Requests -> RequestState] /\ OnTrack'
    BY <1>2, LookBecomes, BecomesTyped
  <2>2. UNCHANGED <<stores, clock, histories>>
    BY <1>2 DEF ReadFile, CheckAccess, CheckFree, ReadContents, Recheck, Authorise, GetFile, Page
  <2>. QED  BY <2>1, <2>2 DEF stores, histories, Typed, TypeOK
<1>3. ASSUME NEW r \in Requests,
             PutContents(r) \/ PutRevision(r) \/ PutFile(r) \/ AddToBin(r) \/ Mark(r)
      PROVE  Typed'
  BY <1>3, PutContentsTyped, PutRevisionTyped, PutFileTyped, AddToBinTyped, MarkTyped
<1>4. CASE Tick
  <2>1. clock' \in Times
    BY <1>4, BoundsTyped DEF Tick, Typed, TypeOK, Times
  <2>. QED  BY <1>4, <2>1 DEF Tick, stores, histories, Typed, TypeOK, OnTrack, Fits
<1>5. CASE Crash
  BY <1>5, CrashTyped
<1>6. CASE UNCHANGED vars
  BY <1>6 DEF vars, Typed, TypeOK, OnTrack, Fits
<1>. QED  BY <1>1, <1>2, <1>3, <1>4, <1>5, <1>6 DEF Next, Serve, Quiet

\* Files, marks, contents and revisions keep their types, and a request that
\* writes contents carries contents: nothing else reaches the media store,
\* whatever overlaps or dies.
THEOREM TypeCorrect == Spec => []TypeOK
<1>1. Typed => TypeOK
  BY DEF Typed
<1>. QED  BY <1>1, InitTyped, StepTyped, PTL DEF Spec

-----------------------------------------------------------------------------
\* Changes are recorded

\* What is kept was made by a patch that changed the contents in that
\* millisecond, and one that is past its revision finds one there.
Recorded ==
    /\ \A f \in Files, t \in Times :
          revisions[f][t] # NoRevision =>
              \E q \in Requests :
                  /\ req[q].changed /\ File(q) = f /\ req[q].time = t
                  /\ revisions[f][t].by = Call[q].by /\ revisions[f][t].field = Call[q].field
    /\ \A r \in Requests :
          (req[r].changed /\ req[r].pc \notin {"revision", "lost"}) =>
              revisions[File(r)][req[r].time] # NoRevision

\* A step of a request is of one that is being served, and of no other.
LEMMA OneServed ==
    ASSUME Typed, NEW r \in Requests, Begin(r) \/ Serve(r)
    PROVE  /\ \A q \in Requests \ {r} : req'[q] = req[q]
           /\ disturbed \subseteq disturbed'
           /\ req[r].pc \in {"idle"} \cup Busy
           /\ Serve(r) => req[r].pc \in Busy
<1>1. req \in [Requests -> RequestState]
  BY DEF Typed, TypeOK
<1>2. CASE Begin(r)
  BY <1>1, <1>2 DEF Begin, At, Serve, ReadFile, CheckAccess, CheckFree, ReadContents, PutContents,
     PutRevision, Recheck, PutFile, Authorise, GetFile, AddToBin, Mark, Page, Busy
<1>3. CASE ReadFile(r) \/ CheckAccess(r) \/ CheckFree(r) \/ ReadContents(r) \/ Recheck(r)
           \/ Authorise(r) \/ GetFile(r) \/ Page(r)
  <2>1. \A q \in Requests \ {r} : req'[q] = req[q]
    BY <1>1, <1>3, LookBecomes DEF Becomes
  <2>2. disturbed' = disturbed /\ req[r].pc \in Busy
    BY <1>3 DEF ReadFile, CheckAccess, CheckFree, ReadContents, Recheck, Authorise, GetFile,
     Page,   histories, At, Busy
  <2>. QED  BY <2>1, <2>2
<1>4. CASE PutContents(r) \/ PutRevision(r) \/ PutFile(r) \/ AddToBin(r) \/ Mark(r)
  <2>1. \A q \in Requests \ {r} : req'[q] = req[q]
    BY <1>1, <1>4, PutContentsTyped, PutRevisionTyped, PutFileTyped, AddToBinTyped, MarkTyped
       DEF Becomes
  <2>2. disturbed \subseteq disturbed' /\ req[r].pc \in Busy
    BY <1>4 DEF PutContents, PutRevision, PutFile, AddToBin, Mark, histories, At, Busy
  <2>. QED  BY <2>1, <2>2
<1>. QED  BY <1>2, <1>3, <1>4 DEF Serve

\* Once changed always changed, in that millisecond; and nobody gets past
\* "revision" but by putting one.
LEMMA ChangedStays ==
    ASSUME Typed, NEW r \in Requests, Begin(r) \/ Serve(r)
    PROVE  /\ req[r].changed => req'[r].changed /\ req'[r].time = req[r].time
           /\ (req'[r].changed /\ req'[r].pc \notin {"revision", "lost"}) =>
                 req[r].changed /\ (req[r].pc \notin {"revision", "lost"} \/ PutRevision(r))
<1>1. /\ req \in [Requests -> RequestState] /\ req[r] \in RequestState /\ Fits(r, req[r])
  BY DEF Typed, TypeOK, OnTrack
<1>2. CASE Begin(r)
  <2>1. req[r].pc = "idle" /\ ~req[r].changed
    BY <1>1, <1>2 DEF Begin, At, Fits, Answers
  <2>2. req'[r].changed = req[r].changed
    BY <1>1, <1>2 DEF Begin, RequestState
  <2>. QED  BY <2>1, <2>2
<1>3. CASE ReadFile(r) \/ CheckAccess(r) \/ CheckFree(r) \/ ReadContents(r) \/ Authorise(r)
           \/ GetFile(r) \/ AddToBin(r) \/ Mark(r) \/ Page(r)
  <2>1. ~req[r].changed
    BY <1>1, <1>3 DEF ReadFile, CheckAccess, CheckFree, ReadContents, Authorise, GetFile, AddToBin,
       Mark, Page, At, Fits, Answers
  <2>2. req'[r].changed = req[r].changed
    <3>1. CASE ReadFile(r) \/ CheckAccess(r) \/ CheckFree(r)
      BY <1>1, <3>1 DEF ReadFile, CheckAccess, CheckFree, Answer, Goto, RequestState
    <3>2. CASE ReadContents(r)
      <4>1. CASE \E code \in Answers : Answer(r, code)
        BY <4>1, AnswerBecomes
      <4>2. CASE req' = [req EXCEPT ![r] = [req[r] EXCEPT !.pc = "rebin",
                                               !.got = [contents[File(r)] EXCEPT !.deleted = TRUE]]]
        BY <1>1, <4>2 DEF RequestState
      <4>3. CASE req' = [req EXCEPT ![r] = [req[r] EXCEPT !.pc = "put", !.got = contents[File(r)]]]
        BY <1>1, <4>3 DEF RequestState
      <4>. QED  BY <3>2, <4>1, <4>2, <4>3, ReadOutcomes DEF Answers
    <3>3. CASE Authorise(r) \/ GetFile(r) \/ AddToBin(r) \/ Mark(r)
      BY <1>1, <3>3 DEF Authorise, GetFile, AddToBin, Mark, Answer, Goto, RequestState
    <3>4. CASE Page(r)
      BY <1>1, <3>4 DEF Page, Answer, RequestState
    <3>. QED  BY <1>3, <3>1, <3>2, <3>3, <3>4
  <2>. QED  BY <2>1, <2>2
<1>4. CASE PutContents(r)
  <2>1. req[r].pc = "put" /\ ~req[r].changed
    BY <1>1, <1>4 DEF PutContents, At, Fits, Answers
  <2>2. Call[r].kind = "patch" => req'[r].pc = "revision"
    BY <1>1, <1>4 DEF PutContents, RequestState
  <2>3. Call[r].kind # "patch" => req'[r].changed = req[r].changed
    BY <1>1, <1>4 DEF PutContents, Answer, RequestState
  <2>. QED  BY <2>1, <2>2, <2>3
<1>5. CASE PutRevision(r) \/ Recheck(r) \/ PutFile(r)
  <2>1. req'[r].changed = req[r].changed /\ req'[r].time = req[r].time
    BY <1>1, <1>5 DEF PutRevision, Recheck, PutFile, Answer, Goto, RequestState
  <2>2. PutRevision(r) \/ req[r].pc \in {"recheck", "putfile"}
    BY <1>5 DEF Recheck, PutFile, At
  <2>. QED  BY <2>1, <2>2
<1>. QED  BY <1>2, <1>3, <1>4, <1>5 DEF Serve

LEMMA RecordedStep == Typed /\ Recorded /\ [Next]_vars => Recorded'
<1>. SUFFICES ASSUME Typed, Recorded, [Next]_vars PROVE Recorded'
  OBVIOUS
<1>1. ASSUME revisions' = revisions,
             \A q \in Requests :
                /\ req[q].changed => req'[q].changed /\ req'[q].time = req[q].time
                /\ (req'[q].changed /\ req'[q].pc \notin {"revision", "lost"}) =>
                      req[q].changed /\ req[q].pc \notin {"revision", "lost"}
      PROVE  Recorded'
  <2>1. \A f \in Files, t \in Times :
          revisions'[f][t] # NoRevision =>
              \E q \in Requests :
                  /\ req'[q].changed /\ File(q) = f /\ req'[q].time = t
                  /\ revisions'[f][t].by = Call[q].by /\ revisions'[f][t].field = Call[q].field
    <3>. SUFFICES ASSUME NEW f \in Files, NEW t \in Times, revisions[f][t] # NoRevision
                  PROVE  \E q \in Requests :
                            /\ req'[q].changed /\ File(q) = f /\ req'[q].time = t
                            /\ revisions[f][t].by = Call[q].by /\ revisions[f][t].field = Call[q].field
      BY <1>1
    <3>. QED  BY <1>1 DEF Recorded
  <2>2. \A r \in Requests :
          (req'[r].changed /\ req'[r].pc \notin {"revision", "lost"}) =>
              revisions'[File(r)][req'[r].time] # NoRevision
    BY <1>1 DEF Recorded
  <2>. QED  BY <2>1, <2>2 DEF Recorded, File
<1>2. ASSUME NEW r \in Requests, Begin(r) \/ Serve(r), ~PutRevision(r)
      PROVE  Recorded'
  <2>1. revisions' = revisions
    BY <1>2 DEF Begin, Serve, ReadFile, CheckAccess, CheckFree, ReadContents, PutContents, Recheck,
       PutFile, Authorise, GetFile, AddToBin, Mark, Page, stores
  <2>. QED  BY <1>1, <1>2, <2>1, OneServed, ChangedStays
<1>3. ASSUME NEW r \in Requests, PutRevision(r) PROVE Recorded'
  <2>. DEFINE f0 == File(r)
              t0 == req[r].time
  <2>1. req[r].pc = "revision" /\ req[r].changed /\ Call[r].kind = "patch"
    BY <1>3 DEF PutRevision, At, Typed, OnTrack, Fits
  <2>2. /\ Undo(r) # NoRevision /\ Undo(r).by = Call[r].by /\ Undo(r).field = Call[r].field
        /\ t0 \in Times /\ f0 \in Files
    BY <2>1, UndoTyped
  <2>3. /\ revisions' = [revisions EXCEPT ![f0][t0] = Undo(r)]
        /\ revisions \in [Files -> [Times -> Revision \cup {NoRevision}]]
    BY <1>3 DEF PutRevision, Typed, TypeOK
  <2>4. /\ revisions'[f0][t0] = Undo(r)
        /\ \A f \in Files, t \in Times :
              revisions'[f][t] = revisions[f][t] \/ (f = f0 /\ t = t0)
    BY <2>2, <2>3
  <2>5. \A q \in Requests : q # r => req'[q] = req[q]
    BY <1>3, OneServed DEF Serve
  <2>6. /\ req'[r].changed /\ req'[r].time = t0
    BY <1>3, <2>1, ChangedStays DEF Serve
  <2>7. ASSUME NEW f \in Files, NEW t \in Times, revisions'[f][t] # NoRevision
        PROVE  \E q \in Requests :
                  /\ req'[q].changed /\ File(q) = f /\ req'[q].time = t
                  /\ revisions'[f][t].by = Call[q].by /\ revisions'[f][t].field = Call[q].field
    <3>. HIDE DEF f0, t0
    <3>1. CASE f = f0 /\ t = t0
      BY <2>2, <2>4, <2>6, <3>1 DEF f0, t0
    <3>2. CASE ~(f = f0 /\ t = t0)
      <4>1. revisions'[f][t] = revisions[f][t]
        BY <2>4, <3>2
      <4>2. PICK q \in Requests :
                  /\ req[q].changed /\ File(q) = f /\ req[q].time = t
                  /\ revisions[f][t].by = Call[q].by /\ revisions[f][t].field = Call[q].field
        BY <2>7, <4>1 DEF Recorded
      <4>3. q # r
        BY <3>2, <4>2 DEF f0, t0
      <4>. QED  BY <2>5, <4>1, <4>2, <4>3
    <3>. QED  BY <3>1, <3>2
  <2>8. ASSUME NEW q \in Requests, req'[q].changed, req'[q].pc \notin {"revision", "lost"}
        PROVE  revisions'[File(q)][req'[q].time] # NoRevision
    <3>1. CASE q = r
      BY <2>2, <2>4, <2>6, <3>1
    <3>2. CASE q # r
      <4>1. req'[q] = req[q]
        BY <2>5, <3>2
      <4>2. revisions[File(q)][req[q].time] # NoRevision
        BY <2>8, <4>1 DEF Recorded
      <4>3. File(q) \in Files /\ req[q].time \in Times
        BY <2>8, <4>1, CallTypes DEF Typed, OnTrack, Fits
      <4>. HIDE DEF f0, t0
      <4>. QED  BY <2>2, <2>4, <4>1, <4>2, <4>3
    <3>. QED  BY <3>1, <3>2
  <2>. QED  BY <2>7, <2>8 DEF Recorded, File
<1>4. CASE Tick
  BY <1>1, <1>4 DEF Tick, stores
<1>5. CASE Crash
  <2>1. revisions' = revisions
    BY <1>5 DEF Crash, stores
  <2>. QED  BY <1>1, <1>5, <2>1, CrashTyped
<1>6. CASE UNCHANGED vars
  BY <1>1, <1>6 DEF vars
<1>. QED  BY <1>2, <1>3, <1>4, <1>5, <1>6 DEF Next, Quiet, Serve

\* A patch that has changed the contents has left a revision by the time it is
\* answered, refused or not, in its own name or in that of a patch of the same
\* millisecond: for any number of patches that overlap.
THEOREM ChangesRecorded == Spec => []EveryChangeHasRevision
<1>1. Init => Recorded
  <2>. SUFFICES ASSUME Init PROVE Recorded
    OBVIOUS
  <2>1. \A r \in Requests : ~req[r].changed
    BY DEF Init, Rest
  <2>. QED  BY <2>1 DEF Init, Recorded
<1>2. Typed /\ Recorded => EveryChangeHasRevision
  <2>. SUFFICES ASSUME Typed, Recorded, NEW r \in Requests,
                       req[r].changed, req[r].pc \in Answers \ {"lost"}
                PROVE  LET kept == revisions[File(r)][req[r].time]
                       IN  /\ kept # NoRevision
                           /\ \/ kept.by = Call[r].by /\ kept.field = Call[r].field
                              \/ \E q \in Requests \ {r} :
                                    /\ req[q].changed /\ File(q) = File(r)
                                    /\ req[q].time = req[r].time
    BY DEF EveryChangeHasRevision
  <2>1. File(r) \in Files /\ req[r].time \in Times
    BY CallTypes DEF Typed, OnTrack, Fits
  <2>2. revisions[File(r)][req[r].time] # NoRevision
    BY DEF Recorded, Answers
  <2>3. PICK q \in Requests :
            /\ req[q].changed /\ File(q) = File(r) /\ req[q].time = req[r].time
            /\ revisions[File(r)][req[r].time].by = Call[q].by
            /\ revisions[File(r)][req[r].time].field = Call[q].field
    BY <2>1, <2>2 DEF Recorded
  <2>. QED  BY <2>2, <2>3
<1>. QED  BY <1>1, <1>2, InitTyped, StepTyped, RecordedStep, PTL DEF Spec

-----------------------------------------------------------------------------
\* The contents and their file

\* Where nothing overlapped, a file has one writer in flight.
Apart == \A r, q \in Requests :
            (/\ r # q /\ File(r) = File(q) /\ File(r) \notin disturbed
             /\ Writes(r) /\ Writes(q) /\ req[r].pc \in Busy) => req[q].pc \notin Busy

\* What a writer has found and done so far still stands.
Held(r) ==
    /\ (Call[r].kind = "upload" /\ req[r].pc \in {"free", "put"}) => ~removed[File(r)]
    /\ (Call[r].kind = "upload" /\ Call[r].typed /\ req[r].pc = "put") =>
          contents[File(r)] = NoContents
    /\ (Call[r].kind = "patch" /\ req[r].pc \in {"read", "put", "revision", "recheck", "putfile"}) =>
          ~removed[File(r)]
    /\ (Call[r].kind = "patch" /\ req[r].pc = "put") => req[r].got = contents[File(r)]
    /\ (Call[r].kind = "delete" /\ req[r].pc \in {"mark", "read", "rebin", "put"}) =>
          File(r) \in bin
    /\ (Call[r].kind = "delete" /\ req[r].pc \in {"read", "rebin", "put"}) => removed[File(r)]
    /\ (Call[r].kind = "delete" /\ req[r].pc \in {"rebin", "put"}) =>
          /\ contents[File(r)] # NoContents
          /\ req[r].got = [contents[File(r)] EXCEPT !.deleted = TRUE]
    /\ (Call[r].kind = "delete" /\ req[r].pc = "ok" /\ File(r) \notin Spaces) =>
          /\ removed[File(r)]
          /\ contents[File(r)] # NoContents /\ contents[File(r)].deleted

\* Contents that are gone are those of a file that is gone, and in the bin.
Gone(f) == (contents[f] # NoContents /\ contents[f].deleted) => removed[f] /\ f \in bin

Whole == /\ Apart
         /\ \A r \in Requests : File(r) \notin disturbed => Held(r)
         /\ \A f \in Files \ disturbed : Gone(f)

\* Apart survives: who begins to write where another writes disturbs the file.
LEMMA ApartStep == Typed /\ Apart /\ [Next]_vars => Apart'
<1>. SUFFICES ASSUME Typed, Apart, [Next]_vars PROVE Apart'
  OBVIOUS
<1>1. ASSUME disturbed \subseteq disturbed',
             \A q \in Requests : req'[q].pc \in Busy => req[q].pc \in Busy
      PROVE  Apart'
  BY <1>1 DEF Apart, File, Writes
<1>2. ASSUME NEW r \in Requests, Serve(r) PROVE Apart'
  <2>1. \A q \in Requests : req'[q].pc \in Busy => req[q].pc \in Busy
    BY <1>2, OneServed
  <2>. QED  BY <1>1, <1>2, <2>1, OneServed
<1>3. ASSUME NEW r \in Requests, Begin(r) PROVE Apart'
  <2>1. /\ disturbed \subseteq disturbed'
        /\ \A q \in Requests \ {r} : req'[q] = req[q]
    BY <1>3, OneServed
  <2>2. ASSUME NEW q \in Requests, q # r, File(q) = File(r), File(r) \notin disturbed',
               Writes(r), Writes(q)
        PROVE  req[q].pc \notin Busy
    <3>1. SUFFICES ASSUME req[q].pc \in Busy PROVE FALSE
      OBVIOUS
    <3>2. q \in Writers(File(r))
      BY <2>2, <3>1 DEF Writers, InFlight, Writes
    <3>. QED  BY <1>3, <2>2, <3>2 DEF Begin
  <2>. QED  BY <2>1, <2>2 DEF Apart, File, Writes
<1>4. CASE Tick
  BY <1>1, <1>4 DEF Tick, histories
<1>5. CASE Crash
  <2>1. \A q \in Requests : req'[q].pc \in Busy => req[q].pc \in Busy
    BY <1>5, CrashTyped
  <2>. QED  BY <1>1, <1>5, <2>1 DEF Crash
<1>6. CASE UNCHANGED vars
  BY <1>1, <1>6 DEF vars
<1>. QED  BY <1>2, <1>3, <1>4, <1>5, <1>6 DEF Next, Quiet

\* A step that writes no store keeps Whole if what the request then holds stands.
LEMMA WholeByLooking ==
    ASSUME Typed, Whole, NEW r \in Requests, Begin(r) \/ Serve(r),
           UNCHANGED <<removed, bin, contents>>, Apart',
           File(r) \notin disturbed => Held(r)'
    PROVE  Whole'
<1>1. disturbed \subseteq disturbed' /\ \A q \in Requests \ {r} : req'[q] = req[q]
  BY OneServed
<1>2. ASSUME NEW q \in Requests \ {r}, File(q) \notin disturbed PROVE Held(q)'
  BY <1>1, <1>2 DEF Whole, Held, File
<1>3. \A f \in Files \ disturbed : Gone(f)'
  BY DEF Whole, Gone
<1>4. \A q \in Requests : File(q)' = File(q)
  BY DEF File
<1>. QED  BY <1>1, <1>2, <1>3, <1>4 DEF Whole

LEMMA LookWhole ==
    ASSUME Typed, Whole, NEW r \in Requests,
           Begin(r) \/ ReadFile(r) \/ CheckAccess(r) \/ CheckFree(r) \/ ReadContents(r)
           \/ PutRevision(r) \/ Recheck(r) \/ Authorise(r) \/ GetFile(r) \/ Page(r),
           Apart'
    PROVE  Whole'
<1>1. /\ req \in [Requests -> RequestState] /\ req[r] \in RequestState /\ Fits(r, req[r])
  BY DEF Typed, TypeOK, OnTrack
<1>2. UNCHANGED <<removed, bin, contents>>
  BY DEF Begin, ReadFile, CheckAccess, CheckFree, ReadContents, PutRevision, Recheck, Authorise, GetFile,
     Page, stores
<1>. SUFFICES ASSUME File(r) \notin disturbed PROVE Held(r)'
  BY <1>2, WholeByLooking DEF Serve
<1>3. Held(r)
  BY DEF Whole
<1>4. CASE req'[r].pc \in (Answers \ {"ok"}) \cup {"file", "check", "page", "authorise", "get", "bin"}
  BY <1>4 DEF Held, Answers
<1>5. CASE \E code \in Answers \ {"ok"} : Answer(r, code)
  BY <1>4, <1>5, AnswerBecomes
<1>6. CASE Begin(r)
  <2>1. req'[r].pc \in {"check", "file"}
    BY <1>1, <1>6 DEF Begin, RequestState
  <2>. QED  BY <1>4, <2>1
<1>7. CASE ReadFile(r)
  <2>1. CASE Goto(r, IF Call[r].kind = "delete" THEN "authorise" ELSE "read") /\ May(r, "reader")
    <3>1. req'[r].pc = IF Call[r].kind = "delete" THEN "authorise" ELSE "read"
      BY <1>1, <2>1 DEF Goto, RequestState
    <3>. QED  BY <1>2, <2>1, <3>1 DEF Held, May, File
  <2>. QED  BY <1>5, <1>7, <2>1 DEF ReadFile, Answers
<1>8. CASE CheckAccess(r)
  <2>1. CASE Call[r].kind = "list"
    <3>1. req'[r].pc \in {"denied", "page"}
      BY <1>1, <1>8, <2>1 DEF CheckAccess, Answer, Goto, RequestState
    <3>. QED  BY <2>1, <3>1 DEF Held
  <2>2. CASE Call[r].kind = "upload"
    <3>1. CASE Answer(r, "denied")
      BY <1>5, <3>1 DEF Answers
    <3>2. CASE ~Answer(r, "denied")
      <4>1. ~removed[File(r)]
        BY <1>8, <2>2, <3>2 DEF CheckAccess, May
      <4>2. Call[r].typed => req'[r].pc = "free"
        BY <1>1, <1>8, <2>2, <3>2 DEF CheckAccess, Goto, RequestState
      <4>. QED  BY <1>2, <2>2, <4>1, <4>2 DEF Held, File
    <3>. QED  BY <3>1, <3>2
  <2>. QED  BY <1>1, <1>8, <2>1, <2>2 DEF CheckAccess, At, Fits
<1>9. CASE CheckFree(r)
  <2>1. CASE contents[File(r)] # NoContents
    BY <1>5, <1>9, <2>1 DEF CheckFree, Answers
  <2>2. CASE contents[File(r)] = NoContents
    <3>1. Call[r].kind = "upload" /\ ~removed[File(r)]
      BY <1>1, <1>3, <1>9 DEF CheckFree, At, Fits, Held
    <3>. QED  BY <1>2, <2>2, <3>1 DEF Held, File
  <2>. QED  BY <2>1, <2>2
<1>10. CASE ReadContents(r)
  <2>1. CASE \E code \in Answers \ {"ok"} : Answer(r, code)
    BY <1>5, <2>1
  <2>2. CASE Call[r].kind = "get"
    BY <2>2 DEF Held
  <2>3. CASE /\ Call[r].kind = "delete" /\ contents[File(r)] # NoContents
             /\ req' = [req EXCEPT ![r] = [req[r] EXCEPT !.pc = "rebin",
                                              !.got = [contents[File(r)] EXCEPT !.deleted = TRUE]]]
    <3>1. req'[r].pc = "rebin" /\ req'[r].got = [contents[File(r)] EXCEPT !.deleted = TRUE]
      BY <1>1, <2>3 DEF RequestState
    <3>2. removed[File(r)] /\ File(r) \in bin
      BY <1>3, <1>10, <2>3 DEF ReadContents, At, Held
    <3>. QED  BY <1>2, <2>3, <3>1, <3>2 DEF Held, File
  <2>4. CASE /\ Call[r].kind = "patch"
             /\ req' = [req EXCEPT ![r] = [req[r] EXCEPT !.pc = "put", !.got = contents[File(r)]]]
    <3>1. req'[r].pc = "put" /\ req'[r].got = contents[File(r)]
      BY <1>1, <2>4 DEF RequestState
    <3>2. ~removed[File(r)]
      BY <1>3, <1>10, <2>4 DEF ReadContents, At, Held
    <3>. QED  BY <1>2, <2>4, <3>1, <3>2 DEF Held, File
  <2>. QED  BY <1>10, <2>1, <2>2, <2>3, <2>4, ReadOutcomes
<1>11. CASE PutRevision(r) \/ Recheck(r)
  <2>1. Call[r].kind = "patch" /\ ~removed[File(r)]
    BY <1>1, <1>3, <1>11 DEF PutRevision, Recheck, At, Fits, Held
  <2>2. req'[r].pc \in {"recheck", "putfile", "denied"}
    BY <1>1, <1>11 DEF PutRevision, Recheck, Goto, Answer, RequestState
  <2>. QED  BY <1>2, <2>1, <2>2 DEF Held, File
<1>12. CASE Authorise(r) \/ GetFile(r)
  <2>1. req'[r].pc \in {"denied", "get", "bin"}
    BY <1>1, <1>12 DEF Authorise, GetFile, Goto, Answer, RequestState
  <2>. QED  BY <1>4, <2>1 DEF Answers
<1>13. CASE Page(r)
  BY <1>1, <1>13 DEF Page, At, Fits, Held
<1>. QED  BY <1>6, <1>7, <1>8, <1>9, <1>10, <1>11, <1>12, <1>13

\* The other writers of a file rest while one of them, undisturbed, is served:
\* what they hold is what they did when they were answered.
LEMMA OthersRest ==
    ASSUME Typed, Apart, NEW r \in Requests, NEW q \in Requests \ {r}, File(q) = File(r),
           File(r) \notin disturbed, Writes(r), req[r].pc \in Busy, req'[q] = req[q],
           (Call[q].kind = "delete" /\ req[q].pc = "ok" /\ File(q) \notin Spaces) =>
               (/\ removed[File(q)]
                /\ contents[File(q)] # NoContents /\ contents[File(q)].deleted)'
    PROVE  Held(q)'
<1>1. Writes(q) => req[q].pc \notin Busy
  BY DEF Apart
<1>. QED  BY <1>1 DEF Held, Writes, Busy, File

\* A step that writes at its own file only keeps what holds of the others.
LEMMA WholeByWriting ==
    ASSUME Typed, Whole, NEW r \in Requests, Serve(r), Writes(r), Apart',
           \A f \in Files \ {File(r)} : /\ removed'[f] = removed[f]
                                        /\ contents'[f] = contents[f]
                                        /\ (f \in bin' <=> f \in bin),
           File(r) \notin disturbed' =>
              /\ Held(r)' /\ Gone(File(r))'
              /\ \A q \in Requests \ {r} :
                    (/\ File(q) = File(r) /\ Call[q].kind = "delete" /\ req[q].pc = "ok"
                     /\ File(q) \notin Spaces) =>
                        (/\ removed[File(q)]
                         /\ contents[File(q)] # NoContents /\ contents[File(q)].deleted)'
    PROVE  Whole'
<1>1. /\ disturbed \subseteq disturbed' /\ \A q \in Requests \ {r} : req'[q] = req[q]
      /\ req[r].pc \in Busy
  BY OneServed
<1>2. ASSUME NEW q \in Requests, File(q) \notin disturbed' PROVE Held(q)'
  <2>1. CASE q = r
    BY <1>2, <2>1
  <2>2. CASE q # r /\ File(q) = File(r)
    BY <1>1, <1>2, <2>2, OthersRest DEF Whole
  <2>3. CASE File(q) # File(r)
    <3>1. /\ Held(q) /\ req'[q] = req[q]
          /\ removed'[File(q)] = removed[File(q)] /\ contents'[File(q)] = contents[File(q)]
          /\ (File(q) \in bin' <=> File(q) \in bin)
      BY <1>1, <1>2, <2>3, CallTypes DEF Whole
    <3>. QED  BY <3>1 DEF Held, File
  <2>. QED  BY <2>1, <2>2, <2>3
<1>3. ASSUME NEW f \in Files \ disturbed' PROVE Gone(f)'
  <2>1. CASE f = File(r)
    BY <1>3, <2>1 DEF Gone, File
  <2>2. CASE f # File(r)
    BY <1>1, <1>3, <2>2 DEF Whole, Gone
  <2>. QED  BY <2>1, <2>2
<1>4. \A q \in Requests : File(q)' = File(q)
  BY DEF File
<1>. QED  BY <1>2, <1>3, <1>4 DEF Whole

LEMMA PutContentsWhole ==
    ASSUME Typed, Whole, NEW r \in Requests, PutContents(r), Apart'
    PROVE  Whole'
<1>1. /\ req \in [Requests -> RequestState] /\ req[r] \in RequestState /\ Fits(r, req[r])
      /\ req[r].pc = "put" /\ UNCHANGED <<removed, bin>> /\ Serve(r) /\ File(r) \in Files
      /\ contents \in [Files -> Contents \cup {NoContents}]
  BY CallTypes DEF Typed, TypeOK, OnTrack, PutContents, At, Serve
<1>2. Writes(r) /\ req[r].got \in Contents
  BY <1>1 DEF Fits, Writes
<1>3. \A f \in Files \ {File(r)} : contents'[f] = contents[f]
  BY <1>1 DEF PutContents
<1>. SUFFICES ASSUME File(r) \notin disturbed'
              PROVE  /\ Held(r)' /\ Gone(File(r))'
                     /\ \A q \in Requests \ {r} :
                           (/\ File(q) = File(r) /\ Call[q].kind = "delete" /\ req[q].pc = "ok"
                            /\ File(q) \notin Spaces) =>
                               (/\ removed[File(q)]
                                /\ contents[File(q)] # NoContents /\ contents[File(q)].deleted)'
  BY <1>1, <1>2, <1>3, WholeByWriting
<1>4. File(r) \notin disturbed
  BY <1>1, OneServed
<1>5. Held(r) /\ Gone(File(r)) /\ \A q \in Requests : File(q) = File(r) => Held(q)
  BY <1>1, <1>4 DEF Whole
<1>6. CASE Call[r].kind = "patch"
  <2>1. ~removed[File(r)] /\ req'[r].pc = "revision"
    BY <1>1, <1>5, <1>6 DEF Held, PutContents, RequestState
  <2>2. Held(r)'
    BY <1>1, <1>6, <2>1 DEF Held, File
  <2>3. contents'[File(r)] = Applied(req[r].got, Call[r].field, Call[r].new)
    BY <1>1, <1>6 DEF PutContents
  <2>4. ~contents'[File(r)].deleted
    <3>1. ~req[r].got.deleted
      BY <1>1, <1>2, <1>5, <1>6, <2>1, ContentsTypes DEF Held, Gone, Contents
    <3>. QED  BY <1>2, <2>3, <3>1, AppliedTyped, CallTypes
  <2>5. Gone(File(r))'
    BY <2>4 DEF Gone, File
  <2>. QED  BY <1>5, <2>1, <2>2, <2>5 DEF Held
<1>7. CASE Call[r].kind = "upload"
  <2>1. ~removed[File(r)] /\ req'[r].pc = "ok"
    BY <1>1, <1>5, <1>7 DEF Held, PutContents, Answer, RequestState
  <2>2. Held(r)'
    BY <1>7, <2>1 DEF Held
  <2>3. contents'[File(r)] = [value |-> Call[r].value, deleted |-> FALSE]
    BY <1>1, <1>7 DEF PutContents, Fits
  <2>4. Gone(File(r))'
    BY <2>3 DEF Gone, File
  <2>. QED  BY <1>5, <2>1, <2>2, <2>4 DEF Held
<1>8. CASE Call[r].kind = "delete"
  <2>1. /\ removed[File(r)] /\ File(r) \in bin /\ contents[File(r)] # NoContents
        /\ req[r].got = [contents[File(r)] EXCEPT !.deleted = TRUE]
    BY <1>1, <1>5, <1>8 DEF Held
  <2>2. contents'[File(r)] = req[r].got /\ req'[r].pc = "ok"
    BY <1>1, <1>8 DEF PutContents, Answer, RequestState
  <2>3. contents'[File(r)] # NoContents /\ contents'[File(r)].deleted
    BY <1>1, <1>2, <2>1, <2>2, ContentsTypes
  <2>4. Held(r)' /\ Gone(File(r))'
    BY <1>1, <1>8, <2>1, <2>2, <2>3 DEF Held, Gone, File
  <2>5. removed'[File(r)]
    BY <1>1, <2>1
  <2>. QED  BY <2>3, <2>4, <2>5 DEF File
<1>. QED  BY <1>2, <1>6, <1>7, <1>8 DEF Writes

LEMMA PutFileWhole ==
    ASSUME Typed, Whole, NEW r \in Requests, PutFile(r), Apart'
    PROVE  Whole'
<1>1. /\ req \in [Requests -> RequestState] /\ req[r] \in RequestState /\ Fits(r, req[r])
      /\ req[r].pc = "putfile" /\ UNCHANGED <<bin, contents>> /\ Serve(r) /\ File(r) \in Files
      /\ Call[r].kind = "patch" /\ Writes(r)
  BY CallTypes DEF Typed, TypeOK, OnTrack, PutFile, At, Serve, Fits, Writes
<1>2. \A f \in Files \ {File(r)} : removed'[f] = removed[f]
  BY <1>1 DEF PutFile, Typed, TypeOK
<1>. SUFFICES ASSUME File(r) \notin disturbed'
              PROVE  /\ Held(r)' /\ Gone(File(r))'
                     /\ \A q \in Requests \ {r} :
                           (/\ File(q) = File(r) /\ Call[q].kind = "delete" /\ req[q].pc = "ok"
                            /\ File(q) \notin Spaces) =>
                               (/\ removed[File(q)]
                                /\ contents[File(q)] # NoContents /\ contents[File(q)].deleted)'
  BY <1>1, <1>2, WholeByWriting
<1>3. File(r) \notin disturbed
  BY <1>1, OneServed
<1>4. ~removed[File(r)] /\ Gone(File(r)) /\ \A q \in Requests : File(q) = File(r) => Held(q)
  BY <1>1, <1>3 DEF Whole, Held
<1>5. req'[r].pc = "ok"
  BY <1>1 DEF PutFile, Answer, RequestState
<1>6. Held(r)'
  BY <1>1, <1>5 DEF Held
<1>7. Gone(File(r))'
  BY <1>1, <1>4 DEF Gone, File
<1>. QED  BY <1>4, <1>6, <1>7 DEF Held

LEMMA AddToBinWhole ==
    ASSUME Typed, Whole, NEW r \in Requests, AddToBin(r), Apart'
    PROVE  Whole'
<1>1. /\ req \in [Requests -> RequestState] /\ req[r] \in RequestState /\ Fits(r, req[r])
      /\ req[r].pc \in {"bin", "rebin"} /\ UNCHANGED <<removed, contents>> /\ Serve(r)
      /\ File(r) \in Files /\ Call[r].kind = "delete" /\ Writes(r)
      /\ bin' = bin \cup {File(r)}
  BY CallTypes DEF Typed, TypeOK, OnTrack, AddToBin, At, Serve, Fits, Writes
<1>2. \A f \in Files \ {File(r)} : (f \in bin' <=> f \in bin)
  BY <1>1
<1>. SUFFICES ASSUME File(r) \notin disturbed'
              PROVE  /\ Held(r)' /\ Gone(File(r))'
                     /\ \A q \in Requests \ {r} :
                           (/\ File(q) = File(r) /\ Call[q].kind = "delete" /\ req[q].pc = "ok"
                            /\ File(q) \notin Spaces) =>
                               (/\ removed[File(q)]
                                /\ contents[File(q)] # NoContents /\ contents[File(q)].deleted)'
  BY <1>1, <1>2, WholeByWriting
<1>3. File(r) \notin disturbed
  BY <1>1, OneServed
<1>4. Gone(File(r)) /\ \A q \in Requests : File(q) = File(r) => Held(q)
  BY <1>1, <1>3 DEF Whole
<1>5. Gone(File(r))'
  BY <1>1, <1>4 DEF Gone, File
<1>6. Held(r)'
  <2>1. CASE At(r, "bin")
    <3>1. req'[r].pc = "mark"
      BY <1>1, <2>1 DEF AddToBin, Goto, RequestState
    <3>. QED  BY <1>1, <3>1 DEF Held, File
  <2>2. CASE At(r, "rebin")
    <3>1. req'[r].pc = "put" /\ req'[r].got = req[r].got /\ ~At(r, "bin")
      BY <1>1, <2>2 DEF AddToBin, Goto, RequestState, At
    <3>2. Held(r)
      BY <1>4
    <3>. QED  BY <1>1, <2>2, <3>1, <3>2 DEF Held, File, At
  <2>. QED  BY <1>1, <2>1, <2>2 DEF At
<1>. QED  BY <1>1, <1>4, <1>5, <1>6 DEF Held, File

LEMMA MarkWhole ==
    ASSUME Typed, Whole, NEW r \in Requests, Mark(r), Apart'
    PROVE  Whole'
<1>1. /\ req \in [Requests -> RequestState] /\ req[r] \in RequestState /\ Fits(r, req[r])
      /\ req[r].pc = "mark" /\ UNCHANGED <<bin, contents>> /\ Serve(r)
      /\ File(r) \in Files /\ Call[r].kind = "delete" /\ Writes(r)
      /\ removed' = [removed EXCEPT ![File(r)] = TRUE]
      /\ removed \in [Files -> BOOLEAN]
  BY CallTypes DEF Typed, TypeOK, OnTrack, Mark, At, Serve, Fits, Writes
<1>2. \A f \in Files \ {File(r)} : removed'[f] = removed[f]
  BY <1>1
<1>. SUFFICES ASSUME File(r) \notin disturbed'
              PROVE  /\ Held(r)' /\ Gone(File(r))'
                     /\ \A q \in Requests \ {r} :
                           (/\ File(q) = File(r) /\ Call[q].kind = "delete" /\ req[q].pc = "ok"
                            /\ File(q) \notin Spaces) =>
                               (/\ removed[File(q)]
                                /\ contents[File(q)] # NoContents /\ contents[File(q)].deleted)'
  BY <1>1, <1>2, WholeByWriting
<1>3. File(r) \notin disturbed
  BY <1>1, OneServed
<1>4. Gone(File(r)) /\ Held(r) /\ \A q \in Requests : File(q) = File(r) => Held(q)
  BY <1>1, <1>3 DEF Whole
<1>5. removed'[File(r)] /\ File(r) \in bin
  BY <1>1, <1>4 DEF Held
<1>6. Gone(File(r))'
  BY <1>1, <1>5 DEF Gone, File
<1>7. Held(r)'
  <2>1. CASE File(r) \in Spaces
    <3>1. req'[r].pc = "ok"
      BY <1>1, <2>1 DEF Mark, Answer, RequestState
    <3>. QED  BY <1>1, <2>1, <3>1 DEF Held, File
  <2>2. CASE File(r) \notin Spaces
    <3>1. req'[r].pc = "read"
      BY <1>1, <2>2 DEF Mark, Goto, RequestState
    <3>. QED  BY <1>1, <1>5, <3>1 DEF Held, File
  <2>. QED  BY <2>1, <2>2
<1>. QED  BY <1>1, <1>4, <1>5, <1>6, <1>7 DEF Held, File

LEMMA WholeStep == Typed /\ Whole /\ [Next]_vars => Whole'
<1>. SUFFICES ASSUME Typed, Whole, [Next]_vars PROVE Whole'
  OBVIOUS
<1>1. Apart'
  BY ApartStep DEF Whole
<1>2. ASSUME NEW r \in Requests, Begin(r) \/ Serve(r) PROVE Whole'
  BY <1>1, <1>2, LookWhole, PutContentsWhole, PutFileWhole, AddToBinWhole, MarkWhole DEF Serve
<1>3. CASE Tick
  BY <1>1, <1>3 DEF Tick, stores, histories, Whole, Held, Gone, File
<1>4. CASE Crash
  <2>1. UNCHANGED <<removed, bin, contents>> /\ disturbed \subseteq disturbed'
    BY <1>4 DEF Crash, stores
  <2>2. ASSUME NEW q \in Requests, File(q) \notin disturbed PROVE Held(q)'
    <3>1. Held(q)
      BY <2>2 DEF Whole
    <3>2. CASE req'[q] = req[q]
      BY <2>1, <3>1, <3>2 DEF Held, File
    <3>3. CASE req'[q].pc = "lost"
      BY <3>3 DEF Held
    <3>. QED  BY <1>4, <3>2, <3>3, CrashTyped
  <2>3. \A f \in Files \ disturbed : Gone(f)'
    BY <2>1 DEF Whole, Gone
  <2>4. \A q \in Requests : File(q)' = File(q)
    BY DEF File
  <2>. QED  BY <1>1, <2>1, <2>2, <2>3, <2>4 DEF Whole
<1>5. CASE UNCHANGED vars
  BY <1>1, <1>5 DEF vars, stores, histories, Whole, Held, Gone, File
<1>. QED  BY <1>2, <1>3, <1>4, <1>5 DEF Next, Quiet

LEMMA InitWhole == Init => Whole
<1>. SUFFICES ASSUME Init PROVE Whole
  OBVIOUS
<1>1. \A r \in Requests : req[r].pc \in {"idle", "unmade"}
  BY DEF Init, Rest
<1>2. \A f \in Files : contents[f] = NoContents
  BY DEF Init
<1>. QED  BY <1>1, <1>2 DEF Whole, Apart, Held, Gone, Busy

\* A file and its contents are deleted together: contents are never marked
\* while their file is there and not in the bin, and an answered DELETE of a
\* file has marked both, wherever it or another request died.
THEOREM GoTogether == Spec => []RemovedTogether
<1>1. Whole => RemovedTogether
  BY DEF Whole, Gone, Held, RemovedTogether, At
<1>. QED  BY <1>1, InitTyped, StepTyped, InitWhole, WholeStep, PTL DEF Spec

\* Contents of a file with a kind are replaced by patches and marked by DELETE,
\* and by no second upload, unless uploads overlapped.
THEOREM PatchedOnly == Spec => ReplacedByPatchOnly
<1>1. ASSUME Typed, Whole, [Next]_vars
      PROVE  [\A f \in Files \ disturbed' :
          (contents[f] # NoContents /\ contents'[f] # contents[f]) =>
              \E r \in InFlight :
                  /\ File(r) = f /\ req'[r] # req[r]
                  /\ Call[r].kind = "patch"
                     \/ contents'[f] = [contents[f] EXCEPT !.deleted = TRUE]]_vars
  <2>. SUFFICES ASSUME NEW f \in Files \ disturbed',
                       contents[f] # NoContents, contents'[f] # contents[f]
                PROVE  \E r \in InFlight :
                          /\ File(r) = f /\ req'[r] # req[r]
                          /\ Call[r].kind = "patch"
                             \/ contents'[f] = [contents[f] EXCEPT !.deleted = TRUE]
    OBVIOUS
  <2>1. PICK r \in Requests : PutContents(r)
    BY <1>1 DEF Next, Serve, Quiet, vars, stores, Tick, Crash, Begin, ReadFile, CheckAccess, CheckFree,
       ReadContents, PutRevision, Recheck, PutFile, Authorise, GetFile, AddToBin, Mark, Page
  <2>2. /\ req \in [Requests -> RequestState] /\ req[r] \in RequestState /\ Fits(r, req[r])
        /\ req[r].pc = "put" /\ contents \in [Files -> Contents \cup {NoContents}]
    BY <1>1, <2>1 DEF Typed, TypeOK, OnTrack, PutContents, At
  <2>3. File(r) = f /\ File(r) \notin disturbed
    BY <1>1, <2>1, <2>2, OneServed DEF PutContents, Serve
  <2>4. r \in InFlight /\ req'[r].pc # "put"
    BY <2>1, <2>2 DEF InFlight, Busy, PutContents, Answer, RequestState
  <2>5. Held(r)
    BY <1>1, <2>3 DEF Whole
  <2>6. Call[r].kind # "upload"
    <3>1. CASE Call[r].typed
      BY <2>2, <2>3, <2>5, <3>1 DEF Held
    <3>2. CASE ~Call[r].typed
      BY <2>1, <2>3, <3>2 DEF PutContents
    <3>. QED  BY <3>1, <3>2
  <2>7. CASE Call[r].kind = "delete"
    <3>1. contents'[f] = req[r].got
      BY <2>1, <2>2, <2>3, <2>7 DEF PutContents
    <3>. QED  BY <2>2, <2>3, <2>4, <2>5, <2>7, <3>1 DEF Held
  <2>. QED  BY <2>2, <2>3, <2>4, <2>6, <2>7 DEF Fits
<1>. QED  BY <1>1, InitTyped, StepTyped, InitWhole, WholeStep, PTL DEF Spec, ReplacedByPatchOnly

-----------------------------------------------------------------------------
\* A listing is complete

\* x has listed, once each, what was there when it began and is not older than
\* its cursor; R: what is there now.
Paged(x, R) ==
    /\ x.pc \in {"idle", "unmade"} => x.listed = <<>>
    /\ x.before \subseteq R
    /\ \A i \in DOMAIN x.listed : x.time <= x.listed[i]
    /\ \A i, j \in DOMAIN x.listed : x.listed[i] = x.listed[j] => i = j
    /\ \A t \in x.before : x.time <= t => \E i \in DOMAIN x.listed : x.listed[i] = t
    /\ x.pc = "ok" => \A t \in x.before : x.time <= t

Pages == \A r \in Requests : Call[r].kind = "list" => Paged(req[r], Revised(File(r)))

\* Revisions are put and replaced, never taken away.
LEMMA RevisionsStay ==
    ASSUME Typed, NEW r \in Requests, Begin(r) \/ Serve(r)
    PROVE  \A f \in Files : Revised(f) \subseteq Revised(f)'
<1>1. CASE PutRevision(r)
  <2>1. Undo(r) # NoRevision /\ req[r].time \in Times /\ File(r) \in Files
    BY <1>1, UndoTyped DEF PutRevision, At
  <2>2. \A f \in Files, t \in Times :
           revisions'[f][t] = revisions[f][t] \/ revisions'[f][t] = Undo(r)
    BY <1>1, <2>1 DEF PutRevision, Typed, TypeOK
  <2>. QED  BY <2>1, <2>2 DEF Revised
<1>2. CASE ~PutRevision(r)
  <2>1. revisions' = revisions
    BY <1>2 DEF Begin, Serve, ReadFile, CheckAccess, CheckFree, ReadContents, PutContents, Recheck,
       PutFile, Authorise, GetFile, AddToBin, Mark, Page, stores
  <2>. QED  BY <2>1 DEF Revised
<1>. QED  BY <1>1, <1>2

\* One page further: the newest of what is older than the cursor.
LEMMA PageTurned ==
    ASSUME NEW x \in RequestState, NEW R \in SUBSET Times, Paged(x, R), NEW newest \in R,
           newest < x.time, \A t \in R : t < x.time => t <= newest,
           NEW y \in RequestState, y.pc = "check", y.time = newest,
           y.listed = Append(x.listed, newest), y.before = x.before
    PROVE  Paged(y, R)
<1>. DEFINE n == Len(x.listed)
<1>1. /\ x.listed \in Seq(Times) /\ newest \in Times /\ x.time \in Nat
      /\ x.before \subseteq Times /\ \A t \in Times : t \in Nat
  BY BoundsTyped DEF RequestState, Times
<1>2. /\ n \in Nat /\ DOMAIN x.listed = 1..n /\ DOMAIN y.listed = 1..(n + 1)
      /\ \A i \in 1..n : y.listed[i] = x.listed[i] /\ x.listed[i] \in Times
      /\ y.listed[n + 1] = newest
  BY <1>1
<1>3. \A i \in DOMAIN y.listed : y.time <= y.listed[i]
  BY <1>1, <1>2 DEF Paged
<1>4. \A i, j \in DOMAIN y.listed : y.listed[i] = y.listed[j] => i = j
  <2>1. \A i \in 1..n : y.listed[i] # newest
    <3>1. \A i \in 1..n : x.time <= x.listed[i]
      BY <1>2 DEF Paged
    <3>2. newest < x.time /\ newest \in Nat /\ \A i \in 1..n : x.listed[i] \in Nat
      BY <1>1, <1>2
    <3>3. \A i \in 1..n : x.listed[i] # newest
      BY <1>1, <3>1, <3>2
    <3>. QED  BY <1>2, <3>3
  <2>. QED  BY <1>2, <2>1 DEF Paged
<1>5. ASSUME NEW t \in y.before, y.time <= t
      PROVE  \E i \in DOMAIN y.listed : y.listed[i] = t
  <2>1. CASE x.time <= t
    <3>1. PICK i \in DOMAIN x.listed : x.listed[i] = t
      BY <2>1 DEF Paged
    <3>. QED  BY <1>2, <3>1
  <2>2. CASE ~(x.time <= t)
    <3>0. t \in R /\ t \in Nat /\ newest \in Nat /\ newest <= t
      BY <1>1, <1>5 DEF Paged
    <3>1. t = newest
      BY <1>1, <2>2, <3>0
    <3>. QED  BY <1>2, <3>1
  <2>. QED  BY <2>1, <2>2
<1>. QED  BY <1>3, <1>4, <1>5 DEF Paged

LEMMA PagesStep == Typed /\ Pages /\ [Next]_vars => Pages'
<1>. SUFFICES ASSUME Typed, Pages, [Next]_vars PROVE Pages'
  OBVIOUS
<1>0. \A r \in Requests : req[r] \in RequestState /\ File(r) \in Files
  BY CallTypes DEF Typed, TypeOK
<1>1. ASSUME NEW r \in Requests, Begin(r) \/ Serve(r),
             Call[r].kind = "list" => Paged(req'[r], Revised(File(r)))
      PROVE  Pages'
  <2>1. ASSUME NEW q \in Requests, Call[q].kind = "list"
        PROVE  Paged(req'[q], Revised(File(q))')
    <3>1. Paged(req'[q], Revised(File(q)))
      <4>1. CASE q = r
        BY <1>1, <2>1, <4>1
      <4>2. CASE q # r
        BY <1>1, <2>1, <4>2, OneServed DEF Pages
      <4>. QED  BY <4>1, <4>2
    <3>2. Revised(File(q)) \subseteq Revised(File(q))'
      <4>1. \A f \in Files : Revised(f) \subseteq Revised(f)'
        BY <1>1, RevisionsStay
      <4>2. File(q)' = File(q) /\ File(q) \in Files
        BY <1>0 DEF File
      <4>. QED  BY <4>1, <4>2 DEF Revised
    <3>. QED  BY <3>1, <3>2 DEF Paged
  <2>. QED  BY <2>1 DEF Pages
<1>2. ASSUME NEW r \in Requests, Call[r].kind = "list", Begin(r) \/ Serve(r)
      PROVE  Paged(req'[r], Revised(File(r)))
  <2>. DEFINE x == req[r]
              R == Revised(File(r))
  <2>1. x \in RequestState /\ Fits(r, x) /\ Paged(x, R) /\ R \subseteq Times
    BY <1>0, <1>2 DEF Pages, Typed, OnTrack, Revised
  <2>2. Begin(r) \/ CheckAccess(r) \/ Page(r)
    BY <1>2, <2>1 DEF Serve, ReadFile, CheckFree, ReadContents, PutContents, PutRevision, Recheck,
       PutFile, Authorise, GetFile, AddToBin, Mark, At, Fits
  <2>3. ASSUME NEW y, req' = [req EXCEPT ![r] = y], y.pc \notin {"idle", "unmade", "ok"},
               y.time = x.time, y.listed = x.listed, y.before = x.before
        PROVE  Paged(req'[r], R)
    <3>1. req'[r] = y
      BY <2>3 DEF Typed, TypeOK
    <3>2. Paged(y, R)
      <4>. HIDE DEF R, x
      <4>. QED  BY <2>1, <2>3 DEF Paged
    <3>. QED  BY <3>1, <3>2
  <2>4. ASSUME NEW code \in Answers, Answer(r, code), code = "ok" => \A t \in x.before : x.time <= t
        PROVE  Paged(req'[r], R)
    <3>. DEFINE y == [x EXCEPT !.pc = code, !.got = NoContents]
    <3>1. req'[r] = y
      BY <2>4 DEF Answer, Typed, TypeOK
    <3>2. y.pc = code /\ y.time = x.time /\ y.listed = x.listed /\ y.before = x.before
      BY <2>1 DEF RequestState
    <3>. HIDE DEF y
    <3>3. Paged(y, R)
      <4>. HIDE DEF x, R
      <4>. QED  BY <2>1, <2>4, <3>2 DEF Paged, Answers
    <3>. QED  BY <3>1, <3>3
  <2>5. CASE Begin(r)
    <3>. DEFINE y == [x EXCEPT !.pc = "check", !.time = MaxTime + 1, !.before = R]
    <3>1. req' = [req EXCEPT ![r] = y] /\ x.pc = "idle"
      BY <1>2, <2>5 DEF Begin, At
    <3>2. y.pc = "check" /\ y.time = MaxTime + 1 /\ y.listed = <<>> /\ y.before = R
      BY <2>1, <3>1 DEF RequestState, Paged
    <3>3. req'[r] = y
      BY <3>1 DEF Typed, TypeOK
    <3>4. \A t \in R : ~(MaxTime + 1 <= t)
      BY <2>1, BoundsTyped DEF Times
    <3>. HIDE DEF y
    <3>5. Paged(y, R)
      <4>. HIDE DEF R
      <4>1. DOMAIN y.listed = {}
        BY <3>2
      <4>. QED  BY <3>2, <3>4, <4>1 DEF Paged
    <3>. QED  BY <3>3, <3>5
  <2>6. CASE CheckAccess(r)
    <3>1. CASE Answer(r, "denied")
      BY <2>4, <3>1 DEF Answers
    <3>2. CASE Goto(r, "page")
      <4>. DEFINE y == [x EXCEPT !.pc = "page"]
      <4>1. req' = [req EXCEPT ![r] = y]
        BY <3>2 DEF Goto
      <4>2. y.pc = "page" /\ y.time = x.time /\ y.listed = x.listed /\ y.before = x.before
        BY <2>1 DEF RequestState
      <4>. HIDE DEF y
      <4>. QED  BY <2>3, <4>1, <4>2
    <3>. QED  BY <1>2, <2>6, <3>1, <3>2 DEF CheckAccess
  <2>7. CASE Page(r)
    <3>. DEFINE left == Older(File(r), x.time)
    <3>0. x.time \in Nat /\ x.before \subseteq Times /\ \A t \in Times : t \in Nat
      BY <2>1, BoundsTyped DEF RequestState, Times
    <3>1. CASE left = {}
      <4>1. Answer(r, "ok")
        BY <2>7, <3>1 DEF Page
      <4>2. \A t \in x.before : x.time <= t
        BY <2>1, <3>0, <3>1 DEF Older, Paged
      <4>. QED  BY <2>4, <4>1, <4>2 DEF Answers
    <3>2. CASE left # {}
      <4>1. PICK newest \in left :
               /\ \A t \in left : t <= newest
               /\ req' = [req EXCEPT ![r].pc = "check", ![r].time = newest,
                                     ![r].listed = Append(@, newest)]
        BY <2>7, <3>2 DEF Page
      <4>. DEFINE y == [x EXCEPT !.pc = "check", !.time = newest, !.listed = Append(@, newest)]
      <4>2. req' = [req EXCEPT ![r] = y]
        BY <4>1
      <4>3. /\ newest \in R /\ newest < x.time /\ \A t \in R : t < x.time => t <= newest
            /\ newest \in Times
        BY <2>1, <4>1 DEF Older
      <4>4. /\ y.pc = "check" /\ y.time = newest /\ y.listed = Append(x.listed, newest)
            /\ y.before = x.before
        BY <2>1 DEF RequestState
      <4>5. y \in RequestState
        <5>1. newest \in 0..(MaxTime + 1) /\ Append(x.listed, newest) \in Seq(Times)
          BY <2>1, <4>3, BoundsTyped DEF Times, RequestState
        <5>. QED  BY <2>1, <5>1 DEF RequestState, Busy
      <4>6. req'[r] = y
        BY <4>2 DEF Typed, TypeOK
      <4>. HIDE DEF y
      <4>7. Paged(y, R)
        <5>. HIDE DEF x, R
        <5>. QED  BY <2>1, <4>3, <4>4, <4>5, PageTurned
      <4>. QED  BY <4>6, <4>7
    <3>. QED  BY <3>1, <3>2
  <2>. QED  BY <2>2, <2>5, <2>6, <2>7
<1>3. ASSUME NEW r \in Requests, Begin(r) \/ Serve(r) PROVE Pages'
  BY <1>1, <1>2, <1>3
<1>4. CASE UNCHANGED <<req, revisions>>
  BY <1>4 DEF Pages, Revised, File
<1>5. CASE Crash
  <2>1. ASSUME NEW r \in Requests, Call[r].kind = "list"
        PROVE  Paged(req'[r], Revised(File(r)))
    <3>1. CASE r \in InFlight
      <4>. DEFINE y == [req[r] EXCEPT !.pc = "lost", !.got = NoContents]
      <4>1. req'[r] = y
        BY <1>5, <3>1 DEF Crash
      <4>2. /\ y.pc = "lost" /\ y.time = req[r].time /\ y.listed = req[r].listed
            /\ y.before = req[r].before
        BY <1>0 DEF RequestState
      <4>. HIDE DEF y
      <4>. QED  BY <2>1, <4>1, <4>2 DEF Pages, Paged
    <3>2. CASE r \notin InFlight
      BY <1>5, <2>1, <3>2 DEF Crash, Pages
    <3>. QED  BY <3>1, <3>2
  <2>. QED  BY <1>5, <2>1 DEF Crash, stores, Pages, Revised, File
<1>. QED  BY <1>3, <1>4, <1>5 DEF Next, Quiet, Tick, vars, stores

\* A listing that takes page after page while patches go on has every revision
\* that was there when it began, once: for any number of pages (Revisions.list).
THEOREM ListingsComplete == Spec => []ListingComplete
<1>1. Init => Pages
  <2>. SUFFICES ASSUME Init PROVE Pages
    OBVIOUS
  <2>1. \A r \in Requests : /\ req[r].listed = <<>> /\ req[r].before = {}
                            /\ req[r].pc \in {"idle", "unmade"}
    BY DEF Init, Rest
  <2>. QED  BY <2>1 DEF Pages, Paged
<1>2. Typed /\ Pages => ListingComplete
  <2>. SUFFICES ASSUME Typed, Pages, NEW r \in Requests, Call[r].kind = "list", At(r, "ok"),
                       NEW t \in req[r].before
                PROVE  Cardinality({i \in DOMAIN req[r].listed : req[r].listed[i] = t}) = 1
    BY DEF ListingComplete
  <2>1. Paged(req[r], Revised(File(r))) /\ req[r].pc = "ok"
    BY DEF Pages, At
  <2>2. PICK i \in DOMAIN req[r].listed : req[r].listed[i] = t
    BY <2>1 DEF Paged
  <2>3. {j \in DOMAIN req[r].listed : req[r].listed[j] = t} = {i}
    BY <2>1, <2>2 DEF Paged
  <2>. QED  BY <2>3, FS_Singleton
<1>. QED  BY <1>1, <1>2, InitTyped, StepTyped, PagesStep, PTL DEF Spec
-----------------------------------------------------------------------------
\* Undoing

\* The revisions of a field.
Revs(f, x) == {t \in Revised(f) : revisions[f][t].field = x}

\* A patch that has written the contents and not yet what undoes it.
Pending(r, f) == At(r, "revision") /\ File(r) = f

\* The earliest revision of a field keeps what was uploaded; where there is
\* none the contents do, or the patch that is about to write the first.
Keeps(f, x) ==
    /\ \A t \in Revs(f, x) :
          (\A u \in Revs(f, x) : t <= u) => revisions[f][t].old = origin[f][x]
    /\ (Revs(f, x) = {} /\ ~\E r \in Requests : Pending(r, f) /\ Call[r].field = x) =>
          contents[f].value[x] = origin[f][x]
    /\ \A r \in Requests :
          (Revs(f, x) = {} /\ Pending(r, f) /\ Call[r].field = x) =>
              Undo(r).old = origin[f][x]

\* Revisions are as old as their times say.
InOrder(f) ==
    /\ \A t \in Revised(f) : t <= clock
    /\ \A r \in Requests : Pending(r, f) =>
          req[r].time <= clock /\ \A t \in Revised(f) : t <= req[r].time

Reversible(f) ==
    /\ contents[f] = NoContents => Revised(f) = {} /\ \A r \in Requests : ~Pending(r, f)
    /\ contents[f] # NoContents => origin[f] \in Value /\ \A x \in Fields : Keeps(f, x)
    /\ InOrder(f)

Restorable == \A f \in Files \ disturbed : Reversible(f)

\* A file that keeps its value, its revisions and its pending patch stays
\* reversible.
LEMMA SameFile ==
    ASSUME Typed, Typed', NEW f \in Files, Reversible(f),
           clock <= clock', revisions'[f] = revisions[f], origin'[f] = origin[f],
           contents'[f] = NoContents <=> contents[f] = NoContents,
           contents[f] # NoContents => contents'[f].value = contents[f].value,
           \A q \in Requests : File(q) = f =>
              /\ At(q, "revision")' <=> At(q, "revision")
              /\ At(q, "revision") => req'[q].time = req[q].time /\ req'[q].got = req[q].got
    PROVE  Reversible(f)'
<1>1. /\ Revised(f)' = Revised(f)
      /\ \A x \in Fields : Revs(f, x)' = Revs(f, x)
  BY DEF Revs, Revised
<1>2. \A q \in Requests : /\ Pending(q, f)' <=> Pending(q, f)
                          /\ Pending(q, f) => /\ req'[q].time = req[q].time
                                              /\ Undo(q)' = Undo(q)
  BY DEF Pending, File, Undo
<1>3. ASSUME NEW x \in Fields, contents[f] # NoContents PROVE Keeps(f, x)'
  <2>1. Keeps(f, x)
    BY <1>3 DEF Reversible
  <2>2. contents'[f].value[x] = contents[f].value[x] /\ origin'[f][x] = origin[f][x]
    BY <1>3
  <2>3. \A t \in Revs(f, x) : revisions'[f][t].old = revisions[f][t].old
    OBVIOUS
  <2>. QED  BY <1>1, <1>2, <2>1, <2>2, <2>3 DEF Keeps
<1>4. InOrder(f)'
  <2>1. /\ clock \in Nat /\ clock' \in Nat /\ Revised(f) \subseteq Nat
        /\ \A q \in Requests : req[q].time \in Nat
    BY BoundsTyped DEF Typed, TypeOK, Times, Revised, RequestState
  <2>2. InOrder(f)
    BY DEF Reversible
  <2>3. \A t \in Revised(f) : t <= clock'
    BY <2>1, <2>2 DEF InOrder
  <2>4. ASSUME NEW q \in Requests, Pending(q, f)'
        PROVE  req'[q].time <= clock' /\ \A t \in Revised(f) : t <= req'[q].time
    BY <1>2, <2>1, <2>2, <2>4 DEF InOrder
  <2>. QED  BY <1>1, <2>3, <2>4 DEF InOrder
<1>. QED  BY <1>1, <1>2, <1>3, <1>4 DEF Reversible

\* So do all, when nothing is written and no patch comes or goes.
LEMMA Unmoved ==
    ASSUME Typed, Typed', Restorable, clock <= clock', disturbed \subseteq disturbed',
           UNCHANGED <<contents, revisions, origin>>,
           \A q \in Requests : File(q) \notin disturbed' =>
              /\ At(q, "revision")' <=> At(q, "revision")
              /\ At(q, "revision") => req'[q].time = req[q].time /\ req'[q].got = req[q].got
    PROVE  Restorable'
<1>. SUFFICES ASSUME NEW f \in Files \ disturbed' PROVE Reversible(f)'
  BY DEF Restorable
<1>1. Reversible(f)
  BY DEF Restorable
<1>. QED  BY <1>1, SameFile

\* While a writer is served no other patch of its file is pending.
LEMMA NoOtherPending ==
    ASSUME Typed, Apart, NEW r \in Requests, NEW q \in Requests \ {r},
           Writes(r), req[r].pc \in Busy, File(r) \notin disturbed
    PROVE  ~Pending(q, File(r))
<1>. SUFFICES ASSUME Pending(q, File(r)) PROVE FALSE
  OBVIOUS
<1>1. req[q].pc = "revision" /\ File(q) = File(r)
  BY DEF Pending, At
<1>2. Writes(q) /\ req[q].pc \in Busy
  BY <1>1 DEF Typed, OnTrack, Fits, Writes, Busy
<1>. QED  BY <1>1, <1>2 DEF Apart

\* A patch changes one field, whose revision it is about to write.
LEMMA PatchReversible ==
    ASSUME Typed, Typed', Whole, NEW r \in Requests, PutContents(r), Call[r].kind = "patch",
           File(r) \notin disturbed', Reversible(File(r))
    PROVE  Reversible(File(r))'
<1>. DEFINE f == File(r)
            y == Call[r].field
<1>1. /\ req \in [Requests -> RequestState] /\ req[r] \in RequestState /\ Fits(r, req[r])
      /\ req[r].pc = "put" /\ f \in Files /\ req[r].got \in Contents /\ y \in Fields
      /\ UNCHANGED <<revisions, clock, origin>>
      /\ contents \in [Files -> Contents \cup {NoContents}]
  BY CallTypes DEF Typed, TypeOK, OnTrack, PutContents, At, Fits
<1>2. f \notin disturbed /\ Apart /\ Writes(r) /\ req[r].pc \in Busy
  BY <1>1, OneServed DEF Serve, Whole, Writes, Busy
<1>3. req[r].got = contents[f]
  BY <1>1, <1>2 DEF Whole, Held
<1>4. /\ contents'[f] = Applied(req[r].got, y, Call[r].new)
      /\ req'[r].pc = "revision" /\ req'[r].time = clock /\ req'[r].got = req[r].got
      /\ \A q \in Requests \ {r} : req'[q] = req[q]
  <2>1. contents' = [contents EXCEPT ![f] = Applied(req[r].got, y, Call[r].new)]
    BY DEF PutContents
  <2>2. req' = [req EXCEPT ![r].pc = "revision", ![r].time = clock, ![r].changed = TRUE]
    BY DEF PutContents
  <2>3. req' = [req EXCEPT ![r] = [req[r] EXCEPT !.pc = "revision", !.time = clock, !.changed = TRUE]]
    BY <1>1, <2>2
  <2>. QED  BY <1>1, <2>1, <2>3 DEF RequestState
<1>5. /\ contents[f] # NoContents /\ contents'[f] # NoContents
      /\ \A x \in Fields \ {y} : contents'[f].value[x] = contents[f].value[x]
  <2>1. contents[f].value \in Value
    BY <1>1, <1>3, ContentsTypes
  <2>2. contents'[f].value = [contents[f].value EXCEPT ![y] = Call[r].new]
    BY <1>1, <1>3, <1>4 DEF Applied, Contents
  <2>3. contents'[f] \in Contents
    BY <1>1, <1>4, AppliedTyped, CallTypes
  <2>4. contents[f] # NoContents /\ contents'[f] # NoContents
    BY <1>1, <1>3, <2>3, ContentsTypes
  <2>5. \A x \in Fields \ {y} : contents'[f].value[x] = contents[f].value[x]
    <3>. DEFINE v == contents[f].value
                w == contents'[f].value
    <3>1. v \in Value /\ w = [v EXCEPT ![y] = Call[r].new]
      BY <2>1, <2>2
    <3>. HIDE DEF v, w, y
    <3>. QED  BY <3>1 DEF Value, v, w
  <2>. QED  BY <2>4, <2>5
<1>6. \A q \in Requests : ~Pending(q, f)
  <2>1. ~Pending(r, f)
    BY <1>1 DEF Pending, At
  <2>. QED  BY <1>2, <2>1, NoOtherPending DEF Whole
<1>7. /\ Revised(f)' = Revised(f)
      /\ \A x \in Fields : Revs(f, x)' = Revs(f, x)
  BY <1>1 DEF Revs, Revised, File
<1>8. \A q \in Requests : Pending(q, f)' => q = r
  BY <1>4, <1>6 DEF Pending, At, File
<1>9. Undo(r)'.old = contents[f].value[y]
  BY <1>3, <1>4 DEF Undo
<1>10. ASSUME NEW x \in Fields PROVE Keeps(f, x)'
  <2>1. Keeps(f, x)
    BY <1>5 DEF Reversible
  <2>2. Revs(f, x) = {} => contents[f].value[x] = origin[f][x]
    BY <1>6, <2>1 DEF Keeps
  <2>3. \A t \in Revs(f, x) :
           (\A u \in Revs(f, x) : t <= u) => revisions[f][t].old = origin[f][x]
    BY <2>1 DEF Keeps
  <2>4. Pending(r, f)'
    BY <1>4 DEF Pending, At, File
  <2>5. (Revs(f, x) = {} /\ ~\E q \in Requests : Pending(q, f)' /\ Call[q].field = x) =>
           contents'[f].value[x] = origin[f][x]
    BY <1>5, <2>2, <2>4
  <2>6. \A q \in Requests : (Revs(f, x) = {} /\ Pending(q, f)' /\ Call[q].field = x) =>
           Undo(q)'.old = origin[f][x]
    BY <1>8, <1>9, <2>2
  <2>. HIDE DEF f
  <2>. QED  BY <1>1, <1>7, <2>3, <2>5, <2>6 DEF Keeps
<1>11. InOrder(f)'
  <2>1. clock \in Nat
    BY BoundsTyped DEF Typed, TypeOK, Times
  <2>2. \A t \in Revised(f) : t <= clock
    BY DEF Reversible, InOrder
  <2>3. \A q \in Requests : Pending(q, f)' => req'[q].time = clock
    BY <1>4, <1>8
  <2>. HIDE DEF f
  <2>. QED  BY <1>1, <1>7, <2>1, <2>2, <2>3 DEF InOrder
<1>12. origin[f] \in Value
  BY <1>5 DEF Reversible
<1>. HIDE DEF f
<1>13. Reversible(f)'
  BY <1>1, <1>5, <1>10, <1>11, <1>12 DEF Reversible
<1>. QED  BY <1>13 DEF f, File

\* What is uploaded is there at once, over nothing.
LEMMA UploadReversible ==
    ASSUME Typed, Typed', Whole, NEW r \in Requests, PutContents(r), Call[r].kind = "upload",
           File(r) \notin disturbed', Reversible(File(r))
    PROVE  Reversible(File(r))'
<1>. DEFINE f == File(r)
<1>1. /\ req \in [Requests -> RequestState] /\ req[r] \in RequestState /\ Fits(r, req[r])
      /\ req[r].pc = "put" /\ f \in Files /\ UNCHANGED <<revisions, clock>>
      /\ contents \in [Files -> Contents \cup {NoContents}]
      /\ origin \in [Files -> Value \cup {NoContents}]
  BY CallTypes DEF Typed, TypeOK, OnTrack, PutContents, At
<1>2. f \notin disturbed /\ Apart /\ Writes(r) /\ req[r].pc \in Busy
  BY <1>1, OneServed DEF Serve, Whole, Writes, Busy
<1>3. contents[f] = NoContents
  <2>1. CASE Call[r].typed
    BY <1>1, <1>2, <2>1 DEF Whole, Held
  <2>2. CASE ~Call[r].typed
    BY <1>1, <2>2 DEF PutContents
  <2>. QED  BY <2>1, <2>2
<1>4. Revised(f) = {} /\ \A q \in Requests : ~Pending(q, f)
  BY <1>3 DEF Reversible
<1>5. /\ contents'[f] = [value |-> Call[r].value, deleted |-> FALSE]
      /\ origin'[f] = Call[r].value
  BY <1>1 DEF PutContents, Fits
<1>6. /\ contents'[f] # NoContents /\ contents'[f].value = origin'[f] /\ origin'[f] \in Value
  <2>1. Call[r].value \in Value /\ contents'[f] \in Contents
    <3>1. Call[r].value \in Value
      BY CallTypes
    <3>2. [value |-> Call[r].value, deleted |-> FALSE] \in Contents
      BY <3>1, ContentsTypes
    <3>. QED  BY <1>5, <3>1, <3>2
  <2>2. contents'[f] # NoContents
    BY <2>1, ContentsTypes
  <2>. HIDE DEF f
  <2>. QED  BY <1>5, <2>1, <2>2
<1>7. \A q \in Requests : ~Pending(q, f)'
  <2>1. req'[r].pc = "ok"
    BY <1>1 DEF PutContents, Answer, RequestState
  <2>2. \A q \in Requests \ {r} : req'[q] = req[q]
    BY OneServed DEF Serve
  <2>. QED  BY <1>4, <2>1, <2>2 DEF Pending, At, File
<1>8. Revised(f)' = {} /\ \A x \in Fields : Revs(f, x)' = {}
  BY <1>1, <1>4 DEF Revs, Revised, File
<1>9. \A x \in Fields : Keeps(f, x)'
  <2>. HIDE DEF f
  <2>. QED  BY <1>6, <1>7, <1>8 DEF Keeps
<1>10. InOrder(f)'
  <2>. HIDE DEF f
  <2>. QED  BY <1>7, <1>8 DEF InOrder
<1>. HIDE DEF f
<1>11. Reversible(f)'
  BY <1>6, <1>7, <1>9, <1>10 DEF Reversible
<1>. QED  BY <1>11 DEF f, File

\* A delete marks the contents and keeps their value.
LEMMA DeleteReversible ==
    ASSUME Typed, Typed', Whole, NEW r \in Requests, PutContents(r), Call[r].kind = "delete",
           File(r) \notin disturbed', Reversible(File(r))
    PROVE  Reversible(File(r))'
<1>. DEFINE f == File(r)
<1>1. /\ req \in [Requests -> RequestState] /\ req[r] \in RequestState
      /\ req[r].pc = "put" /\ f \in Files /\ UNCHANGED <<revisions, clock, origin>>
      /\ contents \in [Files -> Contents \cup {NoContents}]
  BY CallTypes DEF Typed, TypeOK, PutContents, At
<1>2. f \notin disturbed
  BY OneServed DEF Serve
<1>3. contents[f] # NoContents /\ req[r].got = [contents[f] EXCEPT !.deleted = TRUE]
  BY <1>1, <1>2 DEF Whole, Held
<1>4. contents'[f] = [contents[f] EXCEPT !.deleted = TRUE]
  BY <1>1, <1>3 DEF PutContents
<1>5. contents'[f] # NoContents /\ contents'[f].value = contents[f].value
  BY <1>1, <1>3, <1>4, ContentsTypes
<1>6. req'[r].pc = "ok" /\ \A q \in Requests \ {r} : req'[q] = req[q]
  <2>1. req'[r].pc = "ok"
    BY <1>1 DEF PutContents, Answer, RequestState
  <2>. QED  BY <2>1, OneServed DEF Serve
<1>7. \A q \in Requests : File(q) = f =>
         /\ At(q, "revision")' <=> At(q, "revision")
         /\ At(q, "revision") => req'[q].time = req[q].time /\ req'[q].got = req[q].got
  BY <1>1, <1>6 DEF At
<1>8. clock <= clock'
  BY <1>1, BoundsTyped DEF Typed, TypeOK, Times
<1>. HIDE DEF f
<1>9. Reversible(f)'
  BY <1>1, <1>3, <1>5, <1>7, <1>8, SameFile DEF f
<1>. QED  BY <1>9 DEF f, File

LEMMA PutContentsReversible ==
    ASSUME Typed, Typed', Whole, Restorable, NEW r \in Requests, PutContents(r)
    PROVE  Restorable'
<1>. SUFFICES ASSUME NEW f \in Files \ disturbed' PROVE Reversible(f)'
  BY DEF Restorable
<1>1. Reversible(f) /\ Fits(r, req[r]) /\ req[r].pc = "put"
  BY OneServed DEF Serve, Restorable, PutContents, At, Typed, OnTrack
<1>2. CASE f = File(r)
  <2>1. Reversible(File(r))'
    BY <1>1, <1>2, PatchReversible, UploadReversible, DeleteReversible DEF Fits
  <2>. QED  BY <1>2, <2>1 DEF File
<1>3. CASE f # File(r)
  <2>1. /\ contents'[f] = contents[f] /\ origin'[f] = origin[f]
        /\ UNCHANGED <<revisions, clock>> /\ clock \in Nat
    BY <1>3, BoundsTyped DEF PutContents, Typed, TypeOK, Times
  <2>2. \A q \in Requests : File(q) = f => req'[q] = req[q]
    BY <1>3, OneServed DEF Serve
  <2>3. clock <= clock'
    BY <2>1
  <2>. QED  BY <1>1, <2>1, <2>2, <2>3, SameFile DEF At
<1>. QED  BY <1>2, <1>3

\* The revision that a patch writes is the newest, and of what its field was.
LEMMA PutRevisionReversible ==
    ASSUME Typed, Typed', Whole, Restorable, NEW r \in Requests, PutRevision(r)
    PROVE  Restorable'
<1>. SUFFICES ASSUME NEW f \in Files \ disturbed' PROVE Reversible(f)'
  BY DEF Restorable
<1>. DEFINE t0 == req[r].time
            y == Call[r].field
<1>1. /\ f \notin disturbed /\ Reversible(f) /\ Fits(r, req[r]) /\ req[r].pc = "revision"
      /\ \A q \in Requests \ {r} : req'[q] = req[q]
      /\ UNCHANGED <<contents, clock, origin>> /\ clock \in Nat
      /\ req \in [Requests -> RequestState] /\ req[r] \in RequestState
      /\ revisions \in [Files -> [Times -> Revision \cup {NoRevision}]]
  <2>1. /\ req \in [Requests -> RequestState] /\ Fits(r, req[r])
        /\ revisions \in [Files -> [Times -> Revision \cup {NoRevision}]]
        /\ clock \in Nat
    BY BoundsTyped DEF Typed, TypeOK, OnTrack, Times
  <2>2. disturbed \subseteq disturbed' /\ \A q \in Requests \ {r} : req'[q] = req[q]
    BY OneServed DEF Serve
  <2>3. Reversible(f)
    BY <2>2 DEF Restorable
  <2>. QED  BY <2>1, <2>2, <2>3 DEF PutRevision, At
<1>2. /\ Undo(r) \in Revision /\ Undo(r) # NoRevision /\ Undo(r).field = y
      /\ t0 \in Times /\ File(r) \in Files
  BY <1>1, UndoTyped
<1>3. revisions' = [revisions EXCEPT ![File(r)][t0] = Undo(r)]
  BY DEF PutRevision
<1>4. clock <= clock'
  BY <1>1
<1>5. CASE f # File(r)
  <2>1. revisions'[f] = revisions[f]
    BY <1>1, <1>3, <1>5
  <2>2. \A q \in Requests : File(q) = f => req'[q] = req[q]
    BY <1>1, <1>5
  <2>. QED  BY <1>1, <1>4, <2>1, <2>2, SameFile DEF At
<1>6. CASE f = File(r)
  <2>. HIDE DEF t0, y
  <2>1. revisions[f][t0] = NoRevision
    BY <1>6 DEF PutRevision, t0
  <2>2. /\ revisions'[f][t0] = Undo(r)
        /\ \A t \in Times \ {t0} : revisions'[f][t] = revisions[f][t]
    BY <1>1, <1>2, <1>3, <1>6
  <2>3. Revised(f)' = Revised(f) \cup {t0} /\ t0 \notin Revised(f)
    BY <1>2, <2>1, <2>2 DEF Revised
  <2>4. /\ Revs(f, y)' = Revs(f, y) \cup {t0}
        /\ \A x \in Fields \ {y} : Revs(f, x)' = Revs(f, x)
    <3>1. revisions'[f][t0].field = y
      BY <1>2, <2>2
    <3>2. \A t \in Revised(f) : revisions'[f][t] = revisions[f][t]
      BY <2>2, <2>3 DEF Revised
    <3>3. /\ Revs(f, y)' = {t \in Revised(f) \cup {t0} : revisions'[f][t].field = y}
          /\ \A x \in Fields : Revs(f, x)' = {t \in Revised(f) \cup {t0} : revisions'[f][t].field = x}
      BY <2>3 DEF Revs
    <3>. QED  BY <3>1, <3>2, <3>3 DEF Revs
  <2>5. Pending(r, f) /\ \A q \in Requests \ {r} : ~Pending(q, f)
    <3>1. Pending(r, f)
      BY <1>1, <1>6 DEF Pending, At
    <3>2. Writes(r) /\ req[r].pc \in Busy /\ Apart
      BY <1>1 DEF Fits, Writes, Busy, Whole
    <3>. QED  BY <1>1, <1>6, <3>1, <3>2, NoOtherPending
  <2>6. \A q \in Requests : ~Pending(q, f)'
    <3>1. req'[r].pc = "recheck"
      BY <1>1 DEF PutRevision, Goto, RequestState
    <3>. QED  BY <1>1, <2>5, <3>1 DEF Pending, At, File
  <2>7. contents[f] # NoContents /\ origin[f] \in Value
    BY <1>1, <2>5 DEF Reversible
  <2>8. t0 <= clock /\ \A t \in Revised(f) : t <= clock /\ t < t0
    <3>1. t0 <= clock /\ \A t \in Revised(f) : t <= clock /\ t <= t0
      BY <1>1, <2>5 DEF Reversible, InOrder, t0
    <3>2. t0 \in Nat /\ Revised(f) \subseteq Nat
      BY <1>2, BoundsTyped DEF Revised, Times
    <3>. QED  BY <2>3, <3>1, <3>2
  <2>9. InOrder(f)'
    BY <1>1, <2>3, <2>6, <2>8 DEF InOrder
  <2>10. ASSUME NEW x \in Fields \ {y} PROVE Keeps(f, x)'
    <3>1. Keeps(f, x)
      BY <1>1, <2>7 DEF Reversible
    <3>2. \A t \in Revs(f, x) : revisions'[f][t] = revisions[f][t]
      BY <2>2, <2>3 DEF Revs, Revised
    <3>3. ~\E q \in Requests : Pending(q, f) /\ Call[q].field = x
      BY <2>5, <2>10 DEF y
    <3>. QED  BY <1>1, <2>4, <2>6, <2>10, <3>1, <3>2, <3>3 DEF Keeps
  <2>11. Keeps(f, y)'
    <3>1. Keeps(f, y) /\ y \in Fields
      BY <1>1, <2>7, CallTypes DEF Reversible, y
    <3>2. \A t \in Revs(f, y) : revisions'[f][t] = revisions[f][t] /\ t < t0 /\ t \in Nat
      BY <2>2, <2>3, <2>8, BoundsTyped DEF Revs, Revised, Times
    <3>3. Revs(f, y) = {} => Undo(r).old = origin[f][y]
      BY <2>5, <3>1 DEF Keeps, y
    <3>4. t0 \in Nat
      BY <1>2, BoundsTyped DEF Times
    <3>5. ASSUME NEW t \in Revs(f, y)', \A u \in Revs(f, y)' : t <= u
          PROVE  revisions'[f][t].old = origin[f][y]
      <4>1. CASE t \in Revs(f, y)
        BY <2>4, <3>1, <3>2, <3>5, <4>1 DEF Keeps
      <4>2. CASE t = t0 /\ Revs(f, y) = {}
        BY <2>2, <3>3, <4>2
      <4>3. CASE t = t0 /\ Revs(f, y) # {}
        <5>1. PICK u \in Revs(f, y) : u < t0 /\ u \in Nat
          BY <3>2, <4>3
        <5>. QED  BY <2>4, <3>4, <3>5, <4>3, <5>1
      <4>. QED  BY <2>4, <3>5, <4>1, <4>2, <4>3
    <3>. QED  BY <1>1, <2>4, <2>6, <3>5 DEF Keeps
  <2>. QED  BY <1>1, <2>6, <2>7, <2>9, <2>10, <2>11 DEF Reversible
<1>. QED  BY <1>5, <1>6

LEMMA RestorableStep == Typed /\ Typed' /\ Whole /\ Restorable /\ [Next]_vars => Restorable'
<1>. SUFFICES ASSUME Typed, Typed', Whole, Restorable, [Next]_vars PROVE Restorable'
  OBVIOUS
<1>0. /\ clock \in Nat /\ req \in [Requests -> RequestState]
      /\ \A q \in Requests : req[q] \in RequestState
  BY BoundsTyped DEF Typed, TypeOK, Times
<1>1. ASSUME NEW r \in Requests, Begin(r) \/ Serve(r), ~PutContents(r), ~PutRevision(r)
      PROVE  Restorable'
  <2>1. UNCHANGED <<contents, revisions, clock, origin>>
    BY <1>1 DEF Begin, Serve, ReadFile, CheckAccess, CheckFree, ReadContents, Recheck,
       PutFile, Authorise, GetFile, AddToBin, Mark, Page, stores, histories
  <2>2. disturbed \subseteq disturbed' /\ \A q \in Requests \ {r} : req'[q] = req[q]
    BY <1>1, OneServed
  <2>3. ~At(r, "revision") /\ ~At(r, "revision")'
    <3>1. ~At(r, "revision")
      BY <1>1 DEF Begin, Serve, ReadFile, CheckAccess, CheckFree, ReadContents, Recheck,
         PutFile, Authorise, GetFile, AddToBin, Mark, Page, At
    <3>2. req'[r].pc # "revision"
      <4>1. CASE Begin(r)
        BY <1>0, <4>1 DEF Begin, RequestState
      <4>2. CASE ReadFile(r) \/ CheckFree(r)
        BY <1>0, <4>2 DEF ReadFile, CheckFree, Answer, Goto, RequestState
      <4>6. CASE CheckAccess(r)
        <5>1. CASE Answer(r, "denied")
          BY <1>0, <5>1 DEF Answer, RequestState
        <5>2. CASE Goto(r, "page") \/ Goto(r, "free")
          BY <1>0, <5>2 DEF Goto, RequestState
        <5>3. CASE req' = [req EXCEPT ![r].pc = "put",
                                      ![r].got = [value |-> Call[r].value, deleted |-> FALSE]]
          BY <1>0, <5>3 DEF RequestState
        <5>. QED  BY <4>6, <5>1, <5>2, <5>3 DEF CheckAccess
      <4>3. CASE ReadContents(r)
        <5>1. CASE \E code \in Answers : Answer(r, code)
          BY <5>1, AnswerBecomes DEF Answers
        <5>2. CASE \E c : \E pc \in {"put", "rebin"} : req' = [req EXCEPT ![r] =
                                              [req[r] EXCEPT !.pc = pc, !.got = c]]
          BY <1>0, <5>2 DEF RequestState
        <5>3. (\E code \in Answers : Answer(r, code))
              \/ \E c : \E pc \in {"put", "rebin"} : req' = [req EXCEPT ![r] =
                                              [req[r] EXCEPT !.pc = pc, !.got = c]]
          BY <4>3, ReadOutcomes DEF Answers
        <5>. QED  BY <5>1, <5>2, <5>3
      <4>4. CASE Recheck(r) \/ PutFile(r) \/ Authorise(r) \/ GetFile(r) \/ AddToBin(r) \/ Mark(r)
        BY <1>0, <4>4 DEF Recheck, PutFile, Authorise, GetFile, AddToBin, Mark, Answer, Goto, RequestState
      <4>5. CASE Page(r)
        <5>1. CASE Answer(r, "ok")
          BY <1>0, <5>1 DEF Answer, RequestState
        <5>2. CASE \E newest : req' = [req EXCEPT ![r].pc = "check", ![r].time = newest,
                                                  ![r].listed = Append(@, newest)]
          BY <1>0, <5>2 DEF RequestState
        <5>. QED  BY <4>5, <5>1, <5>2 DEF Page
      <4>. QED  BY <1>1, <4>1, <4>2, <4>3, <4>4, <4>5, <4>6 DEF Serve
    <3>. QED  BY <3>1, <3>2 DEF At
  <2>4. clock <= clock'
    BY <1>0, <2>1
  <2>. QED  BY <2>1, <2>2, <2>3, <2>4, Unmoved DEF At
<1>2. ASSUME NEW r \in Requests, PutContents(r) \/ PutRevision(r) PROVE Restorable'
  BY <1>2, PutContentsReversible, PutRevisionReversible
<1>3. CASE Tick
  <2>1. clock <= clock' /\ UNCHANGED <<stores, req, histories>>
    BY <1>0, <1>3 DEF Tick
  <2>. QED  BY <2>1, Unmoved DEF stores, histories, At
<1>4. CASE Crash
  <2>1. clock' = clock /\ UNCHANGED <<stores, origin>> /\ disturbed \subseteq disturbed'
    BY <1>4 DEF Crash
  <2>2. ASSUME NEW q \in Requests, File(q) \notin disturbed'
        PROVE  ~At(q, "revision") /\ ~At(q, "revision")'
    <3>1. ~At(q, "revision")
      BY <1>4, <2>2 DEF Crash, InFlight, At, Busy
    <3>. QED  BY <1>4, <3>1, CrashTyped DEF At
  <2>3. clock <= clock'
    BY <1>0, <2>1
  <2>. QED  BY <2>1, <2>2, <2>3, Unmoved DEF stores
<1>5. CASE UNCHANGED vars
  <2>1. clock <= clock'
    BY <1>0, <1>5 DEF vars
  <2>. QED  BY <1>5, <2>1, Unmoved DEF vars, At
<1>. QED  BY <1>1, <1>2, <1>3, <1>4, <1>5 DEF Next, Quiet

\* The value of a field once its revisions of time t and later are undone: the
\* earliest of them decides, and the contents where there is none.
From(f, x, t) == {u \in Revs(f, x) : t <= u}
Earliest(S) == CHOOSE t \in S : \A u \in S : t <= u
Back(f, x, t) == IF From(f, x, t) = {} THEN contents[f].value[x]
                 ELSE revisions[f][Earliest(From(f, x, t))].old
BackTo(f) == [t \in 1..(MaxTime + 1) |-> [x \in Fields |-> Back(f, x, t)]]

LEMMA EarliestIs ==
    \A S \in SUBSET Nat : S # {} => Earliest(S) \in S /\ \A u \in S : Earliest(S) <= u
<1>. SUFFICES ASSUME NEW S \in SUBSET Nat, S # {}
              PROVE  \E t \in S : \A u \in S : t <= u
  BY DEF Earliest
<1>1. PICK t \in S : \A u \in S : ~(<<u, t>> \in OpToRel(<, Nat))
  BY NatLessThanWellFounded, WFMin
<1>2. \A u \in S : ~(u < t)
  BY <1>1 DEF OpToRel
<1>3. \A u \in S : t <= u
  <2>1. S \subseteq Nat
    OBVIOUS
  <2>. QED  BY <1>2, <2>1
<1>. QED  BY <1>3

\* What undoing the revisions from t on makes of what undoing the later ones left.
UndoAt(f, t, v) == IF revisions[f][t] = NoRevision THEN v
                   ELSE [v EXCEPT ![revisions[f][t].field] = revisions[f][t].old]
Undoes(f, g) == g = [t \in 1..(MaxTime + 1) |-> IF t > MaxTime THEN contents[f].value
                                                ELSE UndoAt(f, t, g[t + 1])]

LEMMA UndoneIs == \A f \in Files : UndoneFrom(f) = CHOOSE g : Undoes(f, g)
<1>. TAKE f \in Files
<1>. DEFINE Body(g) == [t \in 1..(MaxTime + 1) |->
                IF t > MaxTime THEN contents[f].value
                ELSE IF revisions[f][t] = NoRevision THEN g[t + 1]
                ELSE [g[t + 1] EXCEPT ![revisions[f][t].field] = revisions[f][t].old]]
<1>1. UndoneFrom(f) = CHOOSE g : g = Body(g)
  BY DEF UndoneFrom
<1>2. \A g : Body(g) = [t \in 1..(MaxTime + 1) |-> IF t > MaxTime THEN contents[f].value
                                                ELSE UndoAt(f, t, g[t + 1])]
  BY DEF UndoAt
<1>3. (CHOOSE g : g = Body(g)) = CHOOSE g : Undoes(f, g)
  BY <1>2 DEF Undoes
<1>. QED  BY <1>1, <1>3

\* Undoing the revision of time t gives what the earliest from t on decides.
LEMMA BackStep ==
    ASSUME Typed, NEW f \in Files, NEW t \in Times, contents[f] # NoContents
    PROVE  /\ BackTo(f)[t] = UndoAt(f, t, BackTo(f)[t + 1])
           /\ BackTo(f)[MaxTime + 1] = contents[f].value
<1>. DEFINE rev == revisions[f][t]
<1>1. /\ t \in 1..(MaxTime + 1) /\ t + 1 \in 1..(MaxTime + 1) /\ MaxTime + 1 \in 1..(MaxTime + 1)
      /\ t \in Nat /\ Times \subseteq Nat
  BY BoundsTyped DEF Times
<1>2. \A x \in Fields, n \in Nat : From(f, x, n) \in SUBSET Nat
  BY <1>1 DEF From, Revs, Revised
<1>3. /\ rev \in Revision \cup {NoRevision} /\ contents[f] \in Contents
  BY DEF Typed, TypeOK
<1>4. \A x \in Fields, n \in 1..(MaxTime + 1) : BackTo(f)[n][x] = Back(f, x, n)
  BY DEF BackTo
<1>5. BackTo(f)[MaxTime + 1] = contents[f].value
  <2>1. contents[f].value \in Value
    BY <1>3, ContentsTypes
  <2>2. ASSUME NEW x \in Fields PROVE Back(f, x, MaxTime + 1) = contents[f].value[x]
    <3>1. \A u \in Times : ~(MaxTime + 1 <= u)
      BY BoundsTyped DEF Times
    <3>2. From(f, x, MaxTime + 1) = {}
      BY <3>1 DEF From, Revs, Revised
    <3>. QED  BY <3>2 DEF Back
  <2>3. BackTo(f)[MaxTime + 1] = [x \in Fields |-> contents[f].value[x]]
    BY <1>1, <2>2 DEF BackTo
  <2>. QED  BY <2>1, <2>3 DEF Value
<1>6. \A x \in Fields : From(f, x, t) = From(f, x, t + 1) \cup
                               (IF rev # NoRevision /\ rev.field = x THEN {t} ELSE {})
  <2>. TAKE x \in Fields
  <2>1. \A u \in Times : t <= u <=> (t + 1 <= u \/ u = t)
    BY <1>1
  <2>2. Revs(f, x) \subseteq Times /\ (t \in Revs(f, x) <=> rev # NoRevision /\ rev.field = x)
    BY DEF Revs, Revised
  <2>3. \A u : u \in From(f, x, t) <=>
                  u \in From(f, x, t + 1) \/ (u = t /\ rev # NoRevision /\ rev.field = x)
    <3>. HIDE DEF rev
    <3>. QED  BY <2>1, <2>2 DEF From
  <2>. HIDE DEF rev
  <2>. QED  BY <2>3
<1>7. ASSUME NEW x \in Fields, ~(rev # NoRevision /\ rev.field = x)
      PROVE  Back(f, x, t) = Back(f, x, t + 1)
  <2>1. From(f, x, t) = From(f, x, t + 1)
    BY <1>6, <1>7
  <2>. QED  BY <2>1 DEF Back
<1>8. ASSUME rev # NoRevision PROVE Back(f, rev.field, t) = rev.old
  <2>1. rev.field \in Fields
    BY <1>3, <1>8 DEF Revision
  <2>. DEFINE S == From(f, rev.field, t)
  <2>2. t \in S /\ S \in SUBSET Nat
    BY <1>1, <1>2, <1>6, <1>8, <2>1
  <2>3. \A u \in S : t <= u
    BY DEF From
  <2>4. Earliest(S) = t
    <3>. HIDE DEF S
    <3>1. Earliest(S) \in S /\ Earliest(S) <= t
      BY <2>2, EarliestIs
    <3>2. Earliest(S) \in Nat /\ t <= Earliest(S)
      BY <2>2, <2>3, <3>1
    <3>. QED  BY <1>1, <3>1, <3>2
  <2>. QED  BY <2>2, <2>4 DEF Back
<1>9. BackTo(f)[t] = UndoAt(f, t, BackTo(f)[t + 1])
  <2>1. BackTo(f)[t] = [x \in Fields |-> Back(f, x, t)]
        /\ BackTo(f)[t + 1] = [x \in Fields |-> Back(f, x, t + 1)]
    BY <1>1 DEF BackTo
  <2>2. CASE rev = NoRevision
    BY <1>7, <2>1, <2>2 DEF UndoAt
  <2>3. CASE rev # NoRevision
    <3>1. rev.field \in Fields
      BY <1>3, <2>3 DEF Revision
    <3>2. UndoAt(f, t, BackTo(f)[t + 1])
             = [[x \in Fields |-> Back(f, x, t + 1)] EXCEPT ![rev.field] = rev.old]
      BY <2>1, <2>3 DEF UndoAt
    <3>3. Back(f, rev.field, t) = rev.old
      BY <1>8, <2>3
    <3>4. \A x \in Fields : x # rev.field => Back(f, x, t) = Back(f, x, t + 1)
      BY <1>7
    <3>. HIDE DEF rev
    <3>. QED  BY <2>1, <3>1, <3>2, <3>3, <3>4
  <2>. QED  BY <2>2, <2>3
<1>. QED  BY <1>5, <1>9

\* One function only undoes all, by the least number of revisions on which two
\* would differ.
LEMMA UndoneOnce ==
    ASSUME NEW f \in Files, NEW g, NEW h, Undoes(f, g), Undoes(f, h)
    PROVE  g[1] = h[1]
<1>. DEFINE N == MaxTime + 1
            S == {n \in 0..MaxTime : g[N - n] # h[N - n]}
<1>1. /\ MaxTime \in Nat /\ N \in Nat /\ N - MaxTime = 1 /\ MaxTime \in 0..MaxTime
  BY BoundsTyped
<1>2. /\ \A t \in 1..N : g[t] = IF t > MaxTime THEN contents[f].value ELSE UndoAt(f, t, g[t + 1])
      /\ \A t \in 1..N : h[t] = IF t > MaxTime THEN contents[f].value ELSE UndoAt(f, t, h[t + 1])
  <2>1. /\ g = [t \in 1..N |-> IF t > MaxTime THEN contents[f].value ELSE UndoAt(f, t, g[t + 1])]
        /\ h = [t \in 1..N |-> IF t > MaxTime THEN contents[f].value ELSE UndoAt(f, t, h[t + 1])]
    BY DEF Undoes
  <2>. QED  BY <2>1
<1>3. S = {}
  <2>1. SUFFICES ASSUME S # {} PROVE FALSE
    OBVIOUS
  <2>2. PICK n \in S : \A m \in S : ~(<<m, n>> \in OpToRel(<, Nat))
    <3>1. S \subseteq Nat
      OBVIOUS
    <3>. HIDE DEF S
    <3>. QED  BY <2>1, <3>1, NatLessThanWellFounded, WFMin
  <2>3. n \in 0..MaxTime /\ g[N - n] # h[N - n] /\ N - n \in 1..N
    BY <1>1
  <2>4. n # 0
    BY <1>1, <1>2, <2>3
  <2>5. n - 1 \in 0..MaxTime /\ n - 1 < n /\ N - (n - 1) = (N - n) + 1 /\ N - n <= MaxTime
    BY <1>1, <2>3, <2>4
  <2>6. n - 1 \notin S
    <3>1. <<n - 1, n>> \in OpToRel(<, Nat)
      BY <2>3, <2>5 DEF OpToRel
    <3>. HIDE DEF S
    <3>. QED  BY <2>2, <3>1
  <2>7. g[(N - n) + 1] = h[(N - n) + 1]
    BY <2>5, <2>6
  <2>8. g[N - n] = UndoAt(f, N - n, g[(N - n) + 1]) /\ h[N - n] = UndoAt(f, N - n, h[(N - n) + 1])
    <3>1. ~(N - n > MaxTime)
      BY <1>1, <2>3, <2>5
    <3>. QED  BY <1>2, <2>3, <3>1
  <2>. QED  BY <2>3, <2>7, <2>8
<1>4. MaxTime \notin S
  BY <1>3
<1>. QED  BY <1>1, <1>4

LEMMA UndoneIsBack ==
    ASSUME Typed, NEW f \in Files, contents[f] # NoContents
    PROVE  UndoneFrom(f)[1] = BackTo(f)[1]
<1>1. Undoes(f, BackTo(f))
  <2>1. MaxTime \in Nat
    BY BoundsTyped
  <2>2. 1 \in Times
    BY BoundsTyped DEF Times
  <2>3. BackTo(f)[MaxTime + 1] = contents[f].value
    BY <2>2, BackStep
  <2>4. \A t \in 1..(MaxTime + 1) :
           BackTo(f)[t] = IF t > MaxTime THEN contents[f].value ELSE UndoAt(f, t, BackTo(f)[t + 1])
    <3>. TAKE t \in 1..(MaxTime + 1)
    <3>1. CASE t > MaxTime
      <4>1. t = MaxTime + 1
        BY <2>1, <3>1
      <4>. QED  BY <2>3, <3>1, <4>1
    <3>2. CASE ~(t > MaxTime)
      <4>1. t \in Times
        BY <2>1, <3>2 DEF Times
      <4>. QED  BY <3>2, <4>1, BackStep
    <3>. QED  BY <3>1, <3>2
  <2>5. BackTo(f) = [t \in 1..(MaxTime + 1) |-> BackTo(f)[t]]
    BY DEF BackTo
  <2>. QED  BY <2>4, <2>5 DEF Undoes
<1>2. Undoes(f, UndoneFrom(f))
  BY <1>1, UndoneIs
<1>. QED  BY <1>1, <1>2, UndoneOnce

LEMMA RestorableUndoes == Typed /\ Restorable => UndoRestores
<1>. SUFFICES ASSUME Typed, Restorable, NEW f \in Files \ disturbed, contents[f] # NoContents,
                     ~\E r \in InFlight : File(r) = f /\ At(r, "revision")
              PROVE  UndoneFrom(f)[1] = origin[f]
  BY DEF UndoRestores
<1>1. \A r \in Requests : ~Pending(r, f)
  BY DEF InFlight, Pending, At, Busy
<1>2. /\ origin[f] \in Value /\ \A x \in Fields : Keeps(f, x)
  BY DEF Restorable, Reversible
<1>3. ASSUME NEW x \in Fields PROVE Back(f, x, 1) = origin[f][x]
  <2>1. Keeps(f, x)
    BY <1>2
  <2>2. From(f, x, 1) = Revs(f, x) /\ Revs(f, x) \in SUBSET Nat
    <3>1. \A u \in Revs(f, x) : u \in Nat /\ 1 <= u
      BY BoundsTyped DEF Revs, Revised, Times
    <3>. QED  BY <3>1 DEF From
  <2>3. CASE Revs(f, x) = {}
    BY <1>1, <2>1, <2>2, <2>3 DEF Back, Keeps
  <2>4. CASE Revs(f, x) # {}
    <3>1. /\ Earliest(Revs(f, x)) \in Revs(f, x)
          /\ \A u \in Revs(f, x) : Earliest(Revs(f, x)) <= u
      BY <2>2, <2>4, EarliestIs
    <3>2. revisions[f][Earliest(Revs(f, x))].old = origin[f][x]
      BY <2>1, <3>1 DEF Keeps
    <3>. QED  BY <2>2, <2>4, <3>2 DEF Back
  <2>. QED  BY <2>3, <2>4
<1>4. BackTo(f)[1] = [x \in Fields |-> Back(f, x, 1)]
  <2>1. 1 \in 1..(MaxTime + 1)
    BY BoundsTyped
  <2>. QED  BY <2>1 DEF BackTo
<1>5. BackTo(f)[1] = origin[f]
  BY <1>2, <1>3, <1>4 DEF Value
<1>. QED  BY <1>5, UndoneIsBack

\* Undoing all its revisions gives a file back as it was uploaded, for any
\* number of fields and patches, whatever refuses, deletes and crashes there
\* are: the earliest revision of a field keeps what was uploaded.
THEOREM UndoingRestores == Spec => []UndoRestores
<1>1. Init => Restorable
  <2>. SUFFICES ASSUME Init, NEW f \in Files PROVE Reversible(f)
    BY DEF Restorable
  <2>1. \A r \in Requests : ~Pending(r, f)
    BY DEF Init, Rest, Pending, At
  <2>2. Revised(f) = {}
    BY DEF Init, Revised
  <2>3. contents[f] = NoContents
    BY DEF Init
  <2>. QED  BY <2>1, <2>2, <2>3 DEF Reversible, InOrder
<1>. QED  BY <1>1, InitTyped, StepTyped, InitWhole, WholeStep, RestorableStep, RestorableUndoes,
     PTL DEF Spec
=============================================================================
