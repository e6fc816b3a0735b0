---------------------------- MODULE HistoryProofs ----------------------------
(***************************************************************************)
(* Theorems about History, for any users, keys, targets, rights and        *)
(* requests: the types, that the indexes agree with the records, that a    *)
(* listing breaks off for an unfinished add only, and that it passes over  *)
(* at most one record for each write that removed entries meanwhile.       *)
(***************************************************************************)
EXTENDS History, FiniteSetTheorems, WellFoundedInduction, TLAPS

\* A request that writes keeps the records of its own keys; one that lists
\* has found keys.
OnTrack ==
    \A r \in Requests :
        /\ req[r].pc = "write" => \A k \in Keys : req[r].mem[k] # Absent => k \in Call[r].keys
        /\ req[r].pc \in {"page", "fetch"} => Call[r].kind = "list"

Typed == TypeOK /\ OnTrack

-----------------------------------------------------------------------------
\* Types

LEMMA RestTyped == Rest \in RequestState
  BY DEF Rest, RequestState, Answers

LEMMA KeysBelow == Keys \subseteq Nat /\ 0 \notin Keys
  BY KeysTyped DEF Keys

LEMMA InitTyped == Init => Typed
<1>. SUFFICES ASSUME Init PROVE Typed
  OBVIOUS
<1>1. TypeOK
  BY RestTyped, InitDataTyped, BoundsTyped DEF Init, TypeOK
<1>2. OnTrack
  BY DEF Init, OnTrack, Rest
<1>. QED  BY <1>1, <1>2 DEF Typed

\* A request that goes on, to a typed state that is on track.
LEMMA BecomeTyped ==
    ASSUME Typed, NEW r \in Requests, NEW local \in RequestState, Become(r, local),
           local.pc = "write" => \A k \in Keys : local.mem[k] # Absent => k \in Call[r].keys,
           local.pc \in {"page", "fetch"} => Call[r].kind = "list"
    PROVE  req' \in [Requests -> RequestState] /\ OnTrack'
  BY DEF Typed, TypeOK, OnTrack, Become

LEMMA AnswerTyped ==
    ASSUME Typed, NEW r \in Requests, NEW code \in Answers, Answer(r, code)
    PROVE  req' \in [Requests -> RequestState] /\ OnTrack'
<1>1. [Rest EXCEPT !.pc = code] \in RequestState /\ [Rest EXCEPT !.pc = code].pc = code
  BY RestTyped DEF RequestState, Rest
<1>. QED  BY <1>1, BecomeTyped DEF Answer, Answers

\* The stores keep their types whichever of them a request writes.
LEMMA WriteOneTyped ==
    ASSUME Typed, NEW r \in Requests, NEW store \in Stores, WriteOne(r, store)
    PROVE  Typed'
<1>1. req[r] \in RequestState /\ req \in [Requests -> RequestState]
  BY DEF Typed, TypeOK
<1>2. data' \in [Keys -> HistoryRecord \cup {Absent}]
  BY <1>1 DEF WriteOne, Written, Typed, TypeOK, RequestState
<1>3. index' \subseteq Targets \X Keys
  BY DEF WriteOne, Indexed, EntriesOf, Typed, TypeOK
<1>4. erased' \in Nat
  BY DEF WriteOne, Typed, TypeOK
<1>5. req' \in [Requests -> RequestState] /\ OnTrack'
  <2>1. CASE Answer(r, "ok")
    BY <2>1, AnswerTyped DEF Answers
  <2>2. CASE Become(r, [req[r] EXCEPT !.todo = @ \ {store}])
    <3>1. /\ [req[r] EXCEPT !.todo = @ \ {store}] \in RequestState
          /\ [req[r] EXCEPT !.todo = @ \ {store}].pc = "write"
          /\ [req[r] EXCEPT !.todo = @ \ {store}].mem = req[r].mem
      BY <1>1 DEF WriteOne, RequestState
    <3>2. \A k \in Keys : req[r].mem[k] # Absent => k \in Call[r].keys
      BY DEF WriteOne, Typed, OnTrack
    <3>. QED  BY <2>2, <3>1, <3>2, BecomeTyped
  <2>. QED  BY <2>1, <2>2 DEF WriteOne
<1>. QED  BY <1>2, <1>3, <1>4, <1>5 DEF WriteOne, Typed, TypeOK

LEMMA BeginTyped == ASSUME Typed, NEW r \in Requests, Begin(r) PROVE Typed'
<1>. DEFINE local == IF Call[r].kind = "list"
                     THEN [Rest EXCEPT !.pc = "begin", !.due = Listable(Call[r]), !.before = erased]
                     ELSE [Rest EXCEPT !.pc = "begin"]
<1>1. Listable(Call[r]) \subseteq Keys
  BY DEF Listable, Scans, Scanned, Matches, Subject, Entries
<1>2. local \in RequestState /\ local.pc = "begin"
  BY <1>1, RestTyped DEF RequestState, Rest, Busy, Typed, TypeOK
<1>3. Become(r, local)
  BY DEF Begin
<1>4. req' \in [Requests -> RequestState] /\ OnTrack'
  BY <1>2, <1>3, BecomeTyped
<1>5. UNION {Call[r].keys \cap Call[s].keys : s \in InFlight} \subseteq Keys
  BY CallsTyped DEF CallType
<1>. QED  BY <1>4, <1>5 DEF Begin, Typed, TypeOK

LEMMA ConcernedTyped ==
    ASSUME NEW records, NEW keys, \A k \in keys : records[k].targets \subseteq Targets
    PROVE  Concerned(records, keys) \subseteq Stores
  BY KindOfTyped DEF Concerned, Stores

LEMMA ValidateTyped == ASSUME Typed, NEW r \in Requests, Validate(r) PROVE Typed'
<1>1. UNCHANGED <<data, index, restarts, erased>> /\ disturbed' \subseteq Keys
  <2>1. Call[r].keys \subseteq Keys
    BY CallsTyped DEF CallType
  <2>. QED  BY <2>1 DEF Validate, Typed, TypeOK
<1>2. req' \in [Requests -> RequestState] /\ OnTrack'
  <2>1. CASE Answer(r, "400") \/ Answer(r, "403")
    BY <2>1, AnswerTyped DEF Answers
  <2>2. CASE ~(Answer(r, "400") \/ Answer(r, "403"))
    <3>. DEFINE records == [k \in Keys |-> IF k \in Call[r].keys
                               THEN [deleted |-> FALSE, targets |-> Call[r].targets] ELSE Absent]
                local == [Rest EXCEPT !.pc = "write", !.mem = records,
                                      !.todo = Concerned(records, Call[r].keys)]
    <3>1. records \in [Keys -> HistoryRecord \cup {Absent}]
      BY CallsTyped DEF CallType, HistoryRecord
    <3>2. Concerned(records, Call[r].keys) \subseteq Stores
      <4>1. \A k \in Call[r].keys : records[k].targets \subseteq Targets
        BY CallsTyped DEF CallType
      <4>. QED  BY <4>1, ConcernedTyped
    <3>3. local \in RequestState /\ local.pc = "write" /\ local.mem = records
      BY <3>1, <3>2, RestTyped DEF RequestState, Rest, Busy
    <3>4. Become(r, local)
      BY <2>2 DEF Validate
    <3>. QED  BY <3>3, <3>4, BecomeTyped
  <2>. QED  BY <2>1, <2>2
<1>. QED  BY <1>1, <1>2 DEF Typed, TypeOK

LEMMA ReadTyped == ASSUME Typed, NEW r \in Requests, Read(r) PROVE Typed'
<1>1. UNCHANGED <<data, index, restarts, disturbed, erased>>
  BY DEF Read
<1>2. req' \in [Requests -> RequestState] /\ OnTrack'
  <2>1. CASE Answer(r, "404") \/ Answer(r, "403")
    BY <2>1, AnswerTyped DEF Answers
  <2>2. CASE ~(Answer(r, "404") \/ Answer(r, "403"))
    <3>. DEFINE keys == {k \in Call[r].keys : data[k] # Absent}
                records == [k \in Keys |-> IF k \in keys
                               THEN [data[k] EXCEPT !.deleted = TRUE] ELSE Absent]
                local == [Rest EXCEPT !.pc = "write", !.mem = records,
                                      !.todo = Concerned(records, keys)]
    <3>1. records \in [Keys -> HistoryRecord \cup {Absent}]
      BY DEF Typed, TypeOK, HistoryRecord
    <3>2. \A k \in keys : records[k] \in HistoryRecord
      <4>1. Call[r].keys \subseteq Keys
        BY CallsTyped DEF CallType
      <4>. QED  BY <4>1 DEF Typed, TypeOK, HistoryRecord
    <3>3. Concerned(records, keys) \subseteq Stores
      BY <3>2, ConcernedTyped DEF HistoryRecord
    <3>4. local \in RequestState /\ local.pc = "write" /\ local.mem = records
      BY <3>1, <3>3, RestTyped DEF RequestState, Rest, Busy
    <3>5. Become(r, local)
      BY <2>2 DEF Read
    <3>. QED  BY <3>4, <3>5, BecomeTyped
  <2>. QED  BY <2>1, <2>2
<1>. QED  BY <1>1, <1>2 DEF Typed, TypeOK

LEMMA OldestKey == \A page \in SUBSET Keys : page # {} => Oldest(page) \in page
<1>. SUFFICES ASSUME NEW page \in SUBSET Keys, page # {}
              PROVE  \E k \in page : \A j \in page : k <= j
  BY DEF Oldest
<1>1. page \subseteq Nat
  BY KeysBelow
<1>2. PICK k \in page : \A j \in page : ~(<<j, k>> \in OpToRel(<, Nat))
  BY <1>1, NatLessThanWellFounded, WFMin
<1>3. \A j \in page : ~(j < k)
  BY <1>1, <1>2 DEF OpToRel
<1>. QED  BY <1>1, <1>3

LEMMA PageTyped ==
    ASSUME Typed, NEW r \in Requests, NEW page \in SUBSET Keys, page # {}, req[r].pc = "page"
    PROVE  /\ Become(r, [req[r] EXCEPT !.last = Oldest(page), !.got = @ \cup page])
                 => req' \in [Requests -> RequestState] /\ OnTrack'
           /\ Become(r, [req[r] EXCEPT !.pc = "fetch", !.last = Oldest(page), !.found = page])
                 => req' \in [Requests -> RequestState] /\ OnTrack'
<1>1. req[r] \in RequestState /\ Oldest(page) \in Keys /\ Call[r].kind = "list"
  BY OldestKey DEF Typed, TypeOK, OnTrack
<1>2. /\ [req[r] EXCEPT !.last = Oldest(page), !.got = @ \cup page] \in RequestState
      /\ [req[r] EXCEPT !.last = Oldest(page), !.got = @ \cup page].pc = "page"
  BY <1>1 DEF RequestState
<1>3. /\ [req[r] EXCEPT !.pc = "fetch", !.last = Oldest(page), !.found = page] \in RequestState
      /\ [req[r] EXCEPT !.pc = "fetch", !.last = Oldest(page), !.found = page].pc = "fetch"
  BY <1>1 DEF RequestState, Busy
<1>. QED  BY <1>1, <1>2, <1>3, BecomeTyped

LEMMA ListTyped ==
    ASSUME Typed, NEW r \in Requests, StartList(r) \/ ScanPage(r) \/ IndexPage(r) \/ Fetch(r)
    PROVE  Typed'
<1>1. UNCHANGED <<data, index, restarts, disturbed, erased>>
  BY DEF StartList, ScanPage, IndexPage, Fetch
<1>2. req[r] \in RequestState /\ Call[r].kind = "list"
  BY DEF Typed, TypeOK, StartList, ScanPage, IndexPage, Fetch, Is
<1>3. req' \in [Requests -> RequestState] /\ OnTrack'
  <2>1. CASE \E code \in {"403", "404", "ok", "500"} : Answer(r, code)
    BY <2>1, AnswerTyped DEF Answers
  <2>2. CASE StartList(r) /\ ~Answer(r, "403") /\ ~Answer(r, "404")
    <3>1. Become(r, [req[r] EXCEPT !.pc = "page"])
      BY <2>2 DEF StartList
    <3>2. [req[r] EXCEPT !.pc = "page"] \in RequestState /\ [req[r] EXCEPT !.pc = "page"].pc = "page"
      BY <1>2 DEF RequestState, Busy
    <3>. QED  BY <1>2, <3>1, <3>2, BecomeTyped
  <2>3. CASE ScanPage(r) /\ ~Answer(r, "ok")
    <3>. DEFINE page == Newest({k \in After(Scanned(Call[r]), req[r].last) : Matches(Call[r], k)})
    <3>1. page \in SUBSET Keys
      BY DEF Newest, After, Scanned
    <3>2. page # {} /\ req[r].pc = "page"
          /\ Become(r, [req[r] EXCEPT !.last = Oldest(page), !.got = @ \cup page])
      BY <2>3 DEF ScanPage, Is
    <3>. HIDE DEF page
    <3>. QED  BY <3>1, <3>2, PageTyped
  <2>4. CASE IndexPage(r) /\ ~Answer(r, "ok")
    <3>. DEFINE page == Newest(After(Entries(Call[r]), req[r].last))
    <3>1. page \in SUBSET Keys
      BY DEF Newest, After, Entries
    <3>2. page # {} /\ req[r].pc = "page"
          /\ Become(r, [req[r] EXCEPT !.pc = "fetch", !.last = Oldest(page), !.found = page])
      BY <2>4 DEF IndexPage, Is
    <3>. HIDE DEF page
    <3>. QED  BY <3>1, <3>2, PageTyped
  <2>5. CASE Fetch(r) /\ ~Answer(r, "500")
    <3>. DEFINE local == [req[r] EXCEPT !.pc = "page", !.found = {}, !.got = @ \cup req[r].found]
    <3>1. Become(r, local)
      BY <2>5 DEF Fetch
    <3>2. local \in RequestState /\ local.pc = "page"
      BY <1>2 DEF RequestState, Busy
    <3>. QED  BY <1>2, <3>1, <3>2, BecomeTyped
  <2>. QED  BY <2>1, <2>2, <2>3, <2>4, <2>5
<1>. QED  BY <1>1, <1>3 DEF Typed, TypeOK

LEMMA CrashTyped == ASSUME Typed, Crash PROVE Typed'
<1>1. restarts' \in 0..MaxRestarts
  BY BoundsTyped DEF Crash, Typed, TypeOK
<1>2. disturbed' \subseteq Keys
  <2>1. \A r \in InFlight : Call[r].keys \subseteq Keys
    BY CallsTyped DEF CallType, InFlight
  <2>. QED  BY <2>1 DEF Crash, Typed, TypeOK
<1>3. [Rest EXCEPT !.pc = "lost"] \in RequestState /\ [Rest EXCEPT !.pc = "lost"].pc = "lost"
  BY RestTyped DEF RequestState, Rest, Answers
<1>4. req' \in [Requests -> RequestState] /\ OnTrack'
  BY <1>3 DEF Crash, Typed, TypeOK, OnTrack
<1>. QED  BY <1>1, <1>2, <1>4 DEF Crash, Typed, TypeOK

LEMMA StepTyped == Typed /\ [Next]_vars => Typed'
<1>. SUFFICES ASSUME Typed, [Next]_vars PROVE Typed'
  OBVIOUS
<1>1. ASSUME NEW r \in Requests, Begin(r) \/ Serve(r) PROVE Typed'
  BY <1>1, BeginTyped, ValidateTyped, ReadTyped, WriteOneTyped, ListTyped DEF Serve, Write
<1>2. CASE Finished \/ UNCHANGED vars
  BY <1>2 DEF Finished, vars, Typed, TypeOK, OnTrack
<1>. QED  BY <1>1, <1>2, CrashTyped DEF Next

\* Every variable keeps its type.
THEOREM TypeCorrect == Spec => []TypeOK
<1>1. Typed => TypeOK
  BY DEF Typed
<1>. QED  BY <1>1, InitTyped, StepTyped, PTL DEF Spec

-----------------------------------------------------------------------------
\* The indexes agree with the records

Listed(k) == {t \in Targets : <<t, k>> \in index}

Exact(k) == Listed(k) = IF Live(k) THEN data[k].targets ELSE {}

\* Request r writes the record of k.
Holds(r, k) == req[r].pc = "write" /\ req[r].mem[k] # Absent

\* What r has written of k so far.  An add has put the entries of the indexes
\* that have answered; a delete has left at most those of the ones that have not.
HalfWritten(r, k) ==
    LET record == req[r].mem[k]
        todo == req[r].todo
    IN  /\ "data" \notin todo => data[k] = record
        /\ record.deleted <=> Call[r].kind \notin Adds
        /\ Call[r].kind \in Adds => data[k] \in {Absent, record}
        /\ Call[r].kind \in Adds =>
              Listed(k) = {t \in record.targets : KindOf[t] \notin todo}
        /\ Call[r].kind \notin Adds =>
              Listed(k) \subseteq {t \in record.targets : KindOf[t] \in todo}

\* A key that was not disturbed has one writer, and agrees but for what this
\* one has half written.
Apart ==
    \A r, q \in InFlight : r # q => Call[r].keys \cap Call[q].keys \subseteq disturbed

Agreeing ==
    \A k \in Keys \ disturbed :
        /\ \A r \in Requests : Holds(r, k) => HalfWritten(r, k)
        /\ (\A r \in Requests : ~Holds(r, k)) => Exact(k)

Consistent == Apart /\ Agreeing

LEMMA InitConsistent == Init => Consistent
<1>. SUFFICES ASSUME Init PROVE Consistent
  OBVIOUS
<1>1. Apart
  BY DEF Init, Apart, InFlight, Rest, Busy
<1>2. \A r \in Requests, k \in Keys : ~Holds(r, k)
  BY DEF Init, Holds, Rest
<1>3. \A k \in Keys : Exact(k)
  <2>. SUFFICES ASSUME NEW k \in Keys PROVE Exact(k)
    OBVIOUS
  <2>1. data[k] # Absent => data[k].targets \subseteq Targets
    BY InitDataTyped DEF Init, HistoryRecord
  <2>2. \A t \in Targets : <<t, k>> \in index <=>
                              Live(k) /\ t \in data[k].targets
    BY DEF Init, Live
  <2>. QED  BY <2>1, <2>2 DEF Exact, Listed, Live
<1>. QED  BY <1>1, <1>2, <1>3 DEF Consistent, Agreeing

\* Requests come and go, and nobody is served who was not.
LEMMA ApartStays ==
    ASSUME Apart, InFlight' \subseteq InFlight, disturbed \subseteq disturbed'
    PROVE  Apart'
  BY DEF Apart

\* A step that writes nothing, and changes at most what r holds of no key.
LEMMA NothingWritten ==
    ASSUME Agreeing, UNCHANGED <<data, index>>, disturbed \subseteq disturbed',
           \A r \in Requests, k \in Keys : k \notin disturbed' =>
               /\ Holds(r, k)' <=> Holds(r, k)
               /\ Holds(r, k) => req'[r].mem[k] = req[r].mem[k] /\ req'[r].todo = req[r].todo
    PROVE  Agreeing'
<1>. SUFFICES ASSUME NEW k \in Keys, k \notin disturbed'
              PROVE  /\ \A r \in Requests : Holds(r, k)' => HalfWritten(r, k)'
                     /\ (\A r \in Requests : ~Holds(r, k)') => Exact(k)'
  BY DEF Agreeing
<1>1. ASSUME NEW r \in Requests, Holds(r, k)' PROVE HalfWritten(r, k)'
  BY <1>1 DEF Agreeing, HalfWritten, Listed
<1>2. ASSUME \A r \in Requests : ~Holds(r, k)' PROVE Exact(k)'
  BY <1>2 DEF Agreeing, Exact, Listed, Live
<1>. QED  BY <1>1, <1>2

LEMMA BeginConsistent ==
    ASSUME Typed, Consistent, NEW r \in Requests, Begin(r)
    PROVE  Consistent'
<1>1. req \in [Requests -> RequestState]
  BY DEF Typed, TypeOK
<1>2. req'[r].pc = "begin" /\ req[r].pc = "idle" /\ \A q \in Requests \ {r} : req'[q] = req[q]
  BY <1>1 DEF Begin, Become, Rest
<1>3. disturbed' = disturbed \cup UNION {Call[r].keys \cap Call[s].keys : s \in InFlight}
  BY DEF Begin
<1>4. Apart'
  <2>. SUFFICES ASSUME NEW p \in InFlight', NEW q \in InFlight', p # q
                PROVE  Call[p].keys \cap Call[q].keys \subseteq disturbed'
    BY DEF Apart
  <2>1. (p = r \/ p \in InFlight) /\ (q = r \/ q \in InFlight)
    BY <1>2 DEF InFlight
  <2>. QED  BY <2>1, <1>3 DEF Consistent, Apart
<1>5. Agreeing'
  BY <1>2, <1>3, NothingWritten DEF Begin, Consistent, Holds
<1>. QED  BY <1>4, <1>5 DEF Consistent

LEMMA CrashConsistent == ASSUME Typed, Consistent, Crash PROVE Consistent'
<1>1. \A r \in Requests : req'[r].pc \in Busy => req'[r] = req[r] /\ r \notin InFlight
  BY DEF Crash, Rest, Busy
<1>2. InFlight' = {}
  BY <1>1 DEF InFlight
<1>3. \A r \in InFlight : Call[r].keys \subseteq disturbed'
  BY DEF Crash
<1>4. \A r \in Requests, k \in Keys : k \notin disturbed' => ~Holds(r, k) /\ ~Holds(r, k)'
  BY <1>2, <1>3 DEF Holds, InFlight, Busy, Typed, OnTrack
<1>5. Agreeing'
  BY <1>4, NothingWritten DEF Crash, Consistent
<1>. QED  BY <1>2, <1>5 DEF Consistent, Apart

LEMMA ListConsistent ==
    ASSUME Typed, Consistent, NEW r \in Requests,
           StartList(r) \/ ScanPage(r) \/ IndexPage(r) \/ Fetch(r)
    PROVE  Consistent'
<1>1. req \in [Requests -> RequestState] /\ req[r] \in RequestState
  BY DEF Typed, TypeOK
<1>2. UNCHANGED <<data, index, disturbed>> /\ r \in InFlight /\ req[r].pc # "write"
  BY DEF StartList, ScanPage, IndexPage, Fetch, Is, InFlight, Busy
<1>3. req'[r].pc # "write" /\ \A q \in Requests \ {r} : req'[q] = req[q]
  <2>1. CASE \E code \in Answers : Answer(r, code)
    BY <1>1, <2>1 DEF Answer, Become, Rest, Answers
  <2>2. CASE ~\E code \in Answers : Answer(r, code)
    <3>1. \E x : Become(r, x) /\ x.pc # "write"
      <4>1. CASE StartList(r)
        <5>1. Become(r, [req[r] EXCEPT !.pc = "page"])
          BY <2>2, <4>1 DEF StartList, Answers
        <5>2. [req[r] EXCEPT !.pc = "page"].pc = "page"
          BY <1>1 DEF RequestState
        <5>. QED  BY <5>1, <5>2
      <4>2. CASE Fetch(r)
        <5>. DEFINE x == [req[r] EXCEPT !.pc = "page", !.found = {}, !.got = @ \cup req[r].found]
        <5>1. Become(r, x)
          BY <2>2, <4>2 DEF Fetch, Answers
        <5>2. x.pc = "page"
          BY <1>1 DEF RequestState
        <5>. QED  BY <5>1, <5>2
      <4>3. CASE ScanPage(r)
        <5>. DEFINE x(page) == [req[r] EXCEPT !.last = Oldest(page), !.got = @ \cup page]
        <5>1. \E page : Become(r, x(page))
          BY <2>2, <4>3 DEF ScanPage, Answers
        <5>2. \A page : x(page).pc = req[r].pc
          BY <1>1 DEF RequestState
        <5>. QED  BY <1>2, <5>1, <5>2
      <4>4. CASE IndexPage(r)
        <5>. DEFINE x(page) == [req[r] EXCEPT !.pc = "fetch", !.last = Oldest(page), !.found = page]
        <5>1. \E page : Become(r, x(page))
          BY <2>2, <4>4 DEF IndexPage, Answers
        <5>2. \A page : x(page).pc = "fetch"
          BY <1>1 DEF RequestState
        <5>. QED  BY <5>1, <5>2
      <4>. QED  BY <4>1, <4>2, <4>3, <4>4
    <3>. QED  BY <1>1, <3>1 DEF Become
  <2>. QED  BY <2>1, <2>2
<1>4. InFlight' \subseteq InFlight
  BY <1>2, <1>3 DEF InFlight
<1>5. Agreeing'
  BY <1>2, <1>3, NothingWritten DEF Consistent, Holds
<1>. QED  BY <1>2, <1>4, <1>5, ApartStays DEF Consistent

\* A request is refused before it has written anything.
LEMMA RefusedConsistent ==
    ASSUME Typed, Consistent, NEW r \in Requests, NEW code \in Answers, Answer(r, code),
           req[r].pc = "begin", UNCHANGED <<data, index, disturbed>>
    PROVE  Consistent'
<1>1. req'[r].pc = code /\ \A q \in Requests \ {r} : req'[q] = req[q]
  BY DEF Typed, TypeOK, Answer, Become, Rest
<1>2. InFlight' \subseteq InFlight
  BY <1>1 DEF InFlight, Answers, Busy
<1>3. Agreeing'
  BY <1>1, NothingWritten DEF Consistent, Holds, Answers
<1>. QED  BY <1>2, <1>3, ApartStays DEF Consistent

\* A request that has not written anything begins to write records of its own
\* keys: it holds them as half written, to begin with.
LEMMA WritingConsistent ==
    ASSUME Typed, Consistent, NEW r \in Requests, req[r].pc = "begin",
           UNCHANGED <<data, index>>, disturbed \subseteq disturbed',
           \A q \in Requests \ {r} : req'[q] = req[q], req'[r].pc = "write",
           \A k \in Keys : req'[r].mem[k] # Absent => k \in Call[r].keys,
           \A k \in Call[r].keys :
              (k \in Keys \ disturbed' /\ req'[r].mem[k] # Absent /\ Exact(k)) => HalfWritten(r, k)'
    PROVE  Consistent'
<1>1. InFlight' \subseteq InFlight /\ r \in InFlight
  BY DEF InFlight, Busy
<1>2. Apart'
  BY <1>1, ApartStays DEF Consistent
<1>3. ASSUME NEW k \in Keys, k \notin disturbed'
      PROVE  /\ \A q \in Requests : Holds(q, k)' => HalfWritten(q, k)'
             /\ (\A q \in Requests : ~Holds(q, k)') => Exact(k)'
  <2>1. \A q \in Requests \ {r} : Holds(q, k)' <=> Holds(q, k)
    BY DEF Holds
  <2>2. ~Holds(r, k)
    BY DEF Holds
  <2>3. ASSUME k \in Call[r].keys PROVE \A q \in Requests : ~Holds(q, k)
    BY <1>1, <1>3, <2>2, <2>3 DEF Consistent, Apart, Holds, InFlight, Busy, Typed, OnTrack
  <2>4. ASSUME NEW q \in Requests, Holds(q, k)' PROVE HalfWritten(q, k)'
    <3>1. CASE q = r
      <4>1. k \in Call[r].keys /\ req'[r].mem[k] # Absent
        BY <2>4, <3>1 DEF Holds
      <4>2. Exact(k)
        BY <1>3, <2>3, <4>1 DEF Consistent, Agreeing
      <4>. QED  BY <1>3, <3>1, <4>1, <4>2
    <3>2. CASE q # r
      <4>1. HalfWritten(q, k) /\ req'[q] = req[q]
        BY <1>3, <2>1, <2>4, <3>2 DEF Consistent, Agreeing
      <4>. QED  BY <4>1 DEF HalfWritten, Listed
    <3>. QED  BY <3>1, <3>2
  <2>5. ASSUME \A q \in Requests : ~Holds(q, k)' PROVE Exact(k)'
    <3>1. Exact(k)
      BY <1>3, <2>1, <2>2, <2>5 DEF Consistent, Agreeing
    <3>. QED  BY <3>1 DEF Exact, Listed, Live
  <2>. QED  BY <2>4, <2>5
<1>. QED  BY <1>2, <1>3 DEF Consistent, Agreeing

LEMMA ValidateConsistent ==
    ASSUME Typed, Consistent, NEW r \in Requests, Validate(r)
    PROVE  Consistent'
<1>1. CASE \E code \in Answers : Answer(r, code) /\ UNCHANGED disturbed
  BY <1>1, RefusedConsistent DEF Validate, Is
<1>2. CASE ~\E code \in Answers : Answer(r, code) /\ UNCHANGED disturbed
  <2>. DEFINE records == [k \in Keys |-> IF k \in Call[r].keys
                             THEN [deleted |-> FALSE, targets |-> Call[r].targets] ELSE Absent]
              local == [Rest EXCEPT !.pc = "write", !.mem = records,
                                    !.todo = Concerned(records, Call[r].keys)]
  <2>1. Become(r, local) /\ disturbed' = disturbed \cup {k \in Call[r].keys : data[k] # Absent}
    BY <1>2 DEF Validate, Answers
  <2>2. /\ local.pc = "write" /\ local.mem = records
        /\ local.todo = Concerned(records, Call[r].keys)
    BY DEF Rest
  <2>3. req'[r] = local /\ \A q \in Requests \ {r} : req'[q] = req[q]
    BY <2>1 DEF Typed, TypeOK, Become
  <2>4. ASSUME NEW k \in Call[r].keys, k \in Keys \ disturbed', Exact(k)
        PROVE  HalfWritten(r, k)'
    <3>1. data[k] = Absent /\ Listed(k) = {}
      BY <2>1, <2>4 DEF Exact, Live
    <3>2. records[k] = [deleted |-> FALSE, targets |-> Call[r].targets]
      BY <2>4
    <3>3. "data" \in local.todo /\ \A t \in records[k].targets : KindOf[t] \in local.todo
      BY <2>2, <2>4 DEF Concerned
    <3>4. Call[r].kind \in Adds /\ UNCHANGED <<data, index>>
      BY DEF Validate, Is
    <3>. HIDE DEF records, local
    <3>. QED  BY <2>2, <2>3, <3>1, <3>2, <3>3, <3>4 DEF HalfWritten, Listed
  <2>5. \A k \in Keys : req'[r].mem[k] # Absent => k \in Call[r].keys
    BY <2>2, <2>3
  <2>. HIDE DEF local
  <2>. QED  BY <2>1, <2>2, <2>3, <2>4, <2>5, WritingConsistent DEF Validate, Is
<1>. QED  BY <1>1, <1>2

LEMMA ReadConsistent ==
    ASSUME Typed, Consistent, NEW r \in Requests, Read(r)
    PROVE  Consistent'
<1>1. CASE \E code \in Answers : Answer(r, code)
  BY <1>1, RefusedConsistent DEF Read, Is
<1>2. CASE ~\E code \in Answers : Answer(r, code)
  <2>. DEFINE keys == {k \in Call[r].keys : data[k] # Absent}
              records == [k \in Keys |-> IF k \in keys
                             THEN [data[k] EXCEPT !.deleted = TRUE] ELSE Absent]
              local == [Rest EXCEPT !.pc = "write", !.mem = records,
                                    !.todo = Concerned(records, keys)]
  <2>1. Become(r, local) /\ UNCHANGED <<data, index, disturbed>>
    BY <1>2 DEF Read, Answers
  <2>2. local.pc = "write" /\ local.mem = records /\ local.todo = Concerned(records, keys)
    BY DEF Rest
  <2>3. req'[r] = local /\ \A q \in Requests \ {r} : req'[q] = req[q]
    BY <2>1 DEF Typed, TypeOK, Become
  <2>4. ASSUME NEW k \in Call[r].keys, k \in Keys \ disturbed', req'[r].mem[k] # Absent, Exact(k)
        PROVE  HalfWritten(r, k)'
    <3>1. k \in keys /\ data[k] \in HistoryRecord
      BY <2>2, <2>3, <2>4 DEF Typed, TypeOK
    <3>2. records[k] = [data[k] EXCEPT !.deleted = TRUE]
      BY <2>4, <3>1
    <3>3. records[k].deleted = TRUE /\ records[k].targets = data[k].targets
      BY <3>1, <3>2 DEF HistoryRecord
    <3>4. "data" \in local.todo /\ \A t \in records[k].targets : KindOf[t] \in local.todo
      <4>. HIDE DEF records, keys, local
      <4>. QED  BY <2>2, <3>1 DEF Concerned
    <3>5. Call[r].kind \notin Adds
      BY DEF Read, Is, Adds, Deletes
    <3>. HIDE DEF records, local
    <3>. QED  BY <2>1, <2>2, <2>3, <2>4, <3>3, <3>4, <3>5 DEF HalfWritten, Listed, Exact
  <2>5. \A k \in Keys : req'[r].mem[k] # Absent => k \in Call[r].keys
    BY <2>2, <2>3
  <2>. HIDE DEF local
  <2>. QED  BY <2>1, <2>2, <2>3, <2>4, <2>5, WritingConsistent DEF Read, Is
<1>. QED  BY <1>1, <1>2

\* One more store: what is half written comes closer to the whole, and with the
\* last one the key is exact again.
LEMMA WriteConsistent ==
    ASSUME Typed, Consistent, NEW r \in Requests, NEW store \in Stores, WriteOne(r, store)
    PROVE  Consistent'
<1>1. /\ req[r] \in RequestState /\ req \in [Requests -> RequestState]
      /\ data \in [Keys -> HistoryRecord \cup {Absent}] /\ index \subseteq Targets \X Keys
      /\ req[r].pc = "write" /\ store \in req[r].todo /\ UNCHANGED disturbed
  BY DEF Typed, TypeOK, WriteOne, Ready
<1>2. \A q \in Requests \ {r} : req'[q] = req[q]
  BY <1>1 DEF WriteOne, Answer, Become
<1>3. \/ req[r].todo = {store} /\ req'[r].pc = "ok"
      \/ /\ req[r].todo # {store} /\ req'[r].pc = "write"
         /\ req'[r].mem = req[r].mem /\ req'[r].todo = req[r].todo \ {store}
  <2>1. CASE req[r].todo = {store}
    BY <1>1, <2>1 DEF WriteOne, Answer, Become, Rest
  <2>2. CASE req[r].todo # {store}
    BY <1>1, <2>2 DEF WriteOne, Become, RequestState
  <2>. QED  BY <2>1, <2>2
<1>4. InFlight' \subseteq InFlight /\ r \in InFlight
  BY <1>1, <1>2 DEF InFlight, Busy
<1>5. Apart'
  BY <1>1, <1>4, ApartStays DEF Consistent
<1>6. ASSUME NEW k \in Keys, req[r].mem[k] = Absent
      PROVE  data'[k] = data[k] /\ Listed(k)' = Listed(k)
  <2>1. data'[k] = data[k]
    BY <1>1, <1>6 DEF WriteOne, Written
  <2>2. \A t \in Targets : <<t, k>> \notin EntriesOf(r, store)
    BY <1>6 DEF EntriesOf
  <2>3. \A t \in Targets : <<t, k>> \in index' <=> <<t, k>> \in index
    BY <2>2 DEF WriteOne, Indexed
  <2>. QED  BY <2>1, <2>3 DEF Listed
<1>7. ASSUME NEW k \in Keys \ disturbed, Holds(r, k)
      PROVE  /\ data'[k] = IF store = "data" THEN req[r].mem[k] ELSE data[k]
             /\ Call[r].kind \in Adds =>
                   Listed(k)' = {t \in req[r].mem[k].targets : KindOf[t] \notin req[r].todo \ {store}}
             /\ Call[r].kind \notin Adds =>
                   Listed(k)' \subseteq
                      {t \in req[r].mem[k].targets : KindOf[t] \in req[r].todo \ {store}}
  <2>1. HalfWritten(r, k)
    BY <1>7 DEF Consistent, Agreeing
  <2>2. req[r].mem[k] \in HistoryRecord /\ req[r].mem[k] # Absent
    BY <1>1, <1>7 DEF Holds, RequestState
  <2>3. data'[k] = IF store = "data" THEN req[r].mem[k] ELSE data[k]
    BY <1>1, <2>2 DEF WriteOne, Written
  <2>4. \A t \in Targets : KindOf[t] # "data" /\ KindOf[t] \in Indexes
    BY KindOfTyped DEF Indexes
  <2>5. req[r].mem[k].targets \subseteq Targets
    BY <2>2 DEF HistoryRecord
  <2>6. \A t \in Targets : <<t, k>> \in EntriesOf(r, store)
                              <=> KindOf[t] = store /\ t \in req[r].mem[k].targets
    BY <2>2 DEF EntriesOf
  <2>7. CASE Call[r].kind \in Adds
    <3>1. Listed(k) = {t \in req[r].mem[k].targets : KindOf[t] \notin req[r].todo}
      BY <2>1, <2>7 DEF HalfWritten
    <3>2. \A t \in Targets : <<t, k>> \in index' <=>
             <<t, k>> \in index \/ (KindOf[t] = store /\ t \in req[r].mem[k].targets)
      BY <2>4, <2>6, <2>7 DEF WriteOne, Indexed
    <3>. QED  BY <2>3, <2>5, <2>7, <3>1, <3>2 DEF Listed
  <2>8. CASE Call[r].kind \notin Adds
    <3>1. Listed(k) \subseteq {t \in req[r].mem[k].targets : KindOf[t] \in req[r].todo}
      BY <2>1, <2>8 DEF HalfWritten
    <3>2. \A t \in Targets : <<t, k>> \in index' <=>
             <<t, k>> \in index /\ ~(KindOf[t] = store /\ t \in req[r].mem[k].targets)
      BY <2>4, <2>6, <2>8 DEF WriteOne, Indexed
    <3>. QED  BY <2>3, <2>5, <2>8, <3>1, <3>2 DEF Listed
  <2>. QED  BY <2>7, <2>8
<1>8. ASSUME NEW k \in Keys \ disturbed
      PROVE  /\ \A q \in Requests : Holds(q, k)' => HalfWritten(q, k)'
             /\ (\A q \in Requests : ~Holds(q, k)') => Exact(k)'
  <2>1. \A q \in Requests \ {r} : Holds(q, k)' <=> Holds(q, k)
    BY <1>2 DEF Holds
  <2>2. CASE ~Holds(r, k)
    <3>1. req[r].mem[k] = Absent /\ ~Holds(r, k)'
      BY <1>1, <1>3, <2>2 DEF Holds
    <3>2. data'[k] = data[k] /\ Listed(k)' = Listed(k)
      BY <1>6, <3>1
    <3>3. ASSUME NEW q \in Requests, Holds(q, k)' PROVE HalfWritten(q, k)'
      <4>1. q # r /\ HalfWritten(q, k) /\ req'[q] = req[q]
        BY <1>2, <2>1, <3>1, <3>3 DEF Consistent, Agreeing
      <4>. QED  BY <3>2, <4>1 DEF HalfWritten
    <3>4. ASSUME \A q \in Requests : ~Holds(q, k)' PROVE Exact(k)'
      <4>1. Exact(k)
        BY <2>1, <2>2, <3>4 DEF Consistent, Agreeing
      <4>. QED  BY <3>2, <4>1 DEF Exact, Live
    <3>. QED  BY <3>3, <3>4
  <2>3. CASE Holds(r, k)
    <3>1. \A q \in Requests \ {r} : ~Holds(q, k)
      BY <1>4, <2>3 DEF Consistent, Apart, Holds, InFlight, Busy, Typed, OnTrack
    <3>2. HalfWritten(r, k)
      BY <2>3 DEF Consistent, Agreeing
    <3>3. CASE req[r].todo # {store}
      <4>1. Holds(r, k)' /\ req'[r].mem[k] = req[r].mem[k] /\ req'[r].todo = req[r].todo \ {store}
        BY <1>3, <2>3, <3>3 DEF Holds
      <4>2. HalfWritten(r, k)'
        BY <1>7, <2>3, <3>2, <4>1 DEF HalfWritten
      <4>. QED  BY <2>1, <3>1, <4>1, <4>2
    <3>4. CASE req[r].todo = {store}
      <4>1. ~Holds(r, k)'
        BY <1>3, <3>4 DEF Holds
      <4>2. data'[k] = req[r].mem[k]
        BY <1>7, <2>3, <3>2, <3>4 DEF HalfWritten
      <4>3. data'[k] # Absent /\ (data'[k].deleted <=> Call[r].kind \notin Adds)
        BY <2>3, <3>2, <4>2 DEF Holds, HalfWritten
      <4>4. CASE Call[r].kind \in Adds
        <5>1. Listed(k)' = req[r].mem[k].targets
          BY <1>7, <2>3, <3>4, <4>4
        <5>. QED  BY <2>1, <3>1, <4>1, <4>2, <4>3, <4>4, <5>1 DEF Exact, Live
      <4>5. CASE Call[r].kind \notin Adds
        <5>1. Listed(k)' = {}
          BY <1>7, <2>3, <3>4, <4>5
        <5>. QED  BY <2>1, <3>1, <4>1, <4>2, <4>3, <4>5, <5>1 DEF Exact, Live
      <4>. QED  BY <4>4, <4>5
    <3>. QED  BY <3>3, <3>4
  <2>. QED  BY <2>2, <2>3
<1>. QED  BY <1>1, <1>5, <1>8 DEF Consistent, Agreeing

LEMMA StepConsistent == Typed /\ Consistent /\ [Next]_vars => Consistent'
<1>. SUFFICES ASSUME Typed, Consistent, [Next]_vars PROVE Consistent'
  OBVIOUS
<1>1. ASSUME NEW r \in Requests, Begin(r) \/ Serve(r) PROVE Consistent'
  BY <1>1, BeginConsistent, ValidateConsistent, ReadConsistent, WriteConsistent, ListConsistent
  DEF Serve, Write
<1>2. CASE Finished \/ UNCHANGED vars
  <2>1. UNCHANGED vars
    BY <1>2 DEF Finished
  <2>. QED  BY <2>1 DEF vars, Consistent, Apart, Agreeing, InFlight, Holds, HalfWritten, Exact, Listed, Live
<1>. QED  BY <1>1, <1>2, CrashConsistent DEF Next

\* Once the writers of a key have answered, its record is in the index of
\* everything it belongs to and nowhere else, and nowhere when it is deleted,
\* whatever the order of the stores, unless writers overlapped, died or replaced it.
THEOREM IndexesExact == Spec => []IndexExact
<1>1. Typed /\ Consistent => IndexExact
  <2>. SUFFICES ASSUME Typed, Consistent, NEW k \in Keys \ disturbed, ~Writing(k)
                PROVE  Exact(k)
    BY DEF IndexExact, Exact, Listed
  <2>1. \A r \in Requests : ~Holds(r, k)
    BY DEF Writing, Holds, InFlight, Busy, Typed, OnTrack
  <2>. QED  BY <2>1 DEF Consistent, Agreeing
<1>. QED  BY <1>1, InitTyped, InitConsistent, StepTyped, StepConsistent, PTL DEF Spec

-----------------------------------------------------------------------------
\* Why a listing breaks off

\* The record is there, or will be when its writer is done.
Known(k) == data[k] # Absent \/ k \in disturbed \/ \E q \in Requests : Holds(q, k)

FoundKnown == \A r \in Requests : req[r].pc = "fetch" => \A k \in req[r].found : Known(k)

LEMMA EntriesKnown ==
    ASSUME Typed, Consistent, NEW call
    PROVE  \A k \in Entries(call) : Known(k)
<1>. SUFFICES ASSUME NEW k \in Entries(call), k \notin disturbed, \A q \in Requests : ~Holds(q, k)
              PROVE  data[k] # Absent
  BY DEF Known
<1>1. k \in Keys /\ \E t \in Targets : <<t, k>> \in index
  BY DEF Entries, Typed, TypeOK
<1>2. Exact(k)
  BY <1>1 DEF Consistent, Agreeing
<1>. QED  BY <1>1, <1>2 DEF Exact, Listed, Live

\* What one request does to the others, and to itself.
LEMMA OneServed ==
    ASSUME Typed, NEW r \in Requests, Begin(r) \/ Serve(r)
    PROVE  /\ \A q \in Requests \ {r} : req'[q] = req[q]
           /\ disturbed \subseteq disturbed'
           /\ req[r].pc # "write" => UNCHANGED <<data, index, erased>>
           /\ req[r].pc = "write" => Write(r)
<1>1. req \in [Requests -> RequestState]
  BY DEF Typed, TypeOK
<1>2. CASE Write(r)
  <2>1. PICK store \in Stores : WriteOne(r, store)
    BY <1>2 DEF Write
  <2>. QED  BY <1>1, <1>2, <2>1 DEF WriteOne, Answer, Become
<1>3. CASE Begin(r)
  BY <1>1, <1>3 DEF Begin, Become
<1>4. CASE Validate(r)
  BY <1>1, <1>4 DEF Validate, Answer, Become, Is
<1>5. CASE Read(r)
  BY <1>1, <1>5 DEF Read, Answer, Become, Is
<1>6. CASE StartList(r) \/ ScanPage(r) \/ IndexPage(r) \/ Fetch(r)
  BY <1>1, <1>6 DEF StartList, ScanPage, IndexPage, Fetch, Answer, Become, Is
<1>. QED  BY <1>2, <1>3, <1>4, <1>5, <1>6 DEF Serve

LEMMA KnownStays ==
    ASSUME Typed, Consistent, [Next]_vars, NEW k \in Keys, Known(k)
    PROVE  Known(k)'
<1>1. ASSUME NEW r \in Requests, Begin(r) \/ Serve(r), req[r].pc # "write" PROVE Known(k)'
  BY <1>1, OneServed DEF Known, Holds
<1>2. ASSUME NEW r \in Requests, NEW store \in Stores, WriteOne(r, store) PROVE Known(k)'
  <2>1. /\ req[r] \in RequestState /\ req \in [Requests -> RequestState]
        /\ data \in [Keys -> HistoryRecord \cup {Absent}] /\ req[r].pc = "write"
    BY <1>2 DEF Typed, TypeOK, WriteOne
  <2>2. \A q \in Requests \ {r} : req'[q] = req[q]
    BY <1>2, <2>1 DEF WriteOne, Answer, Become
  <2>3. data'[k] = IF store = "data" /\ req[r].mem[k] # Absent THEN req[r].mem[k] ELSE data[k]
    BY <1>2, <2>1 DEF WriteOne, Written
  <2>4. CASE ~Holds(r, k) \/ k \in disturbed
    <3>1. data'[k] = data[k] \/ k \in disturbed
      BY <2>1, <2>3, <2>4 DEF Holds
    <3>2. k \in disturbed => k \in disturbed'
      BY <1>2 DEF WriteOne
    <3>. QED  BY <2>2, <2>4, <3>1, <3>2 DEF Known, Holds
  <2>5. CASE Holds(r, k) /\ k \notin disturbed
    <3>1. HalfWritten(r, k) /\ req[r].mem[k] # Absent
      BY <2>5 DEF Consistent, Agreeing, Holds
    <3>2. CASE req[r].todo = {store}
      BY <2>3, <3>1, <3>2 DEF HalfWritten, Known
    <3>3. CASE req[r].todo # {store}
      <4>1. req'[r].pc = "write" /\ req'[r].mem = req[r].mem
        BY <1>2, <2>1, <3>3 DEF WriteOne, Become, RequestState
      <4>. QED  BY <3>1, <4>1 DEF Known, Holds
    <3>. QED  BY <3>2, <3>3
  <2>. QED  BY <2>4, <2>5
<1>3. CASE Crash
  <2>1. \A r \in Requests : Holds(r, k) => k \in disturbed'
    BY <1>3 DEF Crash, Holds, InFlight, Busy, Typed, OnTrack
  <2>. QED  BY <1>3, <2>1 DEF Crash, Known
<1>4. CASE Finished \/ UNCHANGED vars
  BY <1>4 DEF Finished, vars, Known, Holds
<1>. QED  BY <1>1, <1>2, <1>3, <1>4, OneServed DEF Next, Write

\* A request comes to fetch by a page of an index only.
LEMMA ComesToFetch ==
    ASSUME Typed, NEW r \in Requests, Begin(r) \/ Serve(r), req'[r].pc = "fetch"
    PROVE  req'[r].found \subseteq Entries(Call[r])
<1>1. req \in [Requests -> RequestState] /\ req[r] \in RequestState
  BY DEF Typed, TypeOK
<1>2. CASE \E code \in Answers : Answer(r, code)
  BY <1>1, <1>2 DEF Answer, Become, Rest, Answers
<1>3. CASE IndexPage(r)
  <2>. DEFINE page == Newest(After(Entries(Call[r]), req[r].last))
  <2>1. CASE Answer(r, "ok")
    BY <1>2, <2>1 DEF Answers
  <2>2. CASE ~Answer(r, "ok")
    <3>1. req'[r].found = page
      BY <1>1, <1>3, <2>2 DEF IndexPage, Become, RequestState
    <3>2. page \subseteq Entries(Call[r])
      BY DEF Newest, After
    <3>. QED  BY <3>1, <3>2
  <2>. QED  BY <2>1, <2>2
<1>4. ASSUME ~\E code \in Answers : Answer(r, code), ~IndexPage(r)
      PROVE  req'[r].pc # "fetch"
  <2>1. CASE Begin(r)
    BY <1>1, <2>1 DEF Begin, Become, Rest
  <2>2. CASE Validate(r)
    BY <1>1, <1>4, <2>2 DEF Validate, Become, Rest, Answers
  <2>3. CASE Read(r)
    BY <1>1, <1>4, <2>3 DEF Read, Become, Rest, Answers
  <2>4. CASE Write(r)
    <3>1. PICK store \in Stores : WriteOne(r, store)
      BY <2>4 DEF Write
    <3>. QED  BY <1>1, <1>4, <3>1 DEF WriteOne, Become, RequestState, Answers
  <2>5. CASE StartList(r)
    BY <1>1, <1>4, <2>5 DEF StartList, Become, RequestState, Answers
  <2>6. CASE ScanPage(r)
    <3>. DEFINE x(page) == [req[r] EXCEPT !.last = Oldest(page), !.got = @ \cup page]
    <3>1. req[r].pc = "page" /\ \E page : Become(r, x(page))
      BY <1>4, <2>6 DEF ScanPage, Answers, Is
    <3>2. \A page : x(page).pc = req[r].pc
      BY <1>1 DEF RequestState
    <3>. QED  BY <1>1, <3>1, <3>2 DEF Become
  <2>7. CASE Fetch(r)
    <3>. DEFINE x == [req[r] EXCEPT !.pc = "page", !.found = {}, !.got = @ \cup req[r].found]
    <3>1. Become(r, x)
      BY <1>4, <2>7 DEF Fetch, Answers
    <3>2. x.pc = "page"
      BY <1>1 DEF RequestState
    <3>. QED  BY <1>1, <3>1, <3>2 DEF Become
  <2>. QED  BY <1>4, <2>1, <2>2, <2>3, <2>4, <2>5, <2>6, <2>7 DEF Serve
<1>. QED  BY <1>2, <1>3, <1>4

LEMMA StepFoundKnown == Typed /\ Consistent /\ FoundKnown /\ [Next]_vars => FoundKnown'
<1>. SUFFICES ASSUME Typed, Consistent, FoundKnown, [Next]_vars,
                     NEW r \in Requests, req'[r].pc = "fetch", NEW k \in req'[r].found
              PROVE  Known(k)'
  BY DEF FoundKnown
<1>1. Typed'
  BY StepTyped
<1>2. k \in Keys
  BY <1>1 DEF Typed, TypeOK, RequestState
<1>3. Known(k)
  <2>1. CASE Begin(r) \/ Serve(r)
    BY <2>1, ComesToFetch, EntriesKnown
  <2>2. CASE req'[r] = req[r]
    BY <2>2 DEF FoundKnown
  <2>3. Begin(r) \/ Serve(r) \/ req'[r] = req[r]
    <3>1. ASSUME NEW q \in Requests, Begin(q) \/ Serve(q) PROVE q = r \/ req'[r] = req[r]
      BY <3>1, OneServed
    <3>2. CASE Crash
      BY <3>2 DEF Crash, Rest
    <3>3. CASE Finished \/ UNCHANGED vars
      BY <3>3 DEF Finished, vars
    <3>. QED  BY <3>1, <3>2, <3>3 DEF Next
  <2>. QED  BY <2>1, <2>2, <2>3
<1>. QED  BY <1>2, <1>3, KnownStays

\* A listing of an index breaks off only for a record whose add is under way,
\* or was cut short or overlapped; no delete makes it fail.
THEOREM ListingsFailForAdds == Spec => ListFailsForUnfinishedAdds
<1>1. Init => FoundKnown
  BY DEF Init, FoundKnown, Rest
<1>2. Typed /\ FoundKnown /\ [Next]_vars =>
        [\A r \in Requests : (req[r].pc = "fetch" /\ req'[r].pc = "500") =>
            \E k \in req[r].found : k \in disturbed \/ Writing(k)]_vars
  <2>. SUFFICES ASSUME Typed, FoundKnown, [Next]_vars,
                       NEW r \in Requests, req[r].pc = "fetch", req'[r].pc = "500"
                PROVE  \E k \in req[r].found : k \in disturbed \/ Writing(k)
    OBVIOUS
  <2>1. Fetch(r)
    <3>1. ASSUME NEW q \in Requests, Begin(q) \/ Serve(q) PROVE q = r
      BY <3>1, OneServed
    <3>2. ~Crash /\ ~Finished /\ ~UNCHANGED vars
      BY DEF Crash, Finished, vars, Answers, Rest
    <3>3. Begin(r) \/ Serve(r)
      BY <3>1, <3>2 DEF Next
    <3>. QED
      BY <3>3 DEF Begin, Serve, Validate, Read, Write, WriteOne, StartList, ScanPage, IndexPage, Is
  <2>2. PICK k \in req[r].found : data[k] = Absent
    <3>. SUFFICES ASSUME ~\E k \in req[r].found : data[k] = Absent PROVE FALSE
      OBVIOUS
    <3>. DEFINE x == [req[r] EXCEPT !.pc = "page", !.found = {}, !.got = @ \cup req[r].found]
    <3>1. req'[r] = x
      BY <2>1 DEF Fetch, Become, Typed, TypeOK
    <3>2. x.pc = "page"
      BY DEF Typed, TypeOK, RequestState
    <3>. QED  BY <3>1, <3>2
  <2>3. Known(k)
    BY DEF FoundKnown
  <2>4. k \in Keys
    BY DEF Typed, TypeOK, RequestState
  <2>. QED
    BY <2>2, <2>3, <2>4 DEF Known, Holds, Writing, InFlight, Busy, Typed, OnTrack
<1>. QED
  BY <1>1, <1>2, InitTyped, InitConsistent, StepTyped, StepConsistent, StepFoundKnown,
     PTL DEF Spec, ListFailsForUnfinishedAdds

-----------------------------------------------------------------------------
\* A listing skips one entry for each cursor it lost

Lists(r) == Call[r].kind = "list" /\ req[r].pc \in Busy

\* What a listing iterates over, and what it should show.
Iterated(call) == IF Scans(call) THEN Scanned(call) ELSE Entries(call)
Wanted(r) == (req[r].due \cap Listable(Call[r])) \ disturbed

\* What a listing in state x has gone past; whether its cursor is gone.
Skipped(W, x) == {k \in W : x.last # 0 /\ x.last <= k /\ k \notin x.got \cup x.found}
Lost(E, x) == x.last # 0 /\ x.last \notin E

\* What was skipped, or is about to be, is accounted for by n - x.before writes
\* that removed entries.
Accounted(call, E, W, x, n) ==
    /\ x.pc # "write" /\ (x.pc # "fetch" => x.found = {})
    /\ IF Scans(call)
       THEN Skipped(W, x) = {} /\ ~Lost(E, x)
       ELSE Cardinality(Skipped(W, x)) + (IF Lost(E, x) THEN 1 ELSE 0) + x.before <= n

\* A record that was there when a listing began is still there, and an add that
\* is still at work on it has no part in its being listed.
DueStored ==
    \A r \in Requests : Lists(r) =>
        \A k \in req[r].due \ disturbed :
            /\ data[k] # Absent
            /\ \A s \in Requests : (Call[s].kind \in Adds /\ Holds(s, k))
                                      => k \in Listable(Call[r])

Paging ==
    /\ DueStored
    /\ \A r \in Requests : Lists(r) =>
          Accounted(Call[r], Iterated(Call[r]), Wanted(r), req[r], erased)

LEMMA ListableIterated ==
    \A call :
        /\ Listable(call) = {k \in Iterated(call) :
                                IF Scans(call) THEN Matches(call, k) ELSE Live(k)}
        /\ Iterated(call) \subseteq Keys
  BY DEF Listable, Iterated, Scanned, Entries

\* Pages

LEMMA KeysFinite == IsFiniteSet(Keys)
<1>1. LastKey \in Nat
  BY KeysTyped
<1>. QED  BY <1>1, FS_Interval DEF Keys

LEMMA NewestKey == \A S \in SUBSET Keys : S # {} => \E k \in S : \A j \in S : ~(j > k)
<1>. SUFFICES ASSUME NEW S \in SUBSET Keys, S # {}
              PROVE  \E k \in S : \A j \in S : ~(j > k)
  OBVIOUS
<1>. DEFINE T == {LastKey - k : k \in S}
<1>1. LastKey \in Nat /\ \A k \in S : k \in 1..LastKey
  BY KeysTyped DEF Keys
<1>2. T \subseteq Nat /\ T # {}
  BY <1>1
<1>3. PICK m \in T : \A i \in T : ~(<<i, m>> \in OpToRel(<, Nat))
  <2>. HIDE DEF T
  <2>. QED  BY <1>2, NatLessThanWellFounded, WFMin
<1>4. \A i \in T : ~(i < m)
  <2>. HIDE DEF T
  <2>. QED  BY <1>2, <1>3 DEF OpToRel
<1>5. PICK k \in S : m = LastKey - k
  OBVIOUS
<1>6. ASSUME NEW j \in S PROVE ~(j > k)
  <2>1. ~(LastKey - j < LastKey - k)
    BY <1>4, <1>5
  <2>2. j \in Nat /\ k \in Nat
    BY <1>1
  <2>. QED  BY <1>1, <2>1, <2>2
<1>. QED  BY <1>6

\* A page holds what is not older than its oldest, and is empty for nothing.
LEMMA PageHolds ==
    ASSUME NEW S \in SUBSET Keys
    PROVE  /\ Newest(S) \subseteq S
           /\ Newest(S) = {} => S = {}
           /\ Newest(S) # {} => /\ Oldest(Newest(S)) \in S
                                /\ \A k \in S : Oldest(Newest(S)) <= k => k \in Newest(S)
<1>. DEFINE above(k) == {j \in S : j > k}
<1>0. Newest(S) = {k \in S : Cardinality(above(k)) < Limit} /\ Limit \in Nat \ {0}
  BY BoundsTyped DEF Newest
<1>1. ASSUME S # {} PROVE Newest(S) # {}
  <2>1. PICK k \in S : above(k) = {}
    BY <1>1, NewestKey
  <2>2. Cardinality(above(k)) = 0
    BY <2>1, FS_EmptySet
  <2>. QED  BY <1>0, <2>1, <2>2
<1>2. ASSUME Newest(S) # {}, NEW k \in S, Oldest(Newest(S)) <= k
      PROVE  k \in Newest(S)
  <2>. DEFINE o == Oldest(Newest(S))
  <2>1. o \in Newest(S)
    BY <1>0, <1>2, OldestKey
  <2>2. /\ o \in Nat /\ k \in Nat /\ o <= k /\ S \subseteq Keys
        /\ \A j \in S : j \in Nat
    BY <1>0, <1>2, <2>1, KeysBelow
  <2>. HIDE DEF o
  <2>3. above(k) \subseteq above(o) /\ above(o) \subseteq Keys
    <3>1. \A j \in S : j > k => j > o
      BY <2>2
    <3>. QED  BY <2>2, <3>1
  <2>4. /\ Cardinality(above(k)) <= Cardinality(above(o))
        /\ Cardinality(above(k)) \in Nat /\ Cardinality(above(o)) \in Nat
    <3>. HIDE DEF above
    <3>1. IsFiniteSet(above(o))
      BY <2>3, KeysFinite, FS_Subset
    <3>2. IsFiniteSet(above(k)) /\ Cardinality(above(k)) <= Cardinality(above(o))
      BY <2>3, <3>1, FS_Subset
    <3>. QED  BY <3>1, <3>2, FS_CardinalityType
  <2>5. Cardinality(above(o)) < Limit
    BY <1>0, <2>1
  <2>6. Cardinality(above(k)) < Limit
    <3>. HIDE DEF above
    <3>. QED  BY <1>0, <2>4, <2>5
  <2>. QED  BY <1>0, <2>6
<1>3. Newest(S) # {} => Oldest(Newest(S)) \in S
  BY <1>0, OldestKey
<1>. QED  BY <1>0, <1>1, <1>2, <1>3

\* What does not come after a cursor is skipped only when the cursor is gone,
\* and then it is the one next to it.
LEMMA AfterCursor ==
    ASSUME NEW E \in SUBSET Keys, NEW last \in Keys \cup {0}, NEW k \in E,
           last = 0 \/ ~(last <= k), k \notin After(E, last)
    PROVE  /\ last # 0 /\ last \notin E
           /\ \A j \in E : ~(last <= j) => j <= k
<1>1. last # 0 /\ last \in Nat /\ \A j \in E : j \in Nat
  BY KeysBelow DEF After
<1>2. k < last
  BY <1>1
<1>3. \A j \in E : j <= last => ~(j > k)
  BY <1>1, <1>2 DEF After
<1>. QED  BY <1>1, <1>2, <1>3

\* What is wanted of a listing only shrinks

\* What the step of one store does to a key nobody disturbed.
LEMMA WriteOn ==
    ASSUME Typed, Consistent, NEW s \in Requests, NEW store \in Stores, WriteOne(s, store),
           NEW k \in Keys \ disturbed
    PROVE  /\ data[k] # Absent => data'[k] # Absent
           /\ ~Holds(s, k) => /\ data'[k] = data[k]
                              /\ \A t \in Targets : <<t, k>> \in index' <=> <<t, k>> \in index
           /\ Holds(s, k) /\ Call[s].kind \in Adds =>
                 /\ Live(k) => Live(k)' /\ data'[k] = data[k]
                 /\ \A t \in Targets : <<t, k>> \in index => <<t, k>> \in index'
           /\ Holds(s, k) /\ Call[s].kind \notin Adds =>
                 /\ Live(k)' => Live(k) /\ data'[k] = data[k]
                 /\ \A t \in Targets : <<t, k>> \in index' => <<t, k>> \in index
<1>1. /\ req[s] \in RequestState /\ data \in [Keys -> HistoryRecord \cup {Absent}]
      /\ req[s].pc = "write"
  BY DEF Typed, TypeOK, WriteOne
<1>2. data'[k] = IF store = "data" /\ req[s].mem[k] # Absent THEN req[s].mem[k] ELSE data[k]
  BY <1>1 DEF WriteOne, Written
<1>3. \A t \in Targets : <<t, k>> \in index' <=>
          \/ store = "data" /\ <<t, k>> \in index
          \/ store # "data" /\ Call[s].kind \in Adds
             /\ (<<t, k>> \in index \/ <<t, k>> \in EntriesOf(s, store))
          \/ store # "data" /\ Call[s].kind \notin Adds
             /\ (<<t, k>> \in index /\ <<t, k>> \notin EntriesOf(s, store))
  BY DEF WriteOne, Indexed
<1>4. \A t \in Targets : <<t, k>> \in EntriesOf(s, store) => req[s].mem[k] # Absent
  BY DEF EntriesOf
<1>5. Holds(s, k) <=> req[s].mem[k] # Absent
  BY <1>1 DEF Holds
<1>6. Holds(s, k) => /\ req[s].mem[k].deleted <=> Call[s].kind \notin Adds
                     /\ Call[s].kind \in Adds => data[k] \in {Absent, req[s].mem[k]}
  BY DEF Consistent, Agreeing, HalfWritten
<1>. QED  BY <1>2, <1>3, <1>4, <1>5, <1>6 DEF Live

\* A record that is live is found by a search of what it belongs to.
Found(call, k) ==
    /\ InIndex(call.targets, "app") = call.targets => UserOf[k] = call.user
    /\ call.targets # {} => Subject(call) \cap data[k].targets # {}

LEMMA InListable ==
    ASSUME NEW call, NEW k \in Keys
    PROVE  k \in Listable(call) <=>
              /\ Live(k)
              /\ IF Scans(call) THEN Found(call, k)
                 ELSE \E t \in Subject(call) :
                         <<t, k>> \in index /\ (KindOf[t] = "app" => UserOf[k] = call.user)
  BY DEF Listable, Scanned, Matches, Found, Entries, Live

\* Two writers in flight have nothing undisturbed in common.
LEMMA OneWriter ==
    ASSUME Typed, Consistent, NEW k \in Keys \ disturbed,
           NEW q \in Requests, NEW s \in Requests, Holds(q, k), Holds(s, k)
    PROVE  q = s
  BY DEF Consistent, Apart, Holds, InFlight, Busy, Typed, OnTrack

LEMMA CallTargets == \A r \in Requests : Call[r].targets \subseteq Targets
  BY CallsTyped DEF CallType

\* A store answers: nothing comes back into a listing that had it, and nothing
\* leaves it that an add is at work on.
LEMMA WriteListable ==
    ASSUME Typed, Consistent, NEW s \in Requests, NEW store \in Stores, WriteOne(s, store),
           NEW k \in Keys \ disturbed, NEW r \in Requests
    PROVE  /\ (k \in Listable(Call[r]))' /\ k \notin Listable(Call[r]) =>
                 Holds(s, k) /\ Call[s].kind \in Adds
           /\ Holds(s, k) /\ Call[s].kind \in Adds /\ k \in Listable(Call[r]) =>
                 (k \in Listable(Call[r]))'
           /\ ~Holds(s, k) => ((k \in Listable(Call[r]))' <=> k \in Listable(Call[r]))
<1>. DEFINE L == Subject(Call[r])
            listed == IF Scans(Call[r]) THEN Found(Call[r], k)
                      ELSE \E t \in L : <<t, k>> \in index
                                         /\ (KindOf[t] = "app" => UserOf[k] = Call[r].user)
<1>1. L \subseteq Targets /\ L' = L
  BY CallTargets DEF Subject, InIndex
<1>2. k \in Listable(Call[r]) <=> Live(k) /\ listed
  BY InListable
<1>3. (k \in Listable(Call[r]))' <=> Live(k)' /\ listed'
  BY <1>1 DEF Listable, Scans, Scanned, Matches, Found, Subject, Entries, Live
<1>4. data'[k] = data[k] => (Found(Call[r], k)' <=> Found(Call[r], k))
  BY DEF Found, Subject, InIndex
<1>5. /\ ~Holds(s, k) => (Live(k)' <=> Live(k)) /\ (listed' <=> listed)
      /\ Holds(s, k) /\ Call[s].kind \in Adds /\ Live(k) => Live(k)' /\ (listed => listed')
      /\ Holds(s, k) /\ Call[s].kind \notin Adds /\ Live(k)' => Live(k) /\ (listed' => listed)
  <2>0. Scans(Call[r])' <=> Scans(Call[r])
    BY DEF Scans
  <2>1. ASSUME ~Holds(s, k) PROVE (Live(k)' <=> Live(k)) /\ (listed' <=> listed)
    BY <1>1, <1>4, <2>0, <2>1, WriteOn DEF Live
  <2>2. ASSUME Holds(s, k), Call[s].kind \in Adds, Live(k)
        PROVE  Live(k)' /\ (listed => listed')
    BY <1>1, <1>4, <2>0, <2>2, WriteOn
  <2>3. ASSUME Holds(s, k), Call[s].kind \notin Adds, Live(k)'
        PROVE  Live(k) /\ (listed' => listed)
    BY <1>1, <1>4, <2>0, <2>3, WriteOn
  <2>. QED  BY <2>1, <2>2, <2>3
<1>. HIDE DEF listed
<1>. QED  BY <1>2, <1>3, <1>5

LEMMA WantedShrinks ==
    ASSUME Typed, Consistent, DueStored, NEW r \in Requests, Lists(r), req'[r] = req[r],
           NEW s \in Requests, Begin(s) \/ Serve(s)
    PROVE  Wanted(r)' \subseteq Wanted(r)
<1>0. /\ req[r].due \subseteq Keys /\ disturbed \subseteq disturbed'
      /\ \A call : Listable(call) \subseteq Keys
  BY OneServed, ListableIterated DEF Typed, TypeOK, RequestState
<1>1. CASE req[s].pc # "write"
  <2>1. UNCHANGED <<data, index>>
    BY <1>1, OneServed
  <2>. QED  BY <1>0, <2>1 DEF Wanted, Listable, Scans, Scanned, Matches, Subject, Entries, Live
<1>2. ASSUME NEW store \in Stores, WriteOne(s, store) PROVE Wanted(r)' \subseteq Wanted(r)
  <2>. SUFFICES ASSUME NEW k \in Keys, k \in req[r].due, k \notin disturbed,
                       (k \in Listable(Call[r]))'
                PROVE  k \in Listable(Call[r])
    BY <1>0 DEF Wanted
  <2>1. Holds(s, k) /\ Call[s].kind \in Adds => k \in Listable(Call[r])
    BY DEF DueStored
  <2>. QED  BY <1>2, <2>1, WriteListable
<1>. QED  BY <1>1, <1>2, OneServed DEF Write

\* The steps of a listing

\* From q to x: a page of what is iterated over, without those that do not count.
OwnTurn(r, q, x) ==
    LET page == Newest({k \in After(Scanned(Call[r]), q.last) : Matches(Call[r], k)})
    IN  /\ Scans(Call[r]) /\ q.pc = "page" /\ x.pc = "page" /\ page # {}
        /\ x.last = Oldest(page) /\ x.got = q.got \cup page /\ x.found = q.found

IndexTurn(r, q, x) ==
    LET page == Newest(After(Entries(Call[r]), q.last))
    IN  /\ ~Scans(Call[r]) /\ q.pc = "page" /\ x.pc = "fetch" /\ page # {}
        /\ x.last = Oldest(page) /\ x.got = q.got /\ x.found = page

Shows(q, x) ==
    \/ /\ q.pc = "begin" /\ x.pc = "page"
       /\ x.last = q.last /\ x.got = q.got /\ x.found = q.found
    \/ /\ q.pc = "fetch" /\ x.pc = "page"
       /\ x.last = q.last /\ x.got = q.got \cup q.found /\ x.found = {}

Starts(r, x) ==
    /\ x.pc = "begin" /\ x.last = 0 /\ x.got = {} /\ x.found = {}
    /\ x.due = Listable(Call[r]) /\ x.before = erased

GoesOn(r, q, x) ==
    /\ q.pc \in Busy /\ x.due = q.due /\ x.before = q.before
    /\ OwnTurn(r, q, x) \/ IndexTurn(r, q, x) \/ Shows(q, x)

LEMMA ListMoves ==
    ASSUME Typed, NEW r \in Requests, Call[r].kind = "list", Begin(r) \/ Serve(r),
           req[r].pc # "write", req'[r].pc \in Busy
    PROVE  /\ UNCHANGED <<data, index, erased>>
           /\ Starts(r, req'[r]) \/ GoesOn(r, req[r], req'[r])
<1>. DEFINE q == req[r]
<1>1. req \in [Requests -> RequestState] /\ q \in RequestState
  BY DEF Typed, TypeOK
<1>2. ASSUME NEW x, Become(r, x) PROVE req'[r] = x
  BY <1>1, <1>2 DEF Become
<1>3. \A code \in Answers : ~Answer(r, code)
  <2>. SUFFICES ASSUME NEW code \in Answers, Answer(r, code) PROVE FALSE
    OBVIOUS
  <2>1. req'[r] = [Rest EXCEPT !.pc = code]
    BY <1>2 DEF Answer
  <2>2. [Rest EXCEPT !.pc = code].pc = code
    BY RestTyped DEF RequestState
  <2>. QED  BY <2>1, <2>2 DEF Answers, Busy
<1>4. UNCHANGED <<data, index, erased>>
  BY OneServed
<1>5. Begin(r) \/ StartList(r) \/ ScanPage(r) \/ IndexPage(r) \/ Fetch(r)
  BY DEF Serve, Validate, Read, Write, WriteOne, Is, Adds, Deletes
<1>6. CASE Begin(r)
  <2>. DEFINE x == [Rest EXCEPT !.pc = "begin", !.due = Listable(Call[r]), !.before = erased]
  <2>1. req'[r] = x
    BY <1>2, <1>6 DEF Begin
  <2>2. Starts(r, x)
    BY DEF Rest, Starts
  <2>. QED  BY <1>4, <2>1, <2>2
<1>7. CASE StartList(r)
  <2>. DEFINE x == [q EXCEPT !.pc = "page"]
  <2>1. req'[r] = x /\ q.pc = "begin"
    BY <1>2, <1>3, <1>7 DEF StartList, Answers, Is
  <2>2. GoesOn(r, q, x)
    BY <1>1, <2>1 DEF GoesOn, Shows, RequestState, Busy
  <2>. QED  BY <1>4, <2>1, <2>2
<1>8. CASE ScanPage(r)
  <2>. DEFINE page == Newest({k \in After(Scanned(Call[r]), q.last) : Matches(Call[r], k)})
              x == [q EXCEPT !.last = Oldest(page), !.got = @ \cup page]
  <2>1. req'[r] = x /\ q.pc = "page" /\ page # {} /\ Scans(Call[r])
    BY <1>2, <1>3, <1>8 DEF ScanPage, Answers, Is
  <2>2. /\ x.pc = "page" /\ x.last = Oldest(page) /\ x.got = q.got \cup page
        /\ x.found = q.found /\ x.due = q.due /\ x.before = q.before
    <3>. HIDE DEF page
    <3>. QED  BY <1>1, <2>1 DEF RequestState
  <2>3. GoesOn(r, q, x)
    <3>. HIDE DEF x
    <3>. QED  BY <2>1, <2>2 DEF GoesOn, OwnTurn, Busy
  <2>. QED  BY <1>4, <2>1, <2>3
<1>9. CASE IndexPage(r)
  <2>. DEFINE page == Newest(After(Entries(Call[r]), q.last))
              x == [q EXCEPT !.pc = "fetch", !.last = Oldest(page), !.found = page]
  <2>1. req'[r] = x /\ q.pc = "page" /\ page # {} /\ ~Scans(Call[r])
    BY <1>2, <1>3, <1>9 DEF IndexPage, Answers, Is
  <2>2. /\ x.pc = "fetch" /\ x.last = Oldest(page) /\ x.got = q.got
        /\ x.found = page /\ x.due = q.due /\ x.before = q.before
    <3>. HIDE DEF page
    <3>. QED  BY <1>1, <2>1 DEF RequestState
  <2>3. GoesOn(r, q, x)
    <3>. HIDE DEF x
    <3>. QED  BY <2>1, <2>2 DEF GoesOn, IndexTurn, Busy
  <2>. QED  BY <1>4, <2>1, <2>3
<1>10. CASE Fetch(r)
  <2>. DEFINE x == [q EXCEPT !.pc = "page", !.found = {}, !.got = @ \cup q.found]
  <2>1. req'[r] = x /\ q.pc = "fetch"
    BY <1>2, <1>3, <1>10 DEF Fetch, Answers, Is
  <2>2. GoesOn(r, q, x)
    BY <1>1, <2>1 DEF GoesOn, Shows, RequestState, Busy
  <2>. QED  BY <1>4, <2>1, <2>2
<1>. QED  BY <1>5, <1>6, <1>7, <1>8, <1>9, <1>10

\* An add gets hold of what it writes when it was validated, and then disturbs
\* what was there.
LEMMA AddsDisturb ==
    ASSUME Typed, NEW s \in Requests, Begin(s) \/ Serve(s), Call[s].kind \in Adds,
           NEW k \in Keys, Holds(s, k)', data[k] # Absent, ~Holds(s, k)
    PROVE  k \in disturbed'
<1>1. req \in [Requests -> RequestState] /\ req[s] \in RequestState
  BY DEF Typed, TypeOK
<1>2. ASSUME NEW x, Become(s, x) PROVE req'[s] = x
  BY <1>1, <1>2 DEF Become
<1>3. ASSUME NEW code \in Answers PROVE ~Answer(s, code)
  <2>. SUFFICES ASSUME Answer(s, code) PROVE FALSE
    OBVIOUS
  <2>1. req'[s] = [Rest EXCEPT !.pc = code]
    BY <1>2 DEF Answer
  <2>2. [Rest EXCEPT !.pc = code].pc = code
    BY RestTyped DEF RequestState
  <2>. QED  BY <2>1, <2>2 DEF Answers, Holds
<1>4. Begin(s) \/ Validate(s) \/ Write(s)
  BY DEF Serve, Read, StartList, ScanPage, IndexPage, Fetch, Is, Adds, Deletes
<1>5. CASE Begin(s)
  BY <1>2, <1>5 DEF Begin, Rest, Holds, Adds
<1>6. CASE Validate(s)
  <2>. DEFINE records == [j \in Keys |-> IF j \in Call[s].keys
                             THEN [deleted |-> FALSE, targets |-> Call[s].targets] ELSE Absent]
              x == [Rest EXCEPT !.pc = "write", !.mem = records,
                                !.todo = Concerned(records, Call[s].keys)]
  <2>1. req'[s] = x /\ disturbed' = disturbed \cup {j \in Call[s].keys : data[j] # Absent}
    BY <1>2, <1>3, <1>6 DEF Validate, Answers
  <2>2. x.mem = records
    BY RestTyped DEF RequestState
  <2>3. k \in Call[s].keys
    BY <2>1, <2>2 DEF Holds
  <2>. QED  BY <2>1, <2>3
<1>7. CASE Write(s)
  <2>1. PICK store \in Stores : WriteOne(s, store)
    BY <1>7 DEF Write
  <2>2. Become(s, [req[s] EXCEPT !.todo = @ \ {store}]) /\ req[s].pc = "write"
    BY <1>3, <2>1 DEF WriteOne, Answers
  <2>3. req'[s].mem = req[s].mem
    BY <1>1, <1>2, <2>2 DEF RequestState
  <2>. QED  BY <2>2, <2>3 DEF Holds
<1>. QED  BY <1>4, <1>5, <1>6, <1>7

\* A step of request s leaves what an add is at work on in the listing of r.
LEMMA ListedStays ==
    ASSUME Typed, Consistent, DueStored, NEW r \in Requests, Lists(r),
           NEW s \in Requests, Begin(s) \/ Serve(s), s # r,
           NEW k \in req[r].due, k \notin disturbed', k \in Keys
    PROVE  /\ data'[k] # Absent
           /\ \A q \in Requests : (Call[q].kind \in Adds /\ Holds(q, k)')
                                     => (k \in Listable(Call[r]))'
<1>0. k \in Keys \ disturbed
  BY OneServed
<1>1. data[k] # Absent /\ \A q \in Requests : (Call[q].kind \in Adds /\ Holds(q, k))
                                                  => k \in Listable(Call[r])
  BY <1>0 DEF DueStored
<1>2. ASSUME NEW q \in Requests, Call[q].kind \in Adds, Holds(q, k)' PROVE Holds(q, k)
  <2>1. CASE q = s
    BY <1>1, <1>2, <2>1, AddsDisturb
  <2>2. CASE q # s
    BY <1>2, <2>2, OneServed DEF Holds
  <2>. QED  BY <2>1, <2>2
<1>3. CASE req[s].pc # "write"
  <2>1. UNCHANGED <<data, index>>
    BY <1>3, OneServed
  <2>2. (k \in Listable(Call[r]))' <=> k \in Listable(Call[r])
    BY <2>1 DEF Listable, Scans, Scanned, Matches, Subject, Entries, Live
  <2>. QED  BY <1>1, <1>2, <2>1, <2>2
<1>4. ASSUME NEW store \in Stores, WriteOne(s, store),
             NEW q \in Requests, Call[q].kind \in Adds, Holds(q, k)
      PROVE  (k \in Listable(Call[r]))'
  <2>1. k \in Listable(Call[r])
    BY <1>1, <1>4
  <2>2. Holds(s, k) => s = q
    BY <1>0, <1>4, OneWriter
  <2>. QED  BY <1>0, <1>4, <2>1, <2>2, WriteListable
<1>5. ASSUME NEW store \in Stores, WriteOne(s, store) PROVE data'[k] # Absent
  BY <1>0, <1>1, <1>5, WriteOn
<1>. QED  BY <1>2, <1>3, <1>4, <1>5, OneServed DEF Write

\* What is due at a listing is stored, before and after one of its own steps.
LEMMA OwnDueStays ==
    ASSUME Typed, DueStored, NEW r \in Requests, Call[r].kind = "list",
           Begin(r) \/ Serve(r), req[r].pc # "write", req'[r].pc \in Busy,
           NEW k \in req'[r].due, k \notin disturbed'
    PROVE  /\ data'[k] # Absent
           /\ \A q \in Requests : (Call[q].kind \in Adds /\ Holds(q, k)')
                                     => (k \in Listable(Call[r]))'
<1>1. UNCHANGED <<data, index>> /\ (Starts(r, req'[r]) \/ GoesOn(r, req[r], req'[r]))
  BY ListMoves
<1>2. (k \in Listable(Call[r]))' <=> k \in Listable(Call[r])
  BY <1>1 DEF Listable, Scans, Scanned, Matches, Subject, Entries, Live
<1>3. CASE Starts(r, req'[r])
  BY <1>1, <1>2, <1>3 DEF Starts, Listable, Matches, Live
<1>4. CASE GoesOn(r, req[r], req'[r])
  <2>1. Lists(r) /\ k \in req[r].due /\ k \notin disturbed
    BY <1>4, OneServed DEF GoesOn, Lists
  <2>2. \A q \in Requests : Call[q].kind \in Adds => (Holds(q, k)' <=> Holds(q, k))
    BY OneServed DEF Holds, Adds
  <2>. QED  BY <1>1, <1>2, <2>1, <2>2 DEF DueStored
<1>. QED  BY <1>1, <1>3, <1>4

LEMMA NobodyListsOn ==
    ASSUME Crash, NEW r \in Requests
    PROVE  ~Lists(r)'
<1>1. [Rest EXCEPT !.pc = "lost"].pc = "lost"
  BY DEF Rest
<1>2. req'[r].pc = "lost" \/ (r \notin InFlight /\ req'[r] = req[r])
  BY <1>1 DEF Crash
<1>. QED  BY <1>2 DEF Lists, InFlight, Busy

\* The accounts

LEMMA SkippedFinite ==
    ASSUME NEW W \in SUBSET Keys, NEW x
    PROVE  /\ IsFiniteSet(Skipped(W, x)) /\ Cardinality(Skipped(W, x)) \in Nat
           /\ \A V \in SUBSET W : Cardinality(Skipped(V, x)) <= Cardinality(Skipped(W, x))
<1>1. IsFiniteSet(Skipped(W, x))
  BY KeysFinite, FS_Subset DEF Skipped
<1>2. \A V \in SUBSET W : Skipped(V, x) \subseteq Skipped(W, x)
  BY DEF Skipped
<1>. QED  BY <1>1, <1>2, FS_Subset, FS_CardinalityType

\* Others write: less is wanted, and a cursor that gets lost is paid for.
LEMMA OthersAccounted ==
    ASSUME NEW call, NEW x \in RequestState, NEW E, NEW F, NEW W \in SUBSET Keys,
           NEW V \in SUBSET W, NEW n \in Nat, NEW m \in Nat,
           Accounted(call, E, W, x, n),
           m = n \/ m = n + 1,
           ~Lost(E, x) /\ Lost(F, x) => m = n + 1 /\ ~Scans(call)
    PROVE  Accounted(call, F, V, x, m)
<1>1. Skipped(V, x) \subseteq Skipped(W, x)
  BY DEF Skipped
<1>2. CASE Scans(call)
  BY <1>1, <1>2 DEF Accounted
<1>3. CASE ~Scans(call)
  <2>. DEFINE a == Cardinality(Skipped(W, x))
              b == Cardinality(Skipped(V, x))
  <2>1. a \in Nat /\ b \in Nat /\ b <= a /\ x.before \in Nat
    BY SkippedFinite DEF RequestState
  <2>2. a + (IF Lost(E, x) THEN 1 ELSE 0) + x.before <= n
    BY <1>3 DEF Accounted
  <2>. HIDE DEF a, b
  <2>3. b + (IF Lost(F, x) THEN 1 ELSE 0) + x.before <= m
    <3>1. CASE Lost(F, x)
      BY <2>1, <2>2, <3>1
    <3>2. CASE ~Lost(F, x)
      BY <2>1, <2>2, <3>2
    <3>. QED  BY <3>1, <3>2
  <2>. QED  BY <1>3, <2>3 DEF Accounted, b
<1>. QED  BY <1>2, <1>3

LEMMA OthersPay ==
    ASSUME Typed, Consistent, Paging, NEW r \in Requests, Lists(r),
           NEW s \in Requests, Begin(s) \/ Serve(s), s # r
    PROVE  Accounted(Call[r], Iterated(Call[r])', Wanted(r)', req'[r], erased')
<1>. DEFINE E == Iterated(Call[r])
            F == Iterated(Call[r])'
            x == req[r]
<1>1. /\ x \in RequestState /\ req'[r] = x /\ Wanted(r) \subseteq Keys
      /\ Wanted(r)' \subseteq Wanted(r) /\ Accounted(Call[r], E, Wanted(r), x, erased)
      /\ erased \in Nat
  BY OneServed, WantedShrinks DEF Typed, TypeOK, RequestState, Wanted, Paging
<1>2. CASE req[s].pc # "write"
  <2>1. UNCHANGED <<data, index, erased>>
    BY <1>2, OneServed
  <2>2. E = F
    BY <2>1 DEF Iterated, Scans, Scanned, Subject, Entries
  <2>. QED  BY <1>1, <2>1, <2>2, OthersAccounted
<1>3. ASSUME NEW store \in Stores, WriteOne(s, store)
      PROVE  Accounted(Call[r], F, Wanted(r)', x, erased')
  <2>1. Listing
    BY DEF Listing, Lists, InFlight
  <2>2. erased' = IF index \subseteq index' THEN erased ELSE erased + 1
    BY <1>3, <2>1 DEF WriteOne
  <2>3. ASSUME Scans(Call[r]) PROVE E \subseteq F
    <3>1. \A k \in Keys : data[k] # Absent => data'[k] # Absent
      BY <1>3 DEF WriteOne, Written
    <3>. QED  BY <2>3, <3>1 DEF Iterated, Scanned
  <2>4. ASSUME ~Scans(Call[r]), index \subseteq index' PROVE E \subseteq F
    BY <2>4 DEF Iterated, Entries
  <2>5. ~Lost(E, x) /\ Lost(F, x) => erased' = erased + 1 /\ ~Scans(Call[r])
    BY <2>2, <2>3, <2>4 DEF Lost
  <2>6. (erased' = erased \/ erased' = erased + 1) /\ erased' \in Nat
    BY <1>1, <2>2
  <2>. HIDE DEF E, F, x
  <2>. QED  BY <1>1, <2>5, <2>6, OthersAccounted
<1>. QED  BY <1>1, <1>2, <1>3, OneServed DEF Write

\* A page that goes through the records misses nothing.
LEMMA OwnTurnAccounted ==
    ASSUME NEW r \in Requests, NEW q \in RequestState, NEW x \in RequestState,
           OwnTurn(r, q, x), q.before = x.before, NEW W, W \subseteq Listable(Call[r]),
           Accounted(Call[r], Iterated(Call[r]), W, q, erased)
    PROVE  Accounted(Call[r], Iterated(Call[r]), W, x, erased)
<1>. DEFINE E == Scanned(Call[r])
            S == {k \in After(E, q.last) : Matches(Call[r], k)}
            page == Newest(S)
<1>1. /\ Scans(Call[r]) /\ q.pc = "page" /\ x.pc = "page" /\ page # {}
      /\ x.last = Oldest(page) /\ x.got = q.got \cup page /\ x.found = q.found
  BY DEF OwnTurn
<1>2. /\ E \subseteq Keys /\ E = Iterated(Call[r]) /\ S \subseteq E
      /\ \A k \in W : k \in E /\ Matches(Call[r], k)
  BY <1>1, ListableIterated DEF Iterated, After
<1>3. Skipped(W, q) = {} /\ ~Lost(E, q) /\ q.found = {}
  BY <1>1, <1>2 DEF Accounted
<1>4. /\ q.last \in Keys \cup {0}
      /\ Oldest(page) \in S /\ \A k \in S : Oldest(page) <= k => k \in page
  <2>1. S \in SUBSET Keys
    BY <1>2
  <2>. HIDE DEF S
  <2>. QED  BY <1>1, <2>1, PageHolds DEF RequestState
<1>5. ASSUME NEW k \in W, x.last <= k, k \notin x.got, k \notin x.found PROVE FALSE
  <2>1. q.last = 0 \/ ~(q.last <= k)
    BY <1>1, <1>3, <1>5 DEF Skipped
  <2>2. k \in After(E, q.last)
    <3>. HIDE DEF E
    <3>. QED  BY <1>2, <1>3, <1>4, <2>1, AfterCursor DEF Lost
  <2>3. k \in S
    BY <1>2, <2>2
  <2>. QED  BY <1>1, <1>4, <1>5, <2>3
<1>6. Skipped(W, x) = {} /\ ~Lost(E, x)
  BY <1>1, <1>2, <1>4, <1>5 DEF Skipped, Lost
<1>. QED  BY <1>1, <1>2, <1>3, <1>6 DEF Accounted

\* A page of an index misses what stands next to a cursor that is gone.
LEMMA MissesOne ==
    ASSUME NEW E \in SUBSET Keys, NEW W \in SUBSET E, NEW q \in RequestState,
           q.found = {}, NEW V, V \subseteq W, V \cap q.got = {},
           NEW page, page = Newest(After(E, q.last)), V \cap page = {},
           page # {} => \A k \in V : Oldest(page) <= k
    PROVE  /\ IsFiniteSet(V) /\ Cardinality(V) \in Nat
           /\ Cardinality(V) <= Cardinality(Skipped(W, q)) + (IF Lost(E, q) THEN 1 ELSE 0)
<1>. DEFINE A == After(E, q.last)
            D == Skipped(W, q)
<1>1. q.last \in Keys \cup {0} /\ A \in SUBSET Keys /\ A \subseteq E
  BY DEF RequestState, After
<1>2. \A k \in V : k \notin A
  <2>. HIDE DEF A
  <2>. QED  BY <1>1, PageHolds DEF A
<1>3. ASSUME NEW k \in V \ D
      PROVE  Lost(E, q) /\ \A j \in E : ~(q.last <= j) => j <= k
  <2>1. q.last = 0 \/ ~(q.last <= k)
    BY <1>3 DEF Skipped
  <2>. QED  BY <1>1, <1>2, <1>3, <2>1, AfterCursor DEF Lost
<1>4. \A j \in V \ D, k \in V \ D : j = k
  <2>1. ASSUME NEW j \in V \ D, NEW k \in V \ D PROVE j <= k
    <3>1. j \in E /\ ~(q.last <= j)
      BY <1>3 DEF Skipped, Lost
    <3>. QED  BY <1>3, <3>1
  <2>2. \A j \in V : j \in Nat
    BY KeysBelow
  <2>3. ASSUME NEW j \in V \ D, NEW k \in V \ D PROVE j = k
    <3>1. j <= k /\ k <= j
      BY <2>1
    <3>. QED  BY <2>2, <3>1
  <2>. QED  BY <2>3
<1>5. IsFiniteSet(D) /\ Cardinality(D) \in Nat
  <2>1. W \in SUBSET Keys
    OBVIOUS
  <2>. QED  BY <2>1, SkippedFinite
<1>6. CASE V \subseteq D
  BY <1>5, <1>6, FS_Subset, FS_CardinalityType
<1>7. CASE ~(V \subseteq D)
  <2>1. PICK k \in V : k \notin D
    BY <1>7
  <2>2. V \subseteq D \cup {k} /\ Lost(E, q)
    BY <1>3, <1>4, <2>1
  <2>3. IsFiniteSet(D \cup {k}) /\ Cardinality(D \cup {k}) = Cardinality(D) + 1
    <3>. HIDE DEF D
    <3>. QED  BY <1>5, <2>1, FS_AddElement
  <2>4. IsFiniteSet(V) /\ Cardinality(V) <= Cardinality(D) + 1
    <3>. HIDE DEF D
    <3>. QED  BY <2>2, <2>3, FS_Subset
  <2>. QED  BY <2>2, <2>4, FS_CardinalityType
<1>. QED  BY <1>6, <1>7

LEMMA IndexTurnAccounted ==
    ASSUME NEW r \in Requests, NEW q \in RequestState, NEW x \in RequestState,
           IndexTurn(r, q, x), q.before = x.before, NEW W, W \subseteq Listable(Call[r]),
           Accounted(Call[r], Iterated(Call[r]), W, q, erased), erased \in Nat
    PROVE  Accounted(Call[r], Iterated(Call[r]), W, x, erased)
<1>. DEFINE E == Entries(Call[r])
            page == Newest(After(E, q.last))
            V == Skipped(W, x)
            a == Cardinality(Skipped(W, q))
            b == Cardinality(V)
            one == IF Lost(E, q) THEN 1 ELSE 0
<1>1. /\ ~Scans(Call[r]) /\ q.pc = "page" /\ x.pc = "fetch" /\ page # {}
      /\ x.last = Oldest(page) /\ x.got = q.got /\ x.found = page
  BY DEF IndexTurn
<1>2. E \in SUBSET Keys /\ E = Iterated(Call[r]) /\ W \subseteq E
  BY <1>1, ListableIterated DEF Iterated
<1>3. a + one + q.before <= erased /\ q.found = {}
  BY <1>1, <1>2 DEF Accounted
<1>4. V \subseteq W /\ V \cap q.got = {} /\ V \cap page = {} /\ \A k \in V : Oldest(page) <= k
  BY <1>1 DEF Skipped
<1>5. b \in Nat /\ b <= a + one
  <2>. HIDE DEF E, V
  <2>. QED  BY <1>2, <1>3, <1>4, MissesOne
<1>6. ~Lost(E, x)
  <2>1. After(E, q.last) \in SUBSET Keys /\ After(E, q.last) \subseteq E
    BY <1>2 DEF After
  <2>2. Oldest(page) \in E
    <3>. HIDE DEF E
    <3>. QED  BY <1>1, <2>1, PageHolds
  <2>. QED  BY <1>1, <2>2 DEF Lost
<1>7. a \in Nat /\ q.before \in Nat
  BY <1>2, SkippedFinite DEF RequestState
<1>8. b + 0 + x.before <= erased
  <2>. HIDE DEF a, b
  <2>. QED  BY <1>3, <1>5, <1>7
<1>. QED  BY <1>1, <1>2, <1>6, <1>8 DEF Accounted

LEMMA ShowsAccounted ==
    ASSUME NEW call, NEW q \in RequestState, NEW x \in RequestState, NEW E, NEW W, NEW n,
           Shows(q, x), q.before = x.before, Accounted(call, E, W, q, n)
    PROVE  Accounted(call, E, W, x, n)
<1>1. x.last = q.last /\ x.got \cup x.found = q.got \cup q.found /\ x.pc = "page"
  BY DEF Shows
<1>2. Skipped(W, x) = Skipped(W, q) /\ (Lost(E, x) <=> Lost(E, q))
  BY <1>1 DEF Skipped, Lost
<1>3. x.found = {}
  BY DEF Shows, Accounted
<1>. QED  BY <1>1, <1>2, <1>3 DEF Accounted

LEMMA StartsAccounted ==
    ASSUME NEW r \in Requests, NEW x, Starts(r, x), NEW E, NEW W, erased \in Nat
    PROVE  Accounted(Call[r], E, W, x, erased)
<1>1. Skipped(W, x) = {} /\ ~Lost(E, x) /\ Cardinality(Skipped(W, x)) = 0
  BY FS_EmptySet DEF Starts, Skipped, Lost
<1>2. 0 + 0 + erased <= erased
  OBVIOUS
<1>. QED  BY <1>1, <1>2 DEF Starts, Accounted

\* What was skipped can only get less when more is disturbed.
LEMMA LessAccounted ==
    ASSUME NEW call, NEW x \in RequestState, NEW E, NEW W \in SUBSET Keys,
           NEW V \in SUBSET W, NEW n \in Nat, Accounted(call, E, W, x, n)
    PROVE  Accounted(call, E, V, x, n)
  BY OthersAccounted

LEMMA OwnAccounted ==
    ASSUME Typed, Typed', Paging, NEW r \in Requests, Call[r].kind = "list",
           Begin(r) \/ Serve(r), req'[r].pc \in Busy
    PROVE  Accounted(Call[r], Iterated(Call[r])', Wanted(r)', req'[r], erased')
<1>. DEFINE q == req[r]
            x == req'[r]
            E == Iterated(Call[r])
            W == Wanted(r)
<1>1. q.pc # "write"
  BY DEF Paging, Lists, Accounted, Busy
<1>2. /\ q \in RequestState /\ x \in RequestState /\ erased \in Nat
      /\ UNCHANGED <<data, index, erased>> /\ (Starts(r, x) \/ GoesOn(r, q, x))
  BY <1>1, ListMoves DEF Typed, TypeOK
<1>3. E' = E
  BY <1>2 DEF Iterated, Scans, Scanned, Subject, Entries
<1>4. CASE Starts(r, x)
  BY <1>2, <1>4, StartsAccounted
<1>5. CASE GoesOn(r, q, x)
  <2>1. Lists(r) /\ Accounted(Call[r], E, W, q, erased)
    BY <1>5 DEF GoesOn, Lists, Paging
  <2>2. W \subseteq Listable(Call[r]) /\ W \subseteq Keys /\ W' \subseteq W
    <3>1. x.due = q.due /\ Listable(Call[r])' = Listable(Call[r])
      BY <1>2, <1>5 DEF GoesOn, Listable, Scans, Scanned, Matches, Subject, Entries, Live
    <3>. QED  BY <1>2, <3>1, OneServed DEF Wanted, RequestState
  <2>3. Accounted(Call[r], E, W, x, erased)
    <3>1. q.before = x.before /\ (OwnTurn(r, q, x) \/ IndexTurn(r, q, x) \/ Shows(q, x))
      BY <1>5 DEF GoesOn
    <3>. HIDE DEF q, x, E, W
    <3>2. CASE OwnTurn(r, q, x)
      BY <1>2, <2>1, <2>2, <3>1, <3>2, OwnTurnAccounted DEF E
    <3>3. CASE IndexTurn(r, q, x)
      BY <1>2, <2>1, <2>2, <3>1, <3>3, IndexTurnAccounted DEF E
    <3>4. CASE Shows(q, x)
      BY <1>2, <2>1, <3>1, <3>4, ShowsAccounted
    <3>. QED  BY <3>1, <3>2, <3>3, <3>4
  <2>4. Accounted(Call[r], E, W', x, erased)
    <3>. HIDE DEF x, E, W
    <3>. QED  BY <1>2, <2>2, <2>3, LessAccounted
  <2>. QED  BY <1>2, <1>3, <2>4
<1>. QED  BY <1>2, <1>4, <1>5

LEMMA StepPaging == Typed /\ Consistent /\ Paging /\ [Next]_vars => Paging'
<1>. SUFFICES ASSUME Typed, Consistent, Paging, [Next]_vars PROVE Paging'
  OBVIOUS
<1>0. Typed'
  BY StepTyped
<1>1. ASSUME NEW s \in Requests, Begin(s) \/ Serve(s) PROVE Paging'
  <2>1. ASSUME NEW r \in Requests, Lists(r)', r # s
        PROVE  req'[r] = req[r] /\ Lists(r)
    BY <1>1, <2>1, OneServed DEF Lists
  <2>2. Lists(s)' => req[s].pc # "write" /\ Call[s].kind = "list" /\ req'[s].pc \in Busy
    BY DEF Lists, Paging, Accounted, Busy
  <2>3. ASSUME NEW r \in Requests, Lists(r)', NEW k \in req'[r].due \ disturbed'
        PROVE  /\ data'[k] # Absent
               /\ \A q \in Requests : (Call[q].kind \in Adds /\ Holds(q, k)')
                                         => (k \in Listable(Call[r]))'
    <3>1. k \in Keys
      BY <1>0 DEF Typed, TypeOK, RequestState
    <3>2. CASE r = s
      BY <1>1, <2>2, <2>3, <3>2, OwnDueStays DEF Paging
    <3>3. CASE r # s
      BY <1>1, <2>1, <2>3, <3>1, <3>3, ListedStays DEF Paging
    <3>. QED  BY <3>2, <3>3
  <2>4. ASSUME NEW r \in Requests, Lists(r)'
        PROVE  Accounted(Call[r], Iterated(Call[r])', Wanted(r)', req'[r], erased')
    <3>1. CASE r = s
      BY <1>0, <1>1, <2>2, <2>4, <3>1, OwnAccounted
    <3>2. CASE r # s
      BY <1>1, <2>1, <2>4, <3>2, OthersPay
    <3>. QED  BY <3>1, <3>2
  <2>5. DueStored'
    BY <2>3 DEF DueStored
  <2>. QED  BY <2>4, <2>5 DEF Paging
<1>2. CASE Crash
  BY <1>2, NobodyListsOn DEF Paging, DueStored
<1>3. CASE Finished \/ UNCHANGED vars
  <2>1. UNCHANGED vars
    BY <1>3 DEF Finished
  <2>2. /\ \A r \in Requests : Listable(Call[r])' = Listable(Call[r])
        /\ \A r \in Requests : Iterated(Call[r])' = Iterated(Call[r])
        /\ req' = req /\ data' = data /\ disturbed' = disturbed /\ erased' = erased
    BY <2>1 DEF vars, Iterated, Listable, Scans, Scanned, Matches, Subject, Entries, Live
  <2>3. \A r \in Requests : (Lists(r)' <=> Lists(r)) /\ Wanted(r)' = Wanted(r)
    BY <2>2 DEF Lists, Wanted
  <2>4. DueStored'
    BY <2>2, <2>3 DEF Paging, DueStored, Holds
  <2>. QED  BY <2>2, <2>3, <2>4 DEF Paging
<1>. QED  BY <1>1, <1>2, <1>3 DEF Next

\* Who comes to the end of a listing.
LEMMA EndsByPage ==
    ASSUME Typed, [Next]_vars, NEW r \in Requests, req[r].pc = "page", req'[r].pc = "ok"
    PROVE  \/ /\ Scans(Call[r])
              /\ Newest({k \in After(Scanned(Call[r]), req[r].last) : Matches(Call[r], k)}) = {}
           \/ /\ ~Scans(Call[r])
              /\ Newest(After(Entries(Call[r]), req[r].last)) = {}
<1>1. req \in [Requests -> RequestState] /\ req[r] \in RequestState
  BY DEF Typed, TypeOK
<1>2. ASSUME NEW q \in Requests, Begin(q) \/ Serve(q) PROVE q = r
  BY <1>2, OneServed
<1>3. ~Crash /\ ~Finished /\ ~UNCHANGED vars
  BY DEF Crash, Finished, vars, Answers, Rest
<1>4. ScanPage(r) \/ IndexPage(r)
  <2>1. Begin(r) \/ Serve(r)
    BY <1>2, <1>3 DEF Next
  <2>. QED
    BY <2>1 DEF Begin, Serve, Validate, Read, Write, WriteOne, StartList, Fetch, Is
<1>5. CASE ScanPage(r)
  <2>. DEFINE page == Newest({k \in After(Scanned(Call[r]), req[r].last) : Matches(Call[r], k)})
              x == [req[r] EXCEPT !.last = Oldest(page), !.got = @ \cup page]
  <2>1. x.pc = "page"
    BY <1>1 DEF RequestState
  <2>2. ~Become(r, x)
    <3>. HIDE DEF x
    <3>. QED  BY <1>1, <2>1 DEF Become
  <2>. QED  BY <1>5, <2>2 DEF ScanPage
<1>6. CASE IndexPage(r)
  <2>. DEFINE page == Newest(After(Entries(Call[r]), req[r].last))
              x == [req[r] EXCEPT !.pc = "fetch", !.last = Oldest(page), !.found = page]
  <2>1. x.pc = "fetch"
    BY <1>1 DEF RequestState
  <2>2. ~Become(r, x)
    <3>. HIDE DEF x
    <3>. QED  BY <1>1, <2>1 DEF Become
  <2>. QED  BY <1>6, <2>2 DEF IndexPage
<1>. QED  BY <1>4, <1>5, <1>6

\* Whatever is added and deleted between its pages, a listing has in the end
\* shown what was there all the time: of the user's own history and of a search
\* all, of an index all but one for each write that removed entries, since only a
\* cursor whose entry is gone makes the iterator pass over one
\* (History.listStoreDataKeys).
THEOREM NothingIsSkipped == Spec => NothingSkipped
<1>1. Init => Paging
  BY DEF Init, Paging, DueStored, Lists, Rest, Busy
<1>2. ASSUME Typed, Paging, [Next]_vars
      PROVE  [\A r \in Requests : (req[r].pc = "page" /\ req'[r].pc = "ok") =>
                 LET missed == ((req[r].due \cap Listable(Call[r])) \ disturbed) \ req[r].got
                 IN  Cardinality(missed) <=
                        IF Scans(Call[r]) THEN 0 ELSE erased - req[r].before]_vars
  <2>. SUFFICES ASSUME NEW r \in Requests, req[r].pc = "page", req'[r].pc = "ok"
                PROVE  Cardinality(Wanted(r) \ req[r].got) <=
                          IF Scans(Call[r]) THEN 0 ELSE erased - req[r].before
    BY DEF Wanted
  <2>. DEFINE q == req[r]
              E == Iterated(Call[r])
              W == Wanted(r)
              V == W \ q.got
  <2>1. q \in RequestState /\ erased \in Nat /\ q.before \in Nat /\ Lists(r)
    BY <1>2 DEF Typed, TypeOK, OnTrack, RequestState, Lists, Busy
  <2>2. Accounted(Call[r], E, W, q, erased) /\ q.found = {}
    BY <1>2, <2>1 DEF Paging, Accounted
  <2>3. /\ E \in SUBSET Keys /\ W \subseteq E
        /\ Scans(Call[r]) => \A k \in W : Matches(Call[r], k)
    BY ListableIterated DEF Wanted
  <2>4. CASE Scans(Call[r])
    <3>. DEFINE S == {k \in After(E, q.last) : Matches(Call[r], k)}
    <3>1. S = {} /\ S \in SUBSET Keys
      <4>1. S \in SUBSET Keys /\ Newest(S) = {}
        BY <1>2, <2>3, <2>4, EndsByPage DEF Iterated, After
      <4>. HIDE DEF S
      <4>. QED  BY <4>1, PageHolds
    <3>2. Skipped(W, q) = {} /\ ~Lost(E, q)
      BY <2>2, <2>4 DEF Accounted
    <3>3. ASSUME NEW k \in V PROVE FALSE
      <4>1. q.last = 0 \/ ~(q.last <= k)
        BY <2>2, <3>2, <3>3 DEF Skipped
      <4>2. k \in E /\ Matches(Call[r], k)
        BY <2>3, <2>4, <3>3
      <4>3. k \notin After(E, q.last) /\ q.last \in Keys \cup {0}
        BY <2>1, <3>1, <4>2 DEF RequestState
      <4>. HIDE DEF E
      <4>. QED  BY <2>3, <3>2, <4>1, <4>2, <4>3, AfterCursor DEF Lost
    <3>4. Cardinality(V) = 0
      <4>1. V = {}
        BY <3>3
      <4>. HIDE DEF V
      <4>. QED  BY <4>1, FS_EmptySet
    <3>. QED  BY <2>4, <3>4
  <2>5. CASE ~Scans(Call[r])
    <3>. DEFINE page == Newest(After(E, q.last))
                a == Cardinality(Skipped(W, q))
                one == IF Lost(E, q) THEN 1 ELSE 0
                b == Cardinality(V)
    <3>1. page = {}
      BY <1>2, <2>5, EndsByPage DEF Iterated
    <3>2. b \in Nat /\ b <= a + one
      <4>1. V \subseteq W /\ V \cap q.got = {} /\ V \cap page = {}
        BY <3>1
      <4>. HIDE DEF E, W, V, q
      <4>. QED  BY <2>1, <2>2, <2>3, <3>1, <4>1, MissesOne
    <3>3. a \in Nat
      BY <2>3, SkippedFinite
    <3>4. a + one + q.before <= erased
      BY <2>2, <2>5 DEF Accounted
    <3>5. b <= erased - q.before
      <4>. HIDE DEF a, b, q
      <4>. QED  BY <2>1, <3>2, <3>3, <3>4
    <3>. QED  BY <2>5, <3>5
  <2>. QED  BY <2>4, <2>5
<1>. QED
  BY <1>1, <1>2, InitTyped, InitConsistent, StepTyped, StepConsistent, StepPaging,
     PTL DEF Spec, NothingSkipped
=============================================================================
