---------------------------- MODULE AppStoreProofs ----------------------------
(***************************************************************************)
(* Theorems about AppStore, for any owners, documents, words and requests: *)
(* the types, and that a query is exact on what nothing disturbed.         *)
(***************************************************************************)
EXTENDS AppStore, TLAPS

\* Which requests get where, and what they carry there.
Fits(r, x) ==
    /\ x.pc \in {"put", "index"} => Call[r].kind # "query"
    /\ x.pc = "put" => Call[r].kind # "create"
    /\ x.pc = "reget" => Call[r].kind = "patch"
    /\ x.pc \in {"indexing", "read"} => Call[r].kind = "query"
    /\ \A k \in Keys : x.mem[k] # Absent => k \in Call[r].keys
    /\ x.pc \in Busy => x.got = {}

OnTrack == \A r \in Requests : Fits(r, req[r])

\* What is patched stays stored.
Kept == \A r \in Requests : req[r].pc = "reget" =>
            \A k \in Keys : req[r].mem[k] # Absent => Stored(r)[k] # Absent

Typed == TypeOK /\ OnTrack /\ Kept

-----------------------------------------------------------------------------
\* The invariant of QueryExact

\* Requests that overlap have disturbed what they could.
Apart == \A r, s \in InFlight : r # s => Clash(r, s) \subseteq disturbed

\* What is private is stored for its owner alone.
Owned ==
    \A o \in Owners, k \in Keys : Private(o, k) =>
        \A p \in Owners \ {o} : docs[p][k] = Absent

\* Before the first query nothing is indexed.
Unbuilt == (~started /\ \A q \in Requests : req[q].pc # "indexing") => index = NoIndex

\* What a writer carries for key k: the mark its operation leaves, and, once it
\* has written, what is stored.
Carries(r, k) ==
    (req[r].pc \in {"reget", "put", "index"} /\ req[r].mem[k] # Absent) =>
        /\ req[r].mem[k].deleted <=> Call[r].kind \in {"erase", "delete"}
        /\ req[r].pc = "reget" => Stored(r)[k] # Absent /\ ~Stored(r)[k].deleted
        /\ req[r].pc = "index" => Stored(r)[k] = req[r].mem[k]

Living(o, k) == docs[o][k] # Absent /\ ~docs[o][k].deleted

\* Written to the store, and not yet to the index.
Pending(k) == \E w \in Requests : req[w].pc = "index" /\ req[w].mem[k] # Absent

Right(o, k) == Living(o, k) /\ index[k].word = docs[o][k].word

\* Once the index is built, it has a document exactly as it is stored, if no
\* write of it is pending; and before, no document otherwise than stored.
Followed(o, k) ==
    /\ index[k] # NoEntry => index[k].owner = o
    /\ started /\ ~Pending(k) => (Living(o, k) => index[k] # NoEntry)
    /\ index[k] # NoEntry /\ ~Pending(k) => Right(o, k)

\* A query that builds the index has indexed the document or will, as it is
\* stored; one that has searched found it exactly if it should.
Queried(q, o, k) ==
    /\ req[q].pc = "indexing" =>
          /\ \A e \in req[q].todo : e[2] = k => e \in Live
          /\ Living(o, k) => \/ <<o, k, docs[o][k].word>> \in req[q].todo
                             \/ index[k] # NoEntry
    /\ req[q].pc = "read" /\ Call[q].owner = o =>
          (k \in req[q].found <=> Living(o, k) /\ docs[o][k].word = Call[q].word)

Inv ==
    /\ Apart
    /\ Owned
    /\ Unbuilt
    /\ \A k \in Keys \ disturbed :
          /\ \A r \in Requests : Carries(r, k)
          /\ \A o \in Owners : Private(o, k) =>
                Followed(o, k) /\ \A q \in Requests : Queried(q, o, k)

-----------------------------------------------------------------------------
\* Types

LEMMA CallTypes ==
    \A r \in Requests :
        /\ Call[r].kind \in Kinds /\ Call[r].owner \in Owners
        /\ Call[r].keys \subseteq Keys /\ Call[r].word \in Words
  BY CallsTyped DEF CallType

LEMMA DocumentTypes ==
    /\ \A d \in BOOLEAN, w \in Words : [deleted |-> d, word |-> w] \in Document
    /\ \A c \in Document : c # Absent /\ c.deleted \in BOOLEAN /\ c.word \in Words
  BY SentinelsDistinct DEF Document

\* A document with the mark of another.
LEMMA Remarked ==
    ASSUME NEW c \in Document, NEW e \in Document
    PROVE  /\ [c EXCEPT !.deleted = e.deleted] \in Document
           /\ [c EXCEPT !.deleted = e.deleted].deleted = e.deleted
           /\ [c EXCEPT !.deleted = e.deleted] # Absent
<1>1. [c EXCEPT !.deleted = e.deleted] \in Document
  BY DEF Document
<1>. QED  BY <1>1, DocumentTypes DEF Document

LEMMA RestTyped ==
    /\ Rest \in RequestState /\ Rest.pc = "idle" /\ Rest.got = {}
    /\ \A k \in Keys : Rest.mem[k] = Absent
  BY DEF Rest, RequestState, NoMem

LEMMA StateTypes ==
    ASSUME Typed, NEW r \in Requests
    PROVE  /\ req \in [Requests -> RequestState] /\ req[r] \in RequestState
           /\ Fits(r, req[r])
           /\ docs \in [Owners -> [Keys -> Document \cup {Absent}]]
           /\ \A k \in Keys : Stored(r)[k] \in Document \cup {Absent}
           /\ \A k \in Keys : req[r].mem[k] \in Document \cup {Absent}
           /\ req[r].todo \subseteq Owners \X Keys \X Words /\ req[r].found \subseteq Keys
  BY CallTypes DEF Typed, TypeOK, OnTrack, RequestState, Stored

\* A step takes one request on, to a typed state it fits.
Becomes(r, x) == req' = [req EXCEPT ![r] = x] /\ x \in RequestState /\ Fits(r, x)

LEMMA BecomesTyped ==
    ASSUME Typed, NEW r \in Requests, NEW x, Becomes(r, x)
    PROVE  /\ req' \in [Requests -> RequestState] /\ OnTrack' /\ req'[r] = x
           /\ \A s \in Requests \ {r} : req'[s] = req[s]
  BY DEF Typed, TypeOK, OnTrack, Becomes

LEMMA AnswerBecomes ==
    ASSUME NEW r \in Requests, NEW code \in Answers, Answer(r, code)
    PROVE  \E x : Becomes(r, x) /\ x.pc = code /\ x.got = {} /\ \A k \in Keys : x.mem[k] = Absent
<1>. DEFINE x == [Rest EXCEPT !.pc = code]
<1>1. /\ x \in RequestState /\ x.pc = code /\ x.got = {}
      /\ \A k \in Keys : x.mem[k] = Absent
  BY RestTyped DEF RequestState
<1>2. Fits(r, x)
  BY <1>1 DEF Fits, Answers, Busy
<1>3. req' = [req EXCEPT ![r] = x]
  BY DEF Answer, Become
<1>4. Becomes(r, x)
  BY <1>1, <1>2, <1>3 DEF Becomes
<1>. QED  BY <1>1, <1>4

LEMMA BeginBecomes ==
    ASSUME Typed, NEW r \in Requests, Begin(r)
    PROVE  \E x : Becomes(r, x) /\ x.pc = "begin" /\ x.got = {} /\ \A k \in Keys : x.mem[k] = Absent
<1>. DEFINE x == [Rest EXCEPT !.pc = "begin"]
<1>1. /\ x \in RequestState /\ x.pc = "begin" /\ x.got = {}
      /\ \A k \in Keys : x.mem[k] = Absent
  BY RestTyped DEF RequestState, Busy
<1>2. Fits(r, x)
  BY <1>1 DEF Fits
<1>3. req' = [req EXCEPT ![r] = x]
  BY DEF Begin, Become
<1>4. Becomes(r, x)
  BY <1>1, <1>2, <1>3 DEF Becomes
<1>. QED  BY <1>1, <1>4

LEMMA BeginDisturbs ==
    ASSUME Typed, NEW r \in Requests, Begin(r)
    PROVE  disturbed \subseteq disturbed' /\ disturbed' \subseteq Keys
<1>1. \A s \in InFlight : Clash(r, s) \subseteq Keys
  BY CallTypes DEF Clash, InFlight
<1>. QED  BY <1>1 DEF Begin, Typed, TypeOK

\* What an operation makes of a document in memory.
Marks(r, mem) ==
    \A k \in Keys : mem[k] # Absent =>
        (mem[k].deleted <=> Call[r].kind \in {"erase", "delete"})

LEMMA ChangedTyped ==
    ASSUME NEW r \in Requests, Call[r].kind \in {"erase", "delete", "undelete", "patch"},
           NEW doc \in Document \cup {Absent}, Changes(r, doc)
    PROVE  /\ Changed(r, doc) \in Document
           /\ Changed(r, doc).deleted <=> Call[r].kind \in {"erase", "delete"}
           /\ Call[r].kind = "patch" => ~doc.deleted
<1>1. doc \in Document /\ Call[r].word \in Words
  BY CallTypes DEF Changes
<1>2. CASE Call[r].kind \in {"erase", "delete"}
  <2>1. Changed(r, doc) = [doc EXCEPT !.deleted = TRUE]
    BY <1>2 DEF Changed
  <2>2. Changed(r, doc) \in Document /\ Changed(r, doc).deleted = TRUE
    BY <1>1, <2>1 DEF Document
  <2>. QED  BY <1>2, <2>2
<1>3. CASE Call[r].kind = "undelete"
  <2>1. Changed(r, doc) = [doc EXCEPT !.deleted = FALSE]
    BY <1>3 DEF Changed
  <2>2. Changed(r, doc) \in Document /\ Changed(r, doc).deleted = FALSE
    BY <1>1, <2>1 DEF Document
  <2>. QED  BY <1>3, <2>2
<1>4. CASE Call[r].kind = "patch"
  <2>1. Changed(r, doc) = [doc EXCEPT !.word = Call[r].word] /\ doc.deleted = FALSE
    BY <1>1, <1>4, DocumentTypes DEF Changed, Changes
  <2>2. Changed(r, doc) \in Document /\ Changed(r, doc).deleted = FALSE
    BY <1>1, <2>1 DEF Document
  <2>. QED  BY <1>4, <2>1, <2>2
<1>. QED  BY <1>2, <1>3, <1>4

\* A request gets ready to write, or answers that there is nothing to change.
Prepares(r, x) ==
    /\ Becomes(r, x) /\ req[r].pc = "begin"
    /\ x.pc \in {"reget", "put"} \cup Answers
    /\ x.got = {} /\ (x.pc = "ok" => Call[r].kind # "query")
    /\ Marks(r, x.mem)
    /\ x.pc = "reget" => \A k \in Keys : x.mem[k] # Absent =>
                            Stored(r)[k] # Absent /\ ~Stored(r)[k].deleted

LEMMA GetPrepares ==
    ASSUME Typed, NEW r \in Requests, Get(r)
    PROVE  \E x : Prepares(r, x)
<1>. DEFINE keys == {k \in Call[r].keys : Changes(r, Stored(r)[k])}
            x == [Rest EXCEPT
                     !.pc = IF Call[r].kind = "patch" THEN "reget" ELSE "put",
                     !.mem = [k \in Keys |-> IF k \in keys
                                 THEN Changed(r, Stored(r)[k]) ELSE Absent]]
<1>0. /\ Call[r].kind \in {"erase", "delete", "undelete", "patch"} /\ req[r].pc = "begin"
      /\ keys \subseteq Keys
  BY CallTypes DEF Get, Is
<1>1. CASE Answer(r, "404")
  <2>1. PICK y : Becomes(r, y) /\ y.pc = "404" /\ y.got = {} /\ \A k \in Keys : y.mem[k] = Absent
    BY <1>1, AnswerBecomes DEF Answers
  <2>. QED  BY <1>0, <2>1 DEF Prepares, Marks, Answers
<1>2. CASE Become(r, x)
  <2>1. \A k \in keys : /\ Changed(r, Stored(r)[k]) \in Document
                        /\ Changed(r, Stored(r)[k]).deleted <=> Call[r].kind \in {"erase", "delete"}
                        /\ Call[r].kind = "patch" => ~Stored(r)[k].deleted
                        /\ Stored(r)[k] # Absent
    BY <1>0, StateTypes, ChangedTyped DEF Changes
  <2>2. /\ x \in RequestState /\ x.got = {}
        /\ x.pc = IF Call[r].kind = "patch" THEN "reget" ELSE "put"
        /\ \A k \in Keys : x.mem[k] = IF k \in keys THEN Changed(r, Stored(r)[k]) ELSE Absent
    BY <1>0, <2>1, RestTyped DEF RequestState, Busy
  <2>3. req' = [req EXCEPT ![r] = x]
    BY <1>2 DEF Become
  <2>. HIDE DEF x
  <2>4. Fits(r, x)
    BY <1>0, <2>2 DEF Fits
  <2>5. Marks(r, x.mem)
    BY <2>1, <2>2 DEF Marks
  <2>6. Prepares(r, x)
    BY <1>0, <2>1, <2>2, <2>3, <2>4, <2>5 DEF Prepares, Becomes
  <2>. QED  BY <2>6
<1>. QED  BY <1>1, <1>2 DEF Get

LEMMA RegetPrepares ==
    ASSUME Typed, NEW r \in Requests, Reget(r)
    PROVE  \E x : /\ Becomes(r, x) /\ x.pc = "put"
                  /\ \A k \in Keys : /\ x.mem[k] # Absent <=> req[r].mem[k] # Absent
                                     /\ x.mem[k] # Absent =>
                                           x.mem[k].deleted = Stored(r)[k].deleted
<1>. DEFINE x == [req[r] EXCEPT !.pc = "put", !.mem = [k \in Keys |->
                     IF req[r].mem[k] = Absent THEN Absent
                     ELSE [req[r].mem[k] EXCEPT !.deleted = Stored(r)[k].deleted]]]
<1>0. /\ Call[r].kind = "patch" /\ req[r].pc = "reget" /\ Fits(r, req[r])
      /\ req[r] \in RequestState
      /\ \A k \in Keys : /\ req[r].mem[k] \in Document \cup {Absent}
                         /\ Stored(r)[k] \in Document \cup {Absent}
                         /\ req[r].mem[k] # Absent => Stored(r)[k] # Absent
  BY StateTypes DEF Reget, Is, Typed, Kept
<1>1. \A k \in Keys : req[r].mem[k] # Absent =>
          /\ [req[r].mem[k] EXCEPT !.deleted = Stored(r)[k].deleted] \in Document
          /\ [req[r].mem[k] EXCEPT !.deleted = Stored(r)[k].deleted].deleted
                = Stored(r)[k].deleted
          /\ [req[r].mem[k] EXCEPT !.deleted = Stored(r)[k].deleted] # Absent
  <2>. SUFFICES ASSUME NEW k \in Keys, req[r].mem[k] # Absent
                PROVE  LET new == [req[r].mem[k] EXCEPT !.deleted = Stored(r)[k].deleted]
                       IN  new \in Document /\ new.deleted = Stored(r)[k].deleted /\ new # Absent
    OBVIOUS
  <2>1. req[r].mem[k] \in Document /\ Stored(r)[k] \in Document
    BY <1>0
  <2>. QED  BY <2>1, Remarked
<1>2. /\ x \in RequestState /\ x.pc = "put" /\ x.got = req[r].got
      /\ \A k \in Keys : x.mem[k] = IF req[r].mem[k] = Absent THEN Absent
                           ELSE [req[r].mem[k] EXCEPT !.deleted = Stored(r)[k].deleted]
  BY <1>0, <1>1 DEF RequestState, Busy
<1>3. req' = [req EXCEPT ![r] = x]
  BY DEF Reget, Become
<1>. HIDE DEF x
<1>4. \A k \in Keys : /\ x.mem[k] # Absent <=> req[r].mem[k] # Absent
                      /\ x.mem[k] # Absent => x.mem[k].deleted = Stored(r)[k].deleted
  BY <1>1, <1>2
<1>5. Fits(r, x)
  BY <1>0, <1>2, <1>4 DEF Fits, Busy
<1>6. Becomes(r, x)
  BY <1>2, <1>3, <1>5 DEF Becomes
<1>. QED  BY <1>2, <1>4, <1>6

\* A request has written what it carries.
Writes(r, x) ==
    /\ Becomes(r, x) /\ req[r].pc \in {"begin", "put"} /\ Call[r].kind # "query"
    /\ x.pc = "index" /\ x.got = {}
    /\ docs' \in [Owners -> [Keys -> Document \cup {Absent}]]
    /\ \A o \in Owners, k \in Keys :
          docs'[o][k] = IF o = Call[r].owner /\ x.mem[k] # Absent THEN x.mem[k] ELSE docs[o][k]

LEMMA CreateWrites ==
    ASSUME Typed, NEW r \in Requests, Create(r)
    PROVE  \E x : Writes(r, x) /\ Marks(r, x.mem)
<1>. DEFINE new == [deleted |-> FALSE, word |-> Call[r].word]
            x == [Rest EXCEPT !.pc = "index",
                              !.mem = [k \in Keys |-> IF k \in Call[r].keys THEN new ELSE Absent]]
<1>0. /\ Call[r].kind = "create" /\ req[r].pc = "begin" /\ Call[r].owner \in Owners
      /\ new \in Document /\ new # Absent /\ new.deleted = FALSE /\ Call[r].keys \subseteq Keys
  BY CallTypes, DocumentTypes DEF Create, Is
<1>1. /\ x \in RequestState /\ x.pc = "index" /\ x.got = {}
      /\ \A k \in Keys : x.mem[k] = IF k \in Call[r].keys THEN new ELSE Absent
  BY <1>0, RestTyped DEF RequestState, Busy
<1>2. /\ req' = [req EXCEPT ![r] = x]
      /\ docs' = [docs EXCEPT ![Call[r].owner] = [k \in Keys |->
                     IF k \in Call[r].keys THEN new ELSE docs[Call[r].owner][k]]]
  BY <1>0 DEF Create, Become
<1>3. docs \in [Owners -> [Keys -> Document \cup {Absent}]]
  BY StateTypes
<1>. HIDE DEF x, new
<1>4. docs' \in [Owners -> [Keys -> Document \cup {Absent}]]
  BY <1>0, <1>2, <1>3
<1>5. \A o \in Owners, k \in Keys :
          docs'[o][k] = IF o = Call[r].owner /\ x.mem[k] # Absent THEN x.mem[k] ELSE docs[o][k]
  BY <1>0, <1>1, <1>2, <1>3
<1>6. Fits(r, x) /\ Marks(r, x.mem)
  BY <1>0, <1>1 DEF Fits, Marks
<1>7. Writes(r, x)
  BY <1>0, <1>1, <1>2, <1>4, <1>5, <1>6 DEF Writes, Becomes
<1>. QED  BY <1>6, <1>7

LEMMA PutWrites ==
    ASSUME Typed, NEW r \in Requests, Put(r)
    PROVE  \E x : Writes(r, x) /\ x.mem = req[r].mem
<1>. DEFINE x == [req[r] EXCEPT !.pc = "index"]
<1>0. /\ req[r].pc = "put" /\ Fits(r, req[r]) /\ req[r] \in RequestState
      /\ Call[r].owner \in Owners
      /\ \A k \in Keys : req[r].mem[k] \in Document \cup {Absent}
      /\ docs \in [Owners -> [Keys -> Document \cup {Absent}]]
  BY StateTypes, CallTypes DEF Put
<1>1. /\ x \in RequestState /\ x.pc = "index" /\ x.got = req[r].got /\ x.mem = req[r].mem
  BY <1>0 DEF RequestState, Busy
<1>2. /\ req' = [req EXCEPT ![r] = x]
      /\ docs' = [docs EXCEPT ![Call[r].owner] = [k \in Keys |->
                     IF req[r].mem[k] # Absent THEN req[r].mem[k] ELSE docs[Call[r].owner][k]]]
  BY <1>0 DEF Put, Become
<1>. HIDE DEF x
<1>3. docs' \in [Owners -> [Keys -> Document \cup {Absent}]]
  BY <1>0, <1>2
<1>4. \A o \in Owners, k \in Keys :
          docs'[o][k] = IF o = Call[r].owner /\ x.mem[k] # Absent THEN x.mem[k] ELSE docs[o][k]
  BY <1>0, <1>1, <1>2
<1>5. Fits(r, x) /\ x.got = {} /\ Call[r].kind # "query"
  BY <1>0, <1>1 DEF Fits, Busy
<1>6. Writes(r, x)
  BY <1>0, <1>1, <1>2, <1>3, <1>4, <1>5 DEF Writes, Becomes
<1>. QED  BY <1>1, <1>6

\* The index has followed a write.
LEMMA IndexFollows ==
    ASSUME Typed, NEW r \in Requests, Index(r)
    PROVE  /\ index' \in [Keys -> Entry \cup {NoEntry}]
           /\ started => \A k \in Keys :
                 /\ req[r].mem[k] = Absent => index'[k] = index[k]
                 /\ req[r].mem[k] # Absent =>
                       IF Call[r].kind \in {"erase", "delete"} THEN index'[k] = NoEntry
                       ELSE /\ index'[k] # NoEntry /\ index'[k].owner = Call[r].owner
                            /\ index'[k].word = req[r].mem[k].word
           /\ ~started => index' = index
<1>0. /\ index \in [Keys -> Entry \cup {NoEntry}] /\ Call[r].owner \in Owners
      /\ \A k \in Keys : req[r].mem[k] \in Document \cup {Absent}
  BY StateTypes, CallTypes DEF Typed, TypeOK
<1>1. CASE ~started
  BY <1>0, <1>1 DEF Index
<1>2. CASE started /\ Call[r].kind \in {"erase", "delete"}
  BY <1>0, <1>2 DEF Index, Written, Unindexed
<1>3. CASE started /\ Call[r].kind \notin {"erase", "delete"}
  <2>. DEFINE keys == {k \in Keys : req[r].mem[k] # Absent}
  <2>1. index' = [k \in Keys |-> IF k \in keys
                   THEN [owner |-> Call[r].owner, word |-> req[r].mem[k].word] ELSE index[k]]
    BY <1>3 DEF Index, Written, Indexed
  <2>2. \A k \in keys : [owner |-> Call[r].owner, word |-> req[r].mem[k].word] \in Entry
    BY <1>0 DEF Entry, Document
  <2>. QED  BY <1>0, <1>3, <2>1, <2>2, SentinelsDistinct
<1>. QED  BY <1>1, <1>2, <1>3

\* A query has searched the index.
Searched(r, x) ==
    /\ Becomes(r, x) /\ Call[r].kind = "query" /\ req[r].pc \in {"begin", "indexing"}
    /\ x.pc = (IF x.found = {} THEN "ok" ELSE "read") /\ x.got = {}
    /\ \A k \in Keys :
          /\ k \in x.found => index[k] # NoEntry /\ index[k].word = Call[r].word
          /\ (/\ index[k] # NoEntry /\ index[k].word = Call[r].word
              /\ index[k].owner = Call[r].owner) => k \in x.found

LEMMA SearchSearches ==
    ASSUME Typed, NEW r \in Requests, Call[r].kind = "query",
           req[r].pc \in {"begin", "indexing"},
           NEW local \in RequestState, local.got = {},
           \A k \in Keys : local.mem[k] # Absent => k \in Call[r].keys,
           Search(r, local, index)
    PROVE  \E x : Searched(r, x)
<1>1. PICK found \in Hits(index, Call[r].owner, Call[r].word) :
          Become(r, [local EXCEPT !.found = found, !.todo = {},
                                  !.pc = IF found = {} THEN "ok" ELSE "read"])
  BY DEF Search
<1>. DEFINE x == [local EXCEPT !.found = found, !.todo = {},
                               !.pc = IF found = {} THEN "ok" ELSE "read"]
<1>2. /\ found \subseteq Keys
      /\ \A k \in Keys :
          /\ k \in found => index[k] # NoEntry /\ index[k].word = Call[r].word
          /\ (/\ index[k] # NoEntry /\ index[k].word = Call[r].word
              /\ index[k].owner = Call[r].owner) => k \in found
  BY DEF Hits
<1>3. /\ x \in RequestState /\ x.pc = (IF x.found = {} THEN "ok" ELSE "read")
      /\ x.got = {} /\ x.found = found /\ x.mem = local.mem
  BY <1>2 DEF RequestState, Busy, Answers
<1>4. req' = [req EXCEPT ![r] = x]
  BY <1>1 DEF Become
<1>. HIDE DEF x
<1>5. Fits(r, x)
  BY <1>3 DEF Fits
<1>6. Searched(r, x)
  BY <1>2, <1>3, <1>4, <1>5 DEF Searched, Becomes
<1>. QED  BY <1>6

\* A query has begun to build the index.
Builds(r, x) ==
    /\ Becomes(r, x) /\ Call[r].kind = "query" /\ req[r].pc = "begin"
    /\ x.pc = "indexing" /\ x.todo = Live

LEMMA QueryGoes ==
    ASSUME Typed, NEW r \in Requests, Query(r)
    PROVE  IF started THEN \E x : Searched(r, x) ELSE \E x : Builds(r, x)
<1>. DEFINE gone == {k \in Keys \ Touched(Call[r].owner) :
                       Stored(r)[k] # Absent /\ Stored(r)[k].deleted}
            local == [req[r] EXCEPT !.gone = gone]
<1>0. /\ req[r].pc = "begin" /\ Call[r].kind = "query" /\ req[r] \in RequestState
      /\ req[r].got = {} /\ Fits(r, req[r])
  BY StateTypes DEF Query, Is, Fits, Busy
<1>1. /\ local \in RequestState /\ local.got = {} /\ local.mem = req[r].mem
  BY <1>0 DEF RequestState
<1>2. \A k \in Keys : local.mem[k] # Absent => k \in Call[r].keys
  BY <1>0, <1>1 DEF Fits
<1>3. CASE started
  <2>1. Search(r, local, index)
    BY <1>3 DEF Query
  <2>. HIDE DEF local
  <2>. QED  BY <1>0, <1>1, <1>2, <1>3, <2>1, SearchSearches
<1>4. CASE ~started
  <2>. DEFINE x == [local EXCEPT !.pc = "indexing", !.todo = Live]
  <2>1. req' = [req EXCEPT ![r] = x]
    BY <1>4 DEF Query, Become
  <2>. HIDE DEF local
  <2>2. /\ x \in RequestState /\ x.pc = "indexing" /\ x.todo = Live
        /\ x.mem = local.mem /\ x.got = {}
    BY <1>1 DEF RequestState, Busy, Live
  <2>. HIDE DEF x
  <2>3. Fits(r, x)
    BY <1>0, <1>2, <2>2 DEF Fits
  <2>4. Builds(r, x)
    BY <1>0, <2>1, <2>2, <2>3 DEF Builds, Becomes
  <2>. QED  BY <1>4, <2>4
<1>. QED  BY <1>3, <1>4

\* One document has been indexed.
LEMMA IndexOneIndexes ==
    ASSUME Typed, NEW r \in Requests, IndexOne(r)
    PROVE  \E e \in req[r].todo, x \in RequestState :
              /\ Becomes(r, x) /\ req[r].pc = "indexing" /\ x.pc = "indexing"
              /\ x.todo = req[r].todo \ {e}
              /\ e = <<e[1], e[2], e[3]>> /\ e[1] \in Owners /\ e[2] \in Keys
              /\ index' \in [Keys -> Entry \cup {NoEntry}]
              /\ index'[e[2]] # NoEntry /\ index'[e[2]].owner = e[1] /\ index'[e[2]].word = e[3]
              /\ \A k \in Keys \ {e[2]} : index'[k] = index[k]
<1>0. /\ req[r].pc = "indexing" /\ req[r] \in RequestState /\ Fits(r, req[r])
      /\ index \in [Keys -> Entry \cup {NoEntry}]
      /\ req[r].todo \subseteq Owners \X Keys \X Words
  BY StateTypes DEF IndexOne, Typed, TypeOK
<1>1. PICK e \in req[r].todo :
          /\ index' = [index EXCEPT ![e[2]] = [owner |-> e[1], word |-> e[3]]]
          /\ Become(r, [req[r] EXCEPT !.todo = req[r].todo \ {e}])
  BY DEF IndexOne
<1>2. /\ e = <<e[1], e[2], e[3]>> /\ e[1] \in Owners /\ e[2] \in Keys /\ e[3] \in Words
  BY <1>0
<1>3. [owner |-> e[1], word |-> e[3]] \in Entry /\ [owner |-> e[1], word |-> e[3]] # NoEntry
  BY <1>2, SentinelsDistinct DEF Entry
<1>4. /\ index' \in [Keys -> Entry \cup {NoEntry}]
      /\ index'[e[2]] # NoEntry /\ index'[e[2]].owner = e[1] /\ index'[e[2]].word = e[3]
      /\ \A k \in Keys \ {e[2]} : index'[k] = index[k]
  BY <1>0, <1>1, <1>2, <1>3
<1>. DEFINE x == [req[r] EXCEPT !.todo = req[r].todo \ {e}]
<1>5. /\ x \in RequestState /\ x.pc = "indexing" /\ x.todo = req[r].todo \ {e}
      /\ x.mem = req[r].mem /\ x.got = req[r].got
  BY <1>0 DEF RequestState
<1>6. req' = [req EXCEPT ![r] = x]
  BY <1>1 DEF Become
<1>. HIDE DEF x
<1>7. Becomes(r, x)
  BY <1>0, <1>5, <1>6 DEF Fits, Becomes
<1>. QED  BY <1>0, <1>2, <1>4, <1>5, <1>7

LEMMA IndexDoneSearches ==
    ASSUME Typed, NEW r \in Requests, IndexDone(r)
    PROVE  \E x : Searched(r, x)
<1>1. /\ req[r].pc = "indexing" /\ req[r] \in RequestState /\ Fits(r, req[r])
      /\ Search(r, req[r], index)
  BY StateTypes DEF IndexDone
<1>2. /\ Call[r].kind = "query" /\ req[r].got = {}
      /\ \A k \in Keys : req[r].mem[k] # Absent => k \in Call[r].keys
  BY <1>1 DEF Fits, Busy
<1>. QED  BY <1>1, <1>2, SearchSearches

\* A query has read what it found.
LEMMA ReadFoundReads ==
    ASSUME Typed, NEW r \in Requests, ReadFound(r)
    PROVE  \E x : /\ Becomes(r, x) /\ req[r].pc = "read" /\ x.pc = "ok"
                  /\ x.got = {<<k, Stored(r)[k]>> :
                                k \in {j \in req[r].found : Stored(r)[j] # Absent}}
<1>. DEFINE keys == {k \in req[r].found : Stored(r)[k] # Absent}
            got == {<<k, Stored(r)[k]>> : k \in keys}
            x == [req[r] EXCEPT !.pc = "ok", !.found = {}, !.got = got]
<1>0. /\ req[r].pc = "read" /\ req[r] \in RequestState /\ Fits(r, req[r])
      /\ req[r].found \subseteq Keys
      /\ \A k \in Keys : Stored(r)[k] \in Document \cup {Absent}
  BY StateTypes DEF ReadFound
<1>1. got \subseteq Keys \X Document
  BY <1>0
<1>2. req' = [req EXCEPT ![r] = x]
  BY DEF ReadFound, Become
<1>. HIDE DEF got
<1>3. x \in RequestState /\ x.pc = "ok" /\ x.got = got /\ x.mem = req[r].mem
  BY <1>0, <1>1 DEF RequestState, Answers
<1>. HIDE DEF x
<1>4. Becomes(r, x)
  BY <1>0, <1>2, <1>3 DEF Becomes, Fits, Busy
<1>. QED  BY <1>0, <1>3, <1>4 DEF got

LEMMA StepOfOneTyped ==
    ASSUME Typed, NEW r \in Requests, NEW x, Becomes(r, x),
           docs' \in [Owners -> [Keys -> Document \cup {Absent}]],
           \A o \in Owners, k \in Keys : docs[o][k] # Absent => docs'[o][k] # Absent,
           x.pc = "reget" => \A k \in Keys : x.mem[k] # Absent => Stored(r)[k] # Absent,
           index' \in [Keys -> Entry \cup {NoEntry}], started' \in BOOLEAN,
           restarts' = restarts, disturbed' \subseteq Keys
    PROVE  Typed'
<1>1. /\ req' \in [Requests -> RequestState] /\ OnTrack' /\ req'[r] = x
      /\ \A s \in Requests \ {r} : req'[s] = req[s]
  BY BecomesTyped
<1>2. \A s \in Requests, k \in Keys : Stored(s)[k] # Absent => Stored(s)'[k] # Absent
  BY CallTypes DEF Stored
<1>3. Kept'
  BY <1>1, <1>2 DEF Kept, Typed
<1>. QED  BY <1>1, <1>3 DEF Typed, TypeOK

LEMMA RestartTyped == ASSUME Typed, Restart PROVE Typed'
<1>. DEFINE lost == [Rest EXCEPT !.pc = "lost"]
<1>1. /\ lost \in RequestState /\ lost.pc = "lost" /\ lost.got = {}
      /\ \A k \in Keys : lost.mem[k] = Absent
  BY RestTyped DEF RequestState, Answers
<1>2. req \in [Requests -> RequestState] /\ OnTrack /\ Kept /\ restarts \in 0..MaxRestarts
      /\ docs \in [Owners -> [Keys -> Document \cup {Absent}]]
  BY DEF Typed, TypeOK
<1>3. req' = [r \in Requests |-> IF r \in InFlight THEN lost ELSE req[r]]
  BY DEF Restart
<1>. HIDE DEF lost
<1>4. /\ req' \in [Requests -> RequestState]
      /\ \A r \in Requests : req'[r] = req[r] \/ req'[r] = lost
  BY <1>1, <1>2, <1>3
<1>5. \A r \in Requests : Fits(r, lost)
  BY <1>1 DEF Fits, Busy
<1>6. OnTrack'
  BY <1>2, <1>4, <1>5 DEF OnTrack
<1>7. \A r \in Requests : Stored(r)' = Stored(r)
  BY DEF Restart, Stored
<1>8. Kept'
  BY <1>1, <1>2, <1>4, <1>7 DEF Kept
<1>9. restarts' \in 0..MaxRestarts
  BY <1>2, BoundsTyped DEF Restart
<1>10. index' \in [Keys -> Entry \cup {NoEntry}]
  BY DEF Restart, NoIndex
<1>. QED  BY <1>2, <1>4, <1>6, <1>8, <1>9, <1>10 DEF Restart, Typed, TypeOK

LEMMA WritesTyped ==
    ASSUME Typed, NEW r \in Requests, NEW x, Writes(r, x),
           UNCHANGED <<index, started, restarts, disturbed>>
    PROVE  Typed'
<1>1. \A o \in Owners, k \in Keys : docs[o][k] # Absent => docs'[o][k] # Absent
  BY DEF Writes
<1>. QED  BY <1>1, StepOfOneTyped DEF Writes, Typed, TypeOK

LEMMA InitTyped == Init => Typed
<1>. SUFFICES ASSUME Init PROVE Typed
  OBVIOUS
<1>1. req \in [Requests -> RequestState] /\ \A r \in Requests : req[r] = Rest
  BY RestTyped DEF Init
<1>2. OnTrack /\ Kept
  BY <1>1, RestTyped DEF OnTrack, Fits, Kept, Busy
<1>3. restarts \in 0..MaxRestarts
  BY BoundsTyped DEF Init
<1>. QED  BY <1>1, <1>2, <1>3, InitDocsTyped DEF Init, Typed, TypeOK, NoIndex

LEMMA StepTyped == ASSUME Typed, [Next]_vars PROVE Typed'
<1>. USE DEF Typed, TypeOK
<1>1. ASSUME NEW r \in Requests, Begin(r) PROVE Typed'
  <2>1. PICK x : Becomes(r, x) /\ x.pc = "begin"
    BY <1>1, BeginBecomes
  <2>. QED  BY <1>1, <2>1, BeginDisturbs, StepOfOneTyped DEF Begin
<1>2. ASSUME NEW r \in Requests, Create(r) PROVE Typed'
  BY <1>2, CreateWrites, WritesTyped DEF Create
<1>3. ASSUME NEW r \in Requests, Get(r) PROVE Typed'
  <2>1. PICK x : Prepares(r, x)
    BY <1>3, GetPrepares
  <2>. QED  BY <1>3, <2>1, StepOfOneTyped DEF Get, Prepares
<1>4. ASSUME NEW r \in Requests, Reget(r) PROVE Typed'
  <2>1. PICK x : Becomes(r, x) /\ x.pc = "put"
    BY <1>4, RegetPrepares
  <2>. QED  BY <1>4, <2>1, StepOfOneTyped DEF Reget
<1>5. ASSUME NEW r \in Requests, Put(r) PROVE Typed'
  BY <1>5, PutWrites, WritesTyped DEF Put
<1>6. ASSUME NEW r \in Requests, Index(r) PROVE Typed'
  <2>1. PICK x : Becomes(r, x) /\ x.pc = "ok"
    BY <1>6, AnswerBecomes DEF Index, Answers
  <2>. QED  BY <1>6, <2>1, IndexFollows, StepOfOneTyped DEF Index
<1>7. ASSUME NEW r \in Requests, Query(r) PROVE Typed'
  <2>1. PICK x : Becomes(r, x) /\ x.pc # "reget"
    BY <1>7, QueryGoes DEF Searched, Builds
  <2>. QED  BY <1>7, <2>1, StepOfOneTyped DEF Query
<1>8. ASSUME NEW r \in Requests, IndexOne(r) PROVE Typed'
  <2>1. PICK x \in RequestState : Becomes(r, x) /\ x.pc = "indexing"
    BY <1>8, IndexOneIndexes
  <2>2. index' \in [Keys -> Entry \cup {NoEntry}]
    BY <1>8, IndexOneIndexes
  <2>. QED  BY <1>8, <2>1, <2>2, StepOfOneTyped DEF IndexOne
<1>9. ASSUME NEW r \in Requests, IndexDone(r) PROVE Typed'
  <2>1. PICK x : Becomes(r, x) /\ x.pc # "reget"
    BY <1>9, IndexDoneSearches DEF Searched
  <2>. QED  BY <1>9, <2>1, StepOfOneTyped DEF IndexDone
<1>10. ASSUME NEW r \in Requests, ReadFound(r) PROVE Typed'
  <2>1. PICK x : Becomes(r, x) /\ x.pc = "ok"
    BY <1>10, ReadFoundReads
  <2>. QED  BY <1>10, <2>1, StepOfOneTyped DEF ReadFound
<1>11. ASSUME UNCHANGED vars PROVE Typed'
  BY <1>11 DEF vars, OnTrack, Kept, Fits, Stored
<1>. QED  BY <1>1, <1>2, <1>3, <1>4, <1>5, <1>6, <1>7, <1>8, <1>9, <1>10, <1>11, RestartTyped
          DEF Next, Serve, Finished

\* The variables keep their types, whatever is asked and however it interleaves.
THEOREM TypeCorrect == Spec => []TypeOK
<1>1. Spec => []Typed
  BY InitTyped, StepTyped, PTL DEF Spec
<1>2. Typed => TypeOK
  BY DEF Typed
<1>. QED  BY <1>1, <1>2, PTL

-----------------------------------------------------------------------------
\* The steps keep the invariant

LEMMA ApartKept ==
    ASSUME Typed, Apart, NEW r \in Requests, NEW x, Becomes(r, x), req[r].pc \in Busy,
           disturbed' = disturbed
    PROVE  Apart'
<1>1. \A s \in Requests \ {r} : req'[s] = req[s]
  BY BecomesTyped
<1>2. InFlight' \subseteq InFlight
  BY <1>1 DEF InFlight
<1>3. \A s, t \in Requests : Clash(s, t)' = Clash(s, t)
  BY DEF Clash
<1>. QED  BY <1>2, <1>3 DEF Apart, InFlight

LEMMA BeginApart ==
    ASSUME Typed, Apart, NEW r \in Requests, NEW x, Becomes(r, x), Begin(r)
    PROVE  Apart'
<1>1. \A s \in Requests \ {r} : req'[s] = req[s]
  BY BecomesTyped
<1>2. \A s \in InFlight' : s = r \/ s \in InFlight
  BY <1>1 DEF InFlight
<1>3. \A s, t \in Requests : Clash(s, t)' = Clash(s, t) /\ Clash(s, t) = Clash(t, s)
  BY DEF Clash
<1>4. \A s \in InFlight : Clash(r, s) \subseteq disturbed'
  BY DEF Begin
<1>5. disturbed \subseteq disturbed'
  BY DEF Begin
<1>. QED  BY <1>2, <1>3, <1>4, <1>5 DEF Apart, InFlight

\* What a request in flight writes undisturbed, no other writes, and no query
\* runs.
LEMMA Alone ==
    ASSUME Typed, Apart, NEW r \in InFlight, NEW s \in InFlight, r # s,
           NEW k \in Keys \ disturbed, k \in Call[r].keys
    PROVE  /\ Call[r].kind # "query" /\ Call[s].kind # "query" /\ k \notin Call[s].keys
           /\ req[s].mem[k] = Absent
<1>1. Clash(r, s) \subseteq disturbed
  BY DEF Apart
<1>2. Call[r].kind # "query" /\ Call[s].kind # "query" /\ k \notin Call[s].keys
  BY <1>1 DEF Clash
<1>3. Fits(s, req[s])
  BY DEF Typed, OnTrack, InFlight
<1>. QED  BY <1>2, <1>3 DEF Fits

\* While a query runs, no undisturbed write is pending.
LEMMA NotPending ==
    ASSUME Typed, Apart, NEW q \in InFlight, Call[q].kind = "query",
           NEW k \in Keys \ disturbed
    PROVE  ~Pending(k)
<1>. SUFFICES ASSUME NEW w \in Requests, req[w].pc = "index", req[w].mem[k] # Absent
              PROVE  FALSE
  BY DEF Pending
<1>1. Fits(w, req[w]) /\ w \in InFlight /\ k \in Call[w].keys /\ w # q
  BY DEF Typed, OnTrack, InFlight, Fits, Busy
<1>. QED  BY <1>1, Alone

\* Who may write a private document.
LEMMA PrivateOwner ==
    ASSUME NEW r \in Requests, NEW o \in Owners, NEW k \in Call[r].keys, Private(o, k)
    PROVE  Call[r].owner = o
  BY CallTypes DEF Private

\* A step that changes only the state of a request, and is not about to index.
LEMMA QuietStep ==
    ASSUME Typed, Inv, NEW r \in Requests, NEW x, Becomes(r, x),
           req[r].pc \notin {"index", "indexing"}, x.pc # "index",
           UNCHANGED <<docs, index, started>>, disturbed \subseteq disturbed', Apart',
           \A k \in Keys \ disturbed' :
              /\ Carries(r, k)'
              /\ \A o \in Owners : Private(o, k) => Queried(r, o, k)'
    PROVE  Inv'
<1>1. /\ req'[r] = x
      /\ \A s \in Requests \ {r} : req'[s] = req[s]
  BY BecomesTyped
<1>2. Unbuilt' /\ Owned'
  BY <1>1 DEF Inv, Unbuilt, Owned
<1>3. \A s \in Requests : Stored(s)' = Stored(s)
  BY DEF Stored
<1>4. Live' = Live
  BY DEF Live
<1>5. ASSUME NEW k \in Keys \ disturbed'
      PROVE  /\ \A s \in Requests : Carries(s, k)'
             /\ \A o \in Owners : Private(o, k) =>
                   Followed(o, k)' /\ \A q \in Requests : Queried(q, o, k)'
  <2>1. k \in Keys \ disturbed
    OBVIOUS
  <2>2. Pending(k)' = Pending(k)
    BY <1>1 DEF Pending
  <2>3. \A s \in Requests \ {r} : Carries(s, k) => Carries(s, k)'
    BY <1>1, <1>3 DEF Carries
  <2>4. \A o \in Owners : Followed(o, k) => Followed(o, k)'
    BY <2>2 DEF Followed, Right, Living
  <2>5. \A s \in Requests \ {r}, o \in Owners : Queried(s, o, k) => Queried(s, o, k)'
    BY <1>1, <1>4 DEF Queried, Living
  <2>. QED  BY <2>1, <2>3, <2>4, <2>5 DEF Inv
<1>. QED  BY <1>2, <1>5 DEF Inv

LEMMA BeginKeeps ==
    ASSUME Typed, Inv, NEW r \in Requests, Begin(r)
    PROVE  Inv'
<1>1. PICK x : Becomes(r, x) /\ x.pc = "begin"
  BY BeginBecomes
<1>2. Apart' /\ disturbed \subseteq disturbed'
  BY <1>1, BeginApart, BeginDisturbs DEF Inv
<1>3. req'[r] = x
  BY <1>1, BecomesTyped
<1>4. \A k \in Keys : Carries(r, k)' /\ \A o \in Owners : Queried(r, o, k)'
  BY <1>1, <1>3 DEF Carries, Queried
<1>. QED  BY <1>1, <1>2, <1>4, QuietStep DEF Begin

LEMMA GetKeeps ==
    ASSUME Typed, Inv, NEW r \in Requests, Get(r)
    PROVE  Inv'
<1>1. PICK x : Prepares(r, x)
  BY GetPrepares
<1>2. Apart'
  BY <1>1, ApartKept DEF Inv, Prepares, Get, Busy
<1>3. req'[r] = x /\ Stored(r)' = Stored(r)
  BY <1>1, BecomesTyped DEF Prepares, Get, Stored
<1>4. \A k \in Keys : Carries(r, k)' /\ \A o \in Owners : Queried(r, o, k)'
  BY <1>1, <1>3 DEF Carries, Queried, Prepares, Marks, Answers
<1>. QED  BY <1>1, <1>2, <1>4, QuietStep DEF Get, Prepares, Answers

LEMMA RegetKeeps ==
    ASSUME Typed, Inv, NEW r \in Requests, Reget(r)
    PROVE  Inv'
<1>1. PICK x : /\ Becomes(r, x) /\ x.pc = "put"
               /\ \A k \in Keys : /\ x.mem[k] # Absent <=> req[r].mem[k] # Absent
                                  /\ x.mem[k] # Absent =>
                                        x.mem[k].deleted = Stored(r)[k].deleted
  BY RegetPrepares
<1>2. Call[r].kind = "patch" /\ req[r].pc = "reget"
  BY DEF Reget, Is
<1>3. Apart'
  BY <1>1, <1>2, ApartKept DEF Inv, Reget, Busy
<1>4. req'[r] = x
  BY <1>1, BecomesTyped
<1>5. ASSUME NEW k \in Keys \ disturbed
      PROVE  Carries(r, k)' /\ \A o \in Owners : Queried(r, o, k)'
  <2>1. ASSUME x.mem[k] # Absent PROVE x.mem[k].deleted = FALSE
    <3>1. Carries(r, k) /\ req[r].mem[k] # Absent
      BY <1>1, <2>1 DEF Inv
    <3>2. Stored(r)[k] \in Document /\ ~Stored(r)[k].deleted
      BY <1>2, <3>1, StateTypes DEF Carries
    <3>3. Stored(r)[k].deleted = FALSE
      BY <3>2, DocumentTypes
    <3>. QED  BY <1>1, <2>1, <3>3
  <2>. QED  BY <1>1, <1>2, <1>4, <2>1 DEF Carries, Queried
<1>. QED  BY <1>1, <1>2, <1>3, <1>5, QuietStep DEF Reget

LEMMA ReadFoundKeeps ==
    ASSUME Typed, Inv, NEW r \in Requests, ReadFound(r)
    PROVE  Inv'
<1>1. PICK x : Becomes(r, x) /\ req[r].pc = "read" /\ x.pc = "ok"
  BY ReadFoundReads
<1>2. Apart'
  BY <1>1, ApartKept DEF Inv, ReadFound, Busy
<1>3. req'[r] = x
  BY <1>1, BecomesTyped
<1>4. \A k \in Keys : Carries(r, k)' /\ \A o \in Owners : Queried(r, o, k)'
  BY <1>1, <1>3 DEF Carries, Queried
<1>. QED  BY <1>1, <1>2, <1>4, QuietStep DEF ReadFound

\* The index a query searches is exact, and so is what it finds.
LEMMA SearchExact ==
    ASSUME Typed, Inv, NEW r \in Requests, NEW x, Searched(r, x),
           req[r].pc = "indexing" => req[r].todo = {}, req[r].pc = "begin" => started,
           NEW k \in Keys \ disturbed, NEW o \in Owners, Private(o, k)
    PROVE  /\ Living(o, k) => index[k] # NoEntry
           /\ Call[r].owner = o =>
                 (k \in x.found <=> Living(o, k) /\ docs[o][k].word = Call[r].word)
<1>1. r \in InFlight /\ Call[r].kind = "query" /\ Followed(o, k) /\ Queried(r, o, k)
  BY DEF Searched, Inv, InFlight, Busy
<1>2. ~Pending(k)
  BY <1>1, NotPending DEF Inv
<1>3. Living(o, k) => index[k] # NoEntry
  BY <1>1, <1>2 DEF Followed, Queried, Searched
<1>4. index[k] # NoEntry => index[k].owner = o /\ Right(o, k)
  BY <1>1, <1>2 DEF Followed
<1>. QED  BY <1>3, <1>4 DEF Searched, Right

LEMMA QueryKeeps ==
    ASSUME Typed, Inv, NEW r \in Requests, Query(r)
    PROVE  Inv'
<1>1. req[r].pc = "begin"
  BY DEF Query, Is
<1>2. CASE started
  <2>1. PICK x : Searched(r, x)
    BY <1>2, QueryGoes
  <2>2. Apart'
    BY <1>1, <2>1, ApartKept DEF Searched, Inv, Query, Busy
  <2>3. req'[r] = x
    BY <2>1, BecomesTyped DEF Searched
  <2>4. ASSUME NEW k \in Keys \ disturbed, NEW o \in Owners, Private(o, k)
        PROVE  Queried(r, o, k)'
    <3>1. Call[r].owner = o =>
              (k \in x.found <=> Living(o, k) /\ docs[o][k].word = Call[r].word)
      BY <1>1, <1>2, <2>1, <2>4, SearchExact
    <3>. QED  BY <2>1, <2>3, <3>1 DEF Queried, Query, Living, Searched
  <2>5. \A k \in Keys : Carries(r, k)'
    BY <2>1, <2>3 DEF Carries, Searched
  <2>. QED  BY <1>1, <2>1, <2>2, <2>4, <2>5, QuietStep DEF Query, Searched
<1>3. CASE ~started
  <2>1. PICK x : Builds(r, x)
    BY <1>3, QueryGoes
  <2>2. Apart'
    BY <1>1, <2>1, ApartKept DEF Builds, Inv, Query, Busy
  <2>3. req'[r] = x /\ Live' = Live
    BY <2>1, BecomesTyped DEF Builds, Live, Query
  <2>4. ASSUME NEW k \in Keys, NEW o \in Owners
        PROVE  Queried(r, o, k)'
    <3>1. Living(o, k) => <<o, k, docs[o][k].word>> \in Live
      <4>1. docs[o][k] \in Document \cup {Absent}
        BY DEF Typed, TypeOK
      <4>. QED  BY <4>1, DocumentTypes DEF Living, Live
    <3>. QED  BY <2>1, <2>3, <3>1 DEF Queried, Query, Living, Builds
  <2>5. \A k \in Keys : Carries(r, k)'
    BY <2>1, <2>3 DEF Carries, Builds
  <2>. QED  BY <1>1, <2>1, <2>2, <2>4, <2>5, QuietStep DEF Query, Builds
<1>. QED  BY <1>2, <1>3

LEMMA IndexDoneKeeps ==
    ASSUME Typed, Inv, NEW r \in Requests, IndexDone(r)
    PROVE  Inv'
<1>0. req[r].pc = "indexing" /\ req[r].todo = {} /\ started' /\ UNCHANGED <<docs, index, disturbed>>
  BY DEF IndexDone
<1>1. PICK x : Searched(r, x)
  BY IndexDoneSearches
<1>2. Apart'
  BY <1>0, <1>1, ApartKept DEF Searched, Inv, Busy
<1>3. /\ req'[r] = x
      /\ \A s \in Requests \ {r} : req'[s] = req[s]
  BY <1>1, BecomesTyped DEF Searched
<1>4. Owned' /\ Unbuilt'
  BY <1>0 DEF Inv, Owned, Unbuilt
<1>5. Live' = Live /\ \A s \in Requests : Stored(s)' = Stored(s)
  BY <1>0 DEF Live, Stored
<1>6. ASSUME NEW k \in Keys \ disturbed
      PROVE  \A s \in Requests : Carries(s, k)'
  BY <1>1, <1>3, <1>5, <1>6 DEF Inv, Carries, Searched
<1>7. ASSUME NEW k \in Keys \ disturbed, NEW o \in Owners, Private(o, k)
      PROVE  Followed(o, k)' /\ \A q \in Requests : Queried(q, o, k)'
  <2>1. /\ Living(o, k) => index[k] # NoEntry
        /\ Call[r].owner = o =>
              (k \in x.found <=> Living(o, k) /\ docs[o][k].word = Call[r].word)
    BY <1>0, <1>1, <1>7, SearchExact
  <2>2. Followed(o, k) /\ \A q \in Requests : Queried(q, o, k)
    BY <1>7 DEF Inv
  <2>3. Pending(k)' = Pending(k)
    BY <1>0, <1>1, <1>3 DEF Pending, Searched
  <2>4. Followed(o, k)'
    BY <1>0, <2>1, <2>2, <2>3 DEF Followed, Living, Right
  <2>5. Queried(r, o, k)'
    BY <1>0, <1>1, <1>3, <2>1 DEF Queried, Living, Searched
  <2>. QED  BY <1>0, <1>3, <1>5, <2>2, <2>4, <2>5 DEF Queried, Living
<1>. QED  BY <1>0, <1>2, <1>4, <1>6, <1>7 DEF Inv

LEMMA IndexOneKeeps ==
    ASSUME Typed, Inv, NEW r \in Requests, IndexOne(r)
    PROVE  Inv'
<1>0. UNCHANGED <<docs, started, disturbed>>
  BY DEF IndexOne
<1>1. PICK e \in req[r].todo, x \in RequestState :
              /\ Becomes(r, x) /\ req[r].pc = "indexing" /\ x.pc = "indexing"
              /\ x.todo = req[r].todo \ {e}
              /\ e = <<e[1], e[2], e[3]>> /\ e[1] \in Owners /\ e[2] \in Keys
              /\ index' \in [Keys -> Entry \cup {NoEntry}]
              /\ index'[e[2]] # NoEntry /\ index'[e[2]].owner = e[1] /\ index'[e[2]].word = e[3]
              /\ \A k \in Keys \ {e[2]} : index'[k] = index[k]
  BY IndexOneIndexes
<1>2. /\ req'[r] = x
      /\ \A s \in Requests \ {r} : req'[s] = req[s]
  BY <1>1, BecomesTyped
<1>3. Apart'
  BY <1>0, <1>1, ApartKept DEF Inv, Busy
<1>4. Owned' /\ Unbuilt'
  BY <1>0, <1>1, <1>2 DEF Inv, Owned, Unbuilt
<1>5. Live' = Live /\ \A s \in Requests : Stored(s)' = Stored(s)
  BY <1>0 DEF Live, Stored
<1>6. r \in InFlight /\ Call[r].kind = "query"
  BY <1>1 DEF InFlight, Busy, Typed, OnTrack, Fits
<1>7. ASSUME NEW k \in Keys \ disturbed
      PROVE  \A s \in Requests : Carries(s, k)'
  BY <1>1, <1>2, <1>5, <1>7 DEF Inv, Carries
<1>8. ASSUME NEW k \in Keys \ disturbed, NEW o \in Owners, Private(o, k)
      PROVE  Followed(o, k)' /\ \A q \in Requests : Queried(q, o, k)'
  <2>1. Followed(o, k) /\ (\A q \in Requests : Queried(q, o, k)) /\ ~Pending(k)
    BY <1>6, <1>8, NotPending DEF Inv
  <2>2. ~Pending(k)'
    BY <1>1, <1>2, <2>1 DEF Pending
  <2>3. e[2] = k => e[1] = o /\ Living(o, k) /\ docs[o][k].word = e[3]
    <3>. SUFFICES ASSUME e[2] = k PROVE e[1] = o /\ Living(o, k) /\ docs[o][k].word = e[3]
      OBVIOUS
    <3>1. e \in Live
      BY <1>1, <2>1 DEF Queried
    <3>2. Living(e[1], k) /\ docs[e[1]][k].word = e[3]
      BY <3>1 DEF Live, Living
    <3>3. e[1] = o
      BY <1>1, <1>8, <3>2 DEF Inv, Owned, Living
    <3>. QED  BY <3>2, <3>3
  <2>4. index[k] # NoEntry => index'[k] # NoEntry
    BY <1>1
  <2>5. Followed(o, k)'
    BY <1>0, <1>1, <2>1, <2>2, <2>3 DEF Followed, Living, Right
  <2>6. Queried(r, o, k)'
    <3>1. <<o, k, docs[o][k].word>> \in req[r].todo =>
              <<o, k, docs[o][k].word>> \in x.todo \/ index'[k] # NoEntry
      BY <1>1
    <3>. QED  BY <1>0, <1>1, <1>2, <1>5, <2>1, <2>4, <3>1 DEF Queried, Living
  <2>. QED  BY <1>0, <1>2, <1>5, <2>1, <2>4, <2>5, <2>6 DEF Queried, Living
<1>. QED  BY <1>0, <1>3, <1>4, <1>7, <1>8 DEF Inv

LEMMA WritesKeep ==
    ASSUME Typed, Inv, NEW r \in Requests, NEW x, Writes(r, x),
           \A k \in Keys \ disturbed : x.mem[k] # Absent =>
               (x.mem[k].deleted <=> Call[r].kind \in {"erase", "delete"}),
           UNCHANGED <<index, started, disturbed>>
    PROVE  Inv'
<1>0. /\ Becomes(r, x) /\ Fits(r, x) /\ req[r].pc \in {"begin", "put"} /\ r \in InFlight
      /\ Call[r].owner \in Owners /\ x.pc = "index"
  BY CallTypes DEF Writes, Becomes, InFlight, Busy
<1>1. /\ req'[r] = x
      /\ \A s \in Requests \ {r} : req'[s] = req[s]
  BY <1>0, BecomesTyped
<1>2. Apart'
  BY <1>0, ApartKept DEF Inv, Busy
<1>3. Unbuilt'
  BY <1>0, <1>1 DEF Inv, Unbuilt
<1>4. \A k \in Keys : x.mem[k] # Absent => k \in Call[r].keys
  BY <1>0 DEF Fits
<1>5. \A o \in Owners, k \in Keys :
          docs'[o][k] = IF o = Call[r].owner /\ x.mem[k] # Absent THEN x.mem[k] ELSE docs[o][k]
  BY DEF Writes
<1>6. Owned'
  <2>. SUFFICES ASSUME NEW o \in Owners, NEW k \in Keys, Private(o, k), NEW p \in Owners \ {o}
                PROVE  docs'[p][k] = Absent
    BY DEF Owned, Private
  <2>1. docs[p][k] = Absent
    BY DEF Inv, Owned
  <2>2. p = Call[r].owner => x.mem[k] = Absent
    BY <1>4, PrivateOwner
  <2>. QED  BY <1>5, <2>1, <2>2
<1>7. ASSUME NEW k \in Keys \ disturbed
      PROVE  \A s \in Requests : Carries(s, k)'
  <2>1. Carries(r, k)'
    BY <1>0, <1>1, <1>5, <1>7 DEF Carries, Stored
  <2>2. ASSUME NEW s \in Requests \ {r} PROVE Carries(s, k)'
    <3>. SUFFICES ASSUME req[s].pc \in {"reget", "put", "index"}, req[s].mem[k] # Absent
                  PROVE  Stored(s)'[k] = Stored(s)[k]
      BY <1>1, <1>7 DEF Inv, Carries
    <3>1. s \in InFlight /\ k \in Call[s].keys /\ Call[s].owner \in Owners
      BY CallTypes DEF InFlight, Busy, Typed, OnTrack, Fits
    <3>2. k \notin Call[r].keys
      BY <1>0, <3>1, Alone DEF Inv
    <3>. QED  BY <1>4, <1>5, <3>1, <3>2 DEF Stored
  <2>. QED  BY <2>1, <2>2
<1>8. ASSUME NEW k \in Keys \ disturbed, NEW o \in Owners, Private(o, k)
      PROVE  Followed(o, k)' /\ \A q \in Requests : Queried(q, o, k)'
  <2>0. Followed(o, k) /\ \A q \in Requests : Queried(q, o, k)
    BY <1>8 DEF Inv
  <2>1. CASE x.mem[k] = Absent
    <3>1. \A p \in Owners : docs'[p][k] = docs[p][k]
      BY <1>5, <2>1
    <3>2. Pending(k)' <=> Pending(k)
      BY <1>0, <1>1, <2>1 DEF Pending
    <3>3. Followed(o, k)'
      BY <2>0, <3>1, <3>2 DEF Followed, Living, Right
    <3>4. \A e \in Live : e[2] = k => e \in Live'
      BY <3>1 DEF Live
    <3>5. ASSUME NEW q \in Requests PROVE Queried(q, o, k)'
      <4>1. CASE q = r
        BY <1>0, <1>1, <4>1 DEF Queried
      <4>2. CASE q # r
        <5>1. Queried(q, o, k) /\ req'[q] = req[q]
          BY <1>1, <2>0, <4>2
        <5>. QED  BY <3>1, <3>4, <5>1 DEF Queried, Living
      <4>. QED  BY <4>1, <4>2
    <3>. QED  BY <3>3, <3>5
  <2>2. CASE x.mem[k] # Absent
    <3>1. Pending(k)'
      BY <1>0, <1>1, <2>2 DEF Pending
    <3>2. Followed(o, k)'
      BY <2>0, <3>1 DEF Followed
    <3>3. ASSUME NEW q \in Requests PROVE Queried(q, o, k)'
      <4>1. req'[q].pc \notin {"indexing", "read"}
        <5>. SUFFICES ASSUME req'[q].pc \in {"indexing", "read"} PROVE FALSE
          OBVIOUS
        <5>1. q # r /\ req[q].pc \in {"indexing", "read"}
          BY <1>0, <1>1
        <5>2. q \in InFlight /\ Call[q].kind = "query"
          BY <5>1 DEF InFlight, Busy, Typed, OnTrack, Fits
        <5>. QED  BY <1>0, <1>4, <2>2, <5>1, <5>2, Alone DEF Inv
      <4>. QED  BY <4>1 DEF Queried
    <3>. QED  BY <3>2, <3>3
  <2>. QED  BY <2>1, <2>2
<1>9. disturbed' = disturbed
  OBVIOUS
<1>. QED  BY <1>2, <1>3, <1>6, <1>7, <1>8, <1>9 DEF Inv

LEMMA IndexKeeps ==
    ASSUME Typed, Inv, NEW r \in Requests, Index(r)
    PROVE  Inv'
<1>0. UNCHANGED <<docs, started, disturbed>> /\ req[r].pc = "index"
  BY DEF Index
<1>1. PICK x : Becomes(r, x) /\ x.pc = "ok"
  BY AnswerBecomes DEF Index, Answers
<1>2. /\ req'[r] = x
      /\ \A s \in Requests \ {r} : req'[s] = req[s]
  BY <1>1, BecomesTyped
<1>3. Apart'
  BY <1>0, <1>1, ApartKept DEF Inv, Busy
<1>4. Owned' /\ Unbuilt'
  BY <1>0, <1>1, <1>2, IndexFollows DEF Inv, Owned, Unbuilt
<1>5. Live' = Live /\ \A s \in Requests : Stored(s)' = Stored(s)
  BY <1>0 DEF Live, Stored
<1>6. r \in InFlight /\ \A k \in Keys : req[r].mem[k] # Absent => k \in Call[r].keys
  BY <1>0 DEF InFlight, Busy, Typed, OnTrack, Fits
<1>7. ASSUME NEW k \in Keys \ disturbed
      PROVE  \A s \in Requests : Carries(s, k)'
  BY <1>1, <1>2, <1>5, <1>7 DEF Inv, Carries
<1>8. ASSUME NEW k \in Keys \ disturbed, NEW o \in Owners, Private(o, k)
      PROVE  Followed(o, k)' /\ \A q \in Requests : Queried(q, o, k)'
  <2>0. /\ Followed(o, k) /\ Carries(r, k)
        /\ \A q \in Requests : Queried(q, o, k)
    BY <1>8 DEF Inv
  <2>1. CASE req[r].mem[k] = Absent
    <3>1. index'[k] = index[k]
      BY <2>1, IndexFollows
    <3>2. Pending(k)' <=> Pending(k)
      BY <1>0, <1>1, <1>2, <2>1 DEF Pending
    <3>3. Followed(o, k)'
      BY <1>0, <2>0, <3>1, <3>2 DEF Followed, Living, Right
    <3>. QED  BY <1>0, <1>1, <1>2, <1>5, <2>0, <3>1, <3>3 DEF Queried, Living
  <2>2. CASE req[r].mem[k] # Absent
    <3>1. Call[r].owner = o /\ docs[o][k] = req[r].mem[k]
      <4>1. Call[r].owner = o
        BY <1>6, <1>8, <2>2, PrivateOwner
      <4>. QED  BY <1>0, <2>0, <2>2, <4>1 DEF Carries, Stored
    <3>2. \A q \in Requests : req[q].pc \notin {"indexing", "read"}
      <4>. SUFFICES ASSUME NEW q \in Requests, req[q].pc \in {"indexing", "read"} PROVE FALSE
        OBVIOUS
      <4>1. q \in InFlight /\ Call[q].kind = "query" /\ q # r
        BY <1>0 DEF InFlight, Busy, Typed, OnTrack, Fits
      <4>. QED  BY <1>6, <2>2, <4>1, Alone DEF Inv
    <3>3. Followed(o, k)'
      <4>1. CASE ~started
        <5>1. index' = NoIndex
          BY <3>2, <4>1, IndexFollows DEF Inv, Unbuilt
        <5>. QED  BY <1>0, <4>1, <5>1 DEF Followed, NoIndex
      <4>2. CASE started /\ Call[r].kind \in {"erase", "delete"}
        <5>1. index'[k] = NoEntry /\ ~Living(o, k)
          BY <1>0, <2>0, <2>2, <3>1, <4>2, IndexFollows DEF Carries, Living
        <5>. QED  BY <1>0, <5>1 DEF Followed, Living
      <4>3. CASE started /\ Call[r].kind \notin {"erase", "delete"}
        <5>1. /\ index'[k] # NoEntry /\ index'[k].owner = o
              /\ index'[k].word = docs[o][k].word
          BY <2>2, <3>1, <4>3, IndexFollows
        <5>2. Living(o, k)
          BY <1>0, <2>0, <2>2, <3>1, <4>3 DEF Carries, Living
        <5>. QED  BY <1>0, <5>1, <5>2 DEF Followed, Living, Right
      <4>. QED  BY <4>1, <4>2, <4>3
    <3>4. \A q \in Requests : req'[q].pc \notin {"indexing", "read"}
      BY <1>1, <1>2, <3>2
    <3>. QED  BY <3>3, <3>4 DEF Queried
  <2>. QED  BY <2>1, <2>2
<1>. QED  BY <1>0, <1>3, <1>4, <1>7, <1>8 DEF Inv

LEMMA RestartKeeps == ASSUME Typed, Inv, Restart PROVE Inv'
<1>1. /\ Rest \in RequestState
      /\ [Rest EXCEPT !.pc = "lost"].pc = "lost"
  BY RestTyped DEF RequestState
<1>2. \A r \in Requests : req'[r].pc \notin Busy
  BY <1>1 DEF Restart, InFlight, Busy
<1>3. \A k \in Keys : index'[k] = NoEntry /\ ~Pending(k)'
  BY <1>2 DEF Restart, NoIndex, Pending, Busy
<1>4. Apart' /\ Unbuilt' /\ Owned'
  BY <1>2 DEF Apart, Unbuilt, Owned, InFlight, Restart, NoIndex, Inv
<1>5. \A k \in Keys : /\ \A r \in Requests : Carries(r, k)'
                      /\ \A o \in Owners : Followed(o, k)'
                      /\ \A r \in Requests, o \in Owners : Queried(r, o, k)'
  BY <1>2, <1>3 DEF Carries, Followed, Queried, Busy, Restart
<1>. QED  BY <1>4, <1>5 DEF Inv

LEMMA InitInv == Init => Inv
<1>. SUFFICES ASSUME Init PROVE Inv
  OBVIOUS
<1>1. \A r \in Requests : req[r].pc = "idle"
  BY RestTyped DEF Init
<1>2. Apart /\ Unbuilt
  BY <1>1 DEF Apart, Unbuilt, InFlight, Busy, Init
<1>3. Owned
  BY DEF Owned, Private, Init
<1>4. \A k \in Keys : /\ \A r \in Requests : Carries(r, k)
                      /\ \A o \in Owners : Followed(o, k)
                      /\ \A r \in Requests, o \in Owners : Queried(r, o, k)
  BY <1>1 DEF Carries, Followed, Queried, Init, NoIndex
<1>. QED  BY <1>2, <1>3, <1>4 DEF Inv

LEMMA StepKeepsInv == ASSUME Typed, Inv, [Next]_vars PROVE Inv'
<1>1. ASSUME NEW r \in Requests, Create(r) PROVE Inv'
  <2>1. PICK x : Writes(r, x) /\ Marks(r, x.mem)
    BY <1>1, CreateWrites
  <2>. QED  BY <1>1, <2>1, WritesKeep DEF Create, Marks
<1>2. ASSUME NEW r \in Requests, Put(r) PROVE Inv'
  <2>1. PICK x : Writes(r, x) /\ x.mem = req[r].mem
    BY <1>2, PutWrites
  <2>2. \A k \in Keys \ disturbed : x.mem[k] # Absent =>
            (x.mem[k].deleted <=> Call[r].kind \in {"erase", "delete"})
    BY <1>2, <2>1 DEF Inv, Carries, Put
  <2>. QED  BY <1>2, <2>1, <2>2, WritesKeep DEF Put
<1>3. ASSUME UNCHANGED vars PROVE Inv'
  BY <1>3 DEF vars, Inv, Apart, Owned, Unbuilt, Carries, Followed, Queried, Living, Live,
              Pending, Right, InFlight, Clash, Stored, Private
<1>. QED  BY <1>1, <1>2, <1>3, BeginKeeps, GetKeeps, RegetKeeps, IndexKeeps, QueryKeeps,
             IndexOneKeeps, IndexDoneKeeps, ReadFoundKeeps, RestartKeeps
          DEF Next, Serve, Finished

-----------------------------------------------------------------------------
\* Queries

\* The property for one request and one step.
Exact(r) ==
    LET own == docs[Call[r].owner]
        sure == {k \in Keys \ disturbed : Private(Call[r].owner, k)}
    IN  {g \in req'[r].got : g[1] \in sure} =
           {<<k, own[k]>> : k \in {j \in sure :
               own[j] # Absent /\ ~own[j].deleted /\ own[j].word = Call[r].word}}

LEMMA SearchAnswers ==
    ASSUME Typed, Inv, NEW r \in Requests, NEW x, Searched(r, x), x.pc = "ok",
           req[r].pc = "indexing" => req[r].todo = {}, req[r].pc = "begin" => started
    PROVE  Exact(r)
<1>1. req'[r] = x /\ x.found = {} /\ x.got = {}
  BY BecomesTyped DEF Searched
<1>2. ASSUME NEW k \in Keys \ disturbed, Private(Call[r].owner, k)
      PROVE  ~(Living(Call[r].owner, k) /\ docs[Call[r].owner][k].word = Call[r].word)
  BY <1>1, <1>2, CallTypes, SearchExact
<1>. QED  BY <1>1, <1>2 DEF Exact, Living

LEMMA ReadAnswers ==
    ASSUME Typed, Inv, NEW r \in Requests, ReadFound(r)
    PROVE  Exact(r)
<1>1. PICK x : /\ Becomes(r, x) /\ req[r].pc = "read" /\ x.pc = "ok"
               /\ x.got = {<<k, Stored(r)[k]>> :
                             k \in {j \in req[r].found : Stored(r)[j] # Absent}}
  BY ReadFoundReads
<1>2. req'[r] = x /\ req[r].found \subseteq Keys /\ Call[r].owner \in Owners
  BY <1>1, BecomesTyped, StateTypes, CallTypes
<1>3. ASSUME NEW k \in Keys \ disturbed, Private(Call[r].owner, k)
      PROVE  k \in req[r].found <=>
                Living(Call[r].owner, k) /\ docs[Call[r].owner][k].word = Call[r].word
  BY <1>1, <1>2, <1>3 DEF Inv, Queried
<1>. QED  BY <1>1, <1>2, <1>3 DEF Exact, Living, Stored

LEMMA StepExact ==
    ASSUME Typed, Inv, [Next]_vars, NEW r \in Requests, Answered(r)
    PROVE  Exact(r)
<1>0. req[r].pc # "ok" /\ req'[r].pc = "ok" /\ Call[r].kind = "query"
  BY DEF Answered
<1>1. ASSUME NEW s \in Requests, NEW x, Becomes(s, x) PROVE s = r \/ req'[r] = req[r]
  BY <1>1, BecomesTyped
<1>2. ASSUME NEW s \in Requests, Serve(s) \/ Begin(s) PROVE Exact(r)
  <2>1. ASSUME Begin(s) PROVE FALSE
    BY <1>0, <1>1, <2>1, BeginBecomes, BecomesTyped
  <2>2. ASSUME Create(s) PROVE FALSE
    BY <1>0, <1>1, <2>2, CreateWrites, BecomesTyped DEF Writes
  <2>3. ASSUME Get(s) PROVE FALSE
    BY <1>0, <1>1, <2>3, GetPrepares, BecomesTyped DEF Prepares
  <2>4. ASSUME Reget(s) PROVE FALSE
    BY <1>0, <1>1, <2>4, RegetPrepares, BecomesTyped
  <2>5. ASSUME Put(s) PROVE FALSE
    BY <1>0, <1>1, <2>5, PutWrites, BecomesTyped DEF Writes
  <2>6. ASSUME Index(s) PROVE FALSE
    <3>1. PICK x : Becomes(s, x) /\ x.pc = "ok"
      BY <2>6, AnswerBecomes DEF Index, Answers
    <3>2. Call[s].kind # "query"
      BY <2>6 DEF Index, Typed, OnTrack, Fits
    <3>. QED  BY <1>0, <1>1, <3>1, <3>2
  <2>7. ASSUME Query(s) PROVE Exact(r)
    <3>1. CASE started
      <4>1. PICK x : Searched(s, x)
        BY <2>7, <3>1, QueryGoes
      <4>2. s = r /\ x.pc = "ok"
        BY <1>0, <1>1, <4>1, BecomesTyped DEF Searched
      <4>3. req[r].pc = "begin"
        BY <2>7, <4>2 DEF Query, Is
      <4>. QED  BY <3>1, <4>1, <4>2, <4>3, SearchAnswers
    <3>2. CASE ~started
      BY <1>0, <1>1, <2>7, <3>2, QueryGoes, BecomesTyped DEF Builds
    <3>. QED  BY <3>1, <3>2
  <2>8. ASSUME IndexOne(s) PROVE FALSE
    BY <1>0, <1>1, <2>8, IndexOneIndexes, BecomesTyped
  <2>9. ASSUME IndexDone(s) PROVE Exact(r)
    <3>1. PICK x : Searched(s, x)
      BY <2>9, IndexDoneSearches
    <3>2. s = r /\ x.pc = "ok"
      BY <1>0, <1>1, <3>1, BecomesTyped DEF Searched
    <3>3. req[r].pc = "indexing" /\ req[r].todo = {}
      BY <2>9, <3>2 DEF IndexDone
    <3>. QED  BY <3>1, <3>2, <3>3, SearchAnswers
  <2>10. ASSUME ReadFound(s) PROVE Exact(r)
    <3>1. s = r
      BY <1>0, <1>1, <2>10, ReadFoundReads
    <3>. QED  BY <2>10, <3>1, ReadAnswers
  <2>. QED  BY <1>2, <2>1, <2>2, <2>3, <2>4, <2>5, <2>6, <2>7, <2>8, <2>9, <2>10 DEF Serve
<1>3. ASSUME Restart PROVE FALSE
  <2>1. [Rest EXCEPT !.pc = "lost"].pc = "lost"
    BY RestTyped DEF RequestState
  <2>. QED  BY <1>0, <1>3, <2>1 DEF Restart
<1>4. ASSUME UNCHANGED vars PROVE FALSE
  BY <1>0, <1>4 DEF vars
<1>. QED  BY <1>2, <1>3, <1>4 DEF Next, Finished

\* However requests interleave, and wherever the process restarts, a query
\* answers exactly the owner's documents that it should, apart from the keys
\* whose writes overlapped a query or each other since the start.
THEOREM QueriesExact == Spec => QueryExact
<1>1. Init => Typed /\ Inv
  BY InitTyped, InitInv
<1>2. Typed /\ Inv /\ [Next]_vars => (Typed /\ Inv)'
  BY StepTyped, StepKeepsInv
<1>3. ASSUME Typed, Inv, [Next]_vars
      PROVE  [\A r \in Requests : Answered(r) =>
          LET own == docs[Call[r].owner]
              sure == {k \in Keys \ disturbed : Private(Call[r].owner, k)}
          IN  {g \in req'[r].got : g[1] \in sure} =
                 {<<k, own[k]>> : k \in {j \in sure :
                     own[j] # Absent /\ ~own[j].deleted /\ own[j].word = Call[r].word}}]_vars
  BY <1>3, StepExact DEF Exact
<1>. QED  BY <1>1, <1>2, <1>3, PTL DEF Spec, QueryExact
=============================================================================
