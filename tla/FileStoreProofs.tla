--------------------------- MODULE FileStoreProofs ---------------------------
(***************************************************************************)
(* Safety of FileStore, for every value of its constants: references       *)
(* resolve, grants stay unique and private to a file, the bin comes first, *)
(* writes are authorised, events reach no stranger, and the tree stays one *)
(* but for races.                                                          *)
(*                                                                         *)
(* None of these is inductive, because handlers write back copies they     *)
(* took earlier.  The inductive invariant Inv says of every copy of a file *)
(* record, wherever a handler keeps it, what the properties say of the     *)
(* stored ones (Sound), and of every request how far its authority has     *)
(* been established (Entitled).  The argument is monotony: files, grantees *)
(* of permissions, the bin and the two histories only ever grow, so what   *)
(* was true of a copy when it was taken is true when it is written.        *)
(***************************************************************************)
EXTENDS FileStoreTypes

-----------------------------------------------------------------------------
\* The inductive invariant.  Its parts are constant operators over the stores
\* F, P, the bin B and the histories G and L, so that a lemma about two stores
\* is a lemma about a step.

\* d is, or was, the record of file f.
Sound(F, P, G, L, d, f) ==
    /\ F[f] # Absent
    /\ \A p \in d.ids : /\ P[p] # NoPerm
                        /\ <<P[p].to, f, P[p].role>> \in G
                        /\ Given(G, L, P[p].addedBy, May, f)
    /\ \A p, q \in d.ids : P[p].to = P[q].to => p = q
    /\ d.parent # Root => /\ F[d.parent] # Absent
                          /\ Given(G, L, d.owner, May, d.parent)
    /\ <<f, d.parent>> \in L
    /\ <<d.owner, f, "owner">> \in G
    /\ Given(G, L, d.by, May, f)
    /\ d.deleted => Given(G, L, d.deletedBy, {"owner"}, f)

\* Where the access of r is decided.
Target(r) == IF Call[r].kind = "create" THEN Call[r].parent ELSE Call[r].file

\* The copies in local state x of request r.
CopiesSound(F, P, B, G, L, r, x) ==
    /\ x.seen \notin {Absent, Unread} =>
          /\ Sound(F, P, G, L, x.seen, x.at)
          /\ x.seen.deleted => x.at \in B
    /\ x.doc # Absent =>
          /\ Call[r].kind # "create"
          /\ Sound(F, P, G, L, x.doc, Call[r].file)
          /\ x.doc.deleted => (Call[r].file \in B \/ x.pc = "bin")
    /\ (x.doc # Absent /\ x.pc \in {"op", "link"}) =>
          \A p \in x.doc.ids : x.mem[p] # NoPerm /\ x.mem[p].to = P[p].to

\* The walk is at or above its target, and whoever is past it may write.
Entitled(F, G, L, r, x) ==
    /\ x.pc = "writecheck" => /\ Target(r) # Root /\ x.at \in Above(L, Target(r))
                              /\ x.at = Target(r) \/ F[Target(r)] # Absent
    /\ (x.pc \in {"get", "op", "link", "bin", "put"} /\ Target(r) # Root) =>
          Given(G, L, Call[r].user, May, Target(r)) /\ F[Target(r)] # Absent
    /\ (x.pc = "get" /\ x.role = "owner") =>
          Given(G, L, Call[r].user, {"owner"}, Target(r))

\* Local state x of request r, or the store F, names permission p for file f.
Holds(r, x, f, p) ==
    \/ x.seen \notin {Absent, Unread} /\ x.at = f /\ p \in x.seen.ids
    \/ x.doc # Absent /\ Call[r].file = f /\ p \in x.doc.ids
Names(F, R, f, p) ==
    \/ F[f] # Absent /\ p \in F[f].ids
    \/ \E r \in Requests : Holds(r, R[r], f, p)

Inv ==
    /\ \A f \in Files : files[f] # Absent =>
          /\ Sound(files, perms, issued, placed, files[f], f)
          /\ files[f].deleted => f \in bin
    /\ \A l \in shared : files[l[2]] # Absent
    /\ \A r \in Requests :
          /\ CopiesSound(files, perms, bin, issued, placed, r, req[r])
          /\ Entitled(files, issued, placed, r, req[r])
    /\ \A f, g \in Files, p \in PermIds :
          (Names(files, req, f, p) /\ Names(files, req, g, p)) => f = g

-----------------------------------------------------------------------------
\* Authority is never lost

LEMMA AboveSelf == ASSUME NEW L, NEW f \in Files PROVE f \in Above(L, f)
  BY DEF Above

LEMMA AboveStep ==
    ASSUME NEW L, NEW f \in Files, NEW g \in Above(L, f), NEW h \in Files,
           <<g, h>> \in L
    PROVE  h \in Above(L, f)
<1>1. h # Root
  BY SentinelsDistinct
<1>2. ASSUME NEW S \in SUBSET Files, f \in S,
             \A e \in L : (e[1] \in S /\ e[2] # Root) => e[2] \in S
      PROVE  h \in S
  <2>1. g \in S
    BY <1>2 DEF Above
  <2>. QED  BY <1>1, <1>2, <2>1
<1>. QED  BY <1>2 DEF Above

LEMMA AboveGrows ==
    ASSUME NEW L, NEW L2, L \subseteq L2, NEW f
    PROVE  Above(L, f) \subseteq Above(L2, f)
  BY DEF Above

LEMMA GivenGrows ==
    ASSUME NEW G, NEW G2, G \subseteq G2, NEW L, NEW L2, L \subseteq L2,
           NEW u, NEW roles, NEW f, Given(G, L, u, roles, f)
    PROVE  Given(G2, L2, u, roles, f)
  BY AboveGrows DEF Given

LEMMA GivenHere ==
    ASSUME NEW G, NEW L, NEW u, NEW roles, NEW f \in Files, NEW role \in roles,
           <<u, f, role>> \in G
    PROVE  Given(G, L, u, roles, f)
  BY AboveSelf DEF Given

-----------------------------------------------------------------------------
\* What was true of a copy stays true

\* Permission p of file f is as it was, or was rewritten for the same grantee.
Kept(P, P2, G, L, f, p) ==
    \/ P2[p] = P[p]
    \/ /\ P2[p] # NoPerm /\ P2[p].to = P[p].to
       /\ <<P2[p].to, f, P2[p].role>> \in G
       /\ Given(G, L, P2[p].addedBy, May, f)

Grow(F, F2, B, B2, G, G2, L, L2) ==
    /\ \A f \in Files : F[f] # Absent => F2[f] # Absent
    /\ B \subseteq B2 /\ G \subseteq G2 /\ L \subseteq L2

LEMMA SoundKept ==
    ASSUME NEW F, NEW F2, NEW P, NEW P2, NEW B, NEW B2, NEW G, NEW G2, NEW L, NEW L2,
           Grow(F, F2, B, B2, G, G2, L, L2),
           NEW d \in FileRecord, NEW f \in Files, Sound(F, P, G, L, d, f),
           \A p \in d.ids : Kept(P, P2, G2, L2, f, p)
    PROVE  Sound(F2, P2, G2, L2, d, f)
<1>1. G \subseteq G2 /\ L \subseteq L2
  BY DEF Grow
<1>2. \A u, roles, g : Given(G, L, u, roles, g) => Given(G2, L2, u, roles, g)
  BY <1>1, GivenGrows
<1>3. ASSUME NEW p \in d.ids
      PROVE  /\ P2[p] # NoPerm /\ P2[p].to = P[p].to
             /\ <<P2[p].to, f, P2[p].role>> \in G2
             /\ Given(G2, L2, P2[p].addedBy, May, f)
  <2>1. CASE P2[p] = P[p]
    BY <1>1, <1>2, <2>1 DEF Sound
  <2>2. CASE P2[p] # P[p]
    BY <2>2 DEF Kept
  <2>. QED  BY <2>1, <2>2
<1>4. F2[f] # Absent /\ (d.parent # Root => F2[d.parent] # Absent)
  BY DEF Grow, Sound, FileRecord
<1>5. <<f, d.parent>> \in L2 /\ <<d.owner, f, "owner">> \in G2
  BY <1>1 DEF Sound
<1>6. \A p, q \in d.ids : P2[p].to = P2[q].to => p = q
  BY <1>3 DEF Sound
<1>7. /\ d.parent # Root => Given(G2, L2, d.owner, May, d.parent)
      /\ Given(G2, L2, d.by, May, f)
      /\ d.deleted => Given(G2, L2, d.deletedBy, {"owner"}, f)
  BY <1>2 DEF Sound
<1>. QED  BY <1>3, <1>4, <1>5, <1>6, <1>7 DEF Sound

LEMMA CopiesKept ==
    ASSUME NEW F, NEW F2, NEW P, NEW P2, NEW B, NEW B2, NEW G, NEW G2, NEW L, NEW L2,
           Grow(F, F2, B, B2, G, G2, L, L2),
           NEW r \in Requests, NEW x \in RequestState,
           CopiesSound(F, P, B, G, L, r, x),
           \A f \in Files, p \in PermIds :
              Holds(r, x, f, p) => Kept(P, P2, G2, L2, f, p)
    PROVE  CopiesSound(F2, P2, B2, G2, L2, r, x)
<1>1. ASSUME x.seen \notin {Absent, Unread}
      PROVE  Sound(F2, P2, G2, L2, x.seen, x.at) /\ (x.seen.deleted => x.at \in B2)
  <2>1. x.seen \in FileRecord /\ x.at \in Files
    BY <1>1 DEF RequestState
  <2>2. \A p \in x.seen.ids : Kept(P, P2, G2, L2, x.at, p)
    BY <1>1, <2>1 DEF Holds, FileRecord
  <2>3. Sound(F, P, G, L, x.seen, x.at) /\ (x.seen.deleted => x.at \in B)
    BY <1>1 DEF CopiesSound
  <2>4. Sound(F2, P2, G2, L2, x.seen, x.at)
    BY <2>1, <2>2, <2>3, SoundKept
  <2>. QED  BY <2>3, <2>4 DEF Grow
<1>2. ASSUME x.doc # Absent
      PROVE  /\ Call[r].kind # "create" /\ Sound(F2, P2, G2, L2, x.doc, Call[r].file)
             /\ x.doc.deleted => (Call[r].file \in B2 \/ x.pc = "bin")
             /\ \A p \in x.doc.ids : P2[p].to = P[p].to
  <2>1. x.doc \in FileRecord /\ Call[r].file \in Files
    BY <1>2, CallTypes DEF RequestState
  <2>2. \A p \in x.doc.ids : Kept(P, P2, G2, L2, Call[r].file, p)
    BY <1>2, <2>1 DEF Holds, FileRecord
  <2>3. /\ Sound(F, P, G, L, x.doc, Call[r].file) /\ Call[r].kind # "create"
        /\ x.doc.deleted => (Call[r].file \in B \/ x.pc = "bin")
    BY <1>2 DEF CopiesSound
  <2>4. Sound(F2, P2, G2, L2, x.doc, Call[r].file)
    BY <2>1, <2>2, <2>3, SoundKept
  <2>5. \A p \in x.doc.ids : P2[p].to = P[p].to
    BY <2>2 DEF Kept
  <2>. QED  BY <2>3, <2>4, <2>5 DEF Grow
<1>. QED  BY <1>1, <1>2 DEF CopiesSound

LEMMA EntitledKept ==
    ASSUME NEW F, NEW F2, NEW B, NEW B2, NEW G, NEW G2, NEW L, NEW L2,
           Grow(F, F2, B, B2, G, G2, L, L2),
           NEW r \in Requests, NEW x, Entitled(F, G, L, r, x)
    PROVE  Entitled(F2, G2, L2, r, x)
<1>1. G \subseteq G2 /\ L \subseteq L2
  BY DEF Grow
<1>2. \A u, roles, g : Given(G, L, u, roles, g) => Given(G2, L2, u, roles, g)
  BY <1>1, GivenGrows
<1>3. \A f : Above(L, f) \subseteq Above(L2, f)
  BY <1>1, AboveGrows
<1>4. (Target(r) # Root /\ F[Target(r)] # Absent) => F2[Target(r)] # Absent
  BY CallTypes DEF Grow, Target
<1>5. ASSUME x.pc = "writecheck"
      PROVE  /\ Target(r) # Root /\ x.at \in Above(L2, Target(r))
             /\ x.at = Target(r) \/ F2[Target(r)] # Absent
  <2>1. /\ Target(r) # Root /\ x.at \in Above(L, Target(r))
        /\ x.at = Target(r) \/ F[Target(r)] # Absent
    BY <1>5 DEF Entitled
  <2>. QED  BY <1>3, <1>4, <2>1
<1>6. ASSUME x.pc \in {"get", "op", "link", "bin", "put"}, Target(r) # Root
      PROVE  Given(G2, L2, Call[r].user, May, Target(r)) /\ F2[Target(r)] # Absent
  <2>1. Given(G, L, Call[r].user, May, Target(r)) /\ F[Target(r)] # Absent
    BY <1>6 DEF Entitled
  <2>. QED  BY <1>2, <1>4, <1>6, <2>1
<1>7. ASSUME x.pc = "get", x.role = "owner"
      PROVE  Given(G2, L2, Call[r].user, {"owner"}, Target(r))
  <2>1. Given(G, L, Call[r].user, {"owner"}, Target(r))
    BY <1>7 DEF Entitled
  <2>. QED  BY <1>2, <2>1
<1>. QED  BY <1>5, <1>6, <1>7 DEF Entitled

-----------------------------------------------------------------------------
\* A step changes the local state of one request to x, and the stores

\* What every step of request r has to show of the new stores and of x.
StepSound(r, x) ==
    /\ Grow(files, files', bin, bin', issued, issued', placed, placed')
    /\ \A f \in Files, p \in PermIds :
          Names(files, req, f, p) => Kept(perms, perms', issued', placed', f, p)
    /\ \A f \in Files : files'[f] # Absent =>
          \/ files'[f] = files[f]
          \/ /\ Sound(files', perms', issued', placed', files'[f], f)
             /\ files'[f].deleted => f \in bin'
    /\ \A l \in shared' : l \in shared \/ files'[l[2]] # Absent
    /\ CopiesSound(files', perms', bin', issued', placed', r, x)
    /\ Entitled(files', issued', placed', r, x)

LEMMA StepKeepsInv ==
    ASSUME Typed, Inv, NEW r \in Requests, NEW x \in RequestState,
           Become(r, x), StepSound(r, x),
           \A f, g \in Files, p \in PermIds :
              (Names(files', req', f, p) /\ Names(files', req', g, p)) => f = g
    PROVE  Inv'
<1>1. Grow(files, files', bin, bin', issued, issued', placed, placed')
  BY DEF StepSound
<1>2. ASSUME NEW f \in Files, files'[f] # Absent
      PROVE  /\ Sound(files', perms', issued', placed', files'[f], f)
             /\ files'[f].deleted => f \in bin'
  <2>1. CASE files'[f] = files[f]
    <3>1. files[f] \in FileRecord
      BY <1>2, <2>1 DEF Typed, TypeOK
    <3>2. \A p \in files[f].ids : Kept(perms, perms', issued', placed', f, p)
      BY <1>2, <2>1, <3>1 DEF StepSound, Names, FileRecord
    <3>3. /\ Sound(files, perms, issued, placed, files[f], f)
          /\ files[f].deleted => f \in bin
      BY <1>2, <2>1 DEF Inv
    <3>4. Sound(files', perms', issued', placed', files[f], f)
      BY <1>1, <3>1, <3>2, <3>3, SoundKept
    <3>. QED  BY <1>1, <2>1, <3>3, <3>4 DEF Grow
  <2>2. CASE files'[f] # files[f]
    BY <1>2, <2>2 DEF StepSound
  <2>. QED  BY <2>1, <2>2
<1>3. ASSUME NEW s \in Requests
      PROVE  /\ CopiesSound(files', perms', bin', issued', placed', s, req'[s])
             /\ Entitled(files', issued', placed', s, req'[s])
  <2>1. CASE s = r
    <3>1. req'[s] = x
      BY <2>1 DEF Become, Typed, TypeOK
    <3>. QED  BY <2>1, <3>1 DEF StepSound
  <2>2. CASE s # r
    <3>1. req'[s] = req[s] /\ req[s] \in RequestState
      BY <2>2 DEF Become, Typed, TypeOK
    <3>2. \A f \in Files, p \in PermIds :
             Holds(s, req[s], f, p) => Kept(perms, perms', issued', placed', f, p)
      BY DEF StepSound, Names
    <3>3. /\ CopiesSound(files, perms, bin, issued, placed, s, req[s])
          /\ Entitled(files, issued, placed, s, req[s])
      BY DEF Inv
    <3>4. CopiesSound(files', perms', bin', issued', placed', s, req[s])
      BY <1>1, <3>1, <3>2, <3>3, CopiesKept
    <3>5. Entitled(files', issued', placed', s, req[s])
      BY <1>1, <3>3, EntitledKept
    <3>. QED  BY <3>1, <3>4, <3>5
  <2>. QED  BY <2>1, <2>2
<1>4. ASSUME NEW l \in shared' PROVE files'[l[2]] # Absent
  <2>1. CASE l \in shared
    <3>1. l[2] \in Files /\ files[l[2]] # Absent
      BY <2>1 DEF Inv, Typed, TypeOK
    <3>. QED  BY <1>1, <3>1 DEF Grow
  <2>. QED  BY <2>1 DEF StepSound
<1>. QED  BY <1>2, <1>3, <1>4 DEF Inv

\* Most steps name no permission for a file that nobody named for it before.
LEMMA NoNewNames ==
    ASSUME Typed, Inv, NEW r \in Requests, NEW x \in RequestState, Become(r, x),
           \A f \in Files, p \in PermIds :
              Holds(r, x, f, p) => Names(files, req, f, p),
           \A f \in Files, p \in PermIds :
              (files'[f] # Absent /\ p \in files'[f].ids) => Names(files, req, f, p)
    PROVE  \A f, g \in Files, p \in PermIds :
              (Names(files', req', f, p) /\ Names(files', req', g, p)) => f = g
<1>1. ASSUME NEW f \in Files, NEW p \in PermIds, Names(files', req', f, p)
      PROVE  Names(files, req, f, p)
  <2>1. CASE \E s \in Requests : Holds(s, req'[s], f, p)
    <3>1. PICK s \in Requests : Holds(s, req'[s], f, p)
      BY <2>1
    <3>2. CASE s = r
      <4>1. req'[s] = x
        BY <3>2 DEF Become, Typed, TypeOK
      <4>. QED  BY <3>1, <3>2, <4>1
    <3>3. CASE s # r
      <4>1. req'[s] = req[s]
        BY <3>3 DEF Become, Typed, TypeOK
      <4>. QED  BY <3>1, <4>1 DEF Names
    <3>. QED  BY <3>2, <3>3
  <2>. QED  BY <1>1, <2>1 DEF Names
<1>. QED  BY <1>1 DEF Inv

\* A step that leaves files, permissions and history alone.
LEMMA QuietStep ==
    ASSUME Typed, Inv, NEW r \in Requests, NEW x \in RequestState, Become(r, x),
           UNCHANGED <<files, perms, history>>, bin \subseteq bin',
           \A l \in shared' : l \in shared \/ files[l[2]] # Absent,
           CopiesSound(files, perms, bin', issued, placed, r, x),
           Entitled(files, issued, placed, r, x),
           \A f \in Files, p \in PermIds :
              Holds(r, x, f, p) => Names(files, req, f, p)
    PROVE  Inv'
<1>1. /\ files' = files /\ perms' = perms
      /\ issued' = issued /\ placed' = placed
  BY DEF history
<1>2. StepSound(r, x)
  BY <1>1 DEF StepSound, Grow, Kept
<1>3. \A f \in Files, p \in PermIds :
         (files'[f] # Absent /\ p \in files'[f].ids) => Names(files, req, f, p)
  BY <1>1 DEF Names
<1>4. \A f, g \in Files, p \in PermIds :
         (Names(files', req', f, p) /\ Names(files', req', g, p)) => f = g
  BY <1>3, NoNewNames
<1>. QED  BY <1>2, <1>4, StepKeepsInv

\* A handler that has let go of its copies has nothing to show.
LEMMA NothingHeld ==
    ASSUME NEW F, NEW P, NEW B, NEW G, NEW L, NEW r \in Requests, NEW x,
           x.seen = Unread, x.doc = Absent,
           x.pc \notin {"writecheck", "get", "op", "link", "bin", "put"}
    PROVE  /\ CopiesSound(F, P, B, G, L, r, x) /\ Entitled(F, G, L, r, x)
           /\ \A f, p : ~Holds(r, x, f, p)
  BY DEF CopiesSound, Entitled, Holds

LEMMA AnswerSound ==
    ASSUME Typed, Inv, NEW r \in Requests, NEW code \in Answers, Answer(r, code),
           UNCHANGED <<store, history>>
    PROVE  Inv'
<1>. DEFINE x == [Rest(r) EXCEPT !.pc = code, !.told = req[r].told]
<1>1. req[r].told \in SUBSET (Events \X Users)
  BY DEF Typed, TypeOK, RequestState
<1>2. x \in RequestState
  BY <1>1, EndTyped
<1>3. x.seen = Unread /\ x.doc = Absent /\ x.pc = code
  BY DEF Rest
<1>. HIDE DEF x
<1>4. /\ CopiesSound(files, perms, bin', issued, placed, r, x)
      /\ Entitled(files, issued, placed, r, x)
      /\ \A f, p : ~Holds(r, x, f, p)
  BY <1>3, NothingHeld DEF Answers
<1>5. Become(r, x)
  BY DEF Answer, x
<1>. QED  BY <1>2, <1>4, <1>5, QuietStep DEF store

\* A step that takes no copy: what x still holds is what q held.
LEMMA SameCopies ==
    ASSUME NEW F, NEW P, NEW B, NEW G, NEW L, NEW r \in Requests, NEW q, NEW x,
           CopiesSound(F, P, B, G, L, r, q), q.pc # "bin", x.doc = q.doc,
           x.seen = Unread \/ (x.seen = q.seen /\ x.at = q.at),
           x.pc \in {"op", "link"} => (q.pc \in {"op", "link"} /\ x.mem = q.mem)
    PROVE  /\ CopiesSound(F, P, B, G, L, r, x)
           /\ \A f, p : Holds(r, x, f, p) => Holds(r, q, f, p)
  BY DEF CopiesSound, Holds

\* What is known of request r before it takes a step.
LEMMA Before ==
    ASSUME Typed, Inv, NEW r \in Requests
    PROVE  /\ req[r] \in RequestState /\ OnTrack(files, r, req[r])
           /\ CopiesSound(files, perms, bin, issued, placed, r, req[r])
           /\ Entitled(files, issued, placed, r, req[r])
           /\ \A f, p : Holds(r, req[r], f, p) => Names(files, req, f, p)
  BY DEF Typed, TypeOK, Inv, Names

\* The local state after a step has its type.
LEMMA After ==
    ASSUME Typed, Typed', NEW r \in Requests, NEW x, Become(r, x)
    PROVE  x \in RequestState
  BY DEF Typed, TypeOK, Become

-----------------------------------------------------------------------------
\* One lemma per action

LEMMA InitInv == Init => Inv
<1>. SUFFICES ASSUME Init PROVE Inv
  OBVIOUS
<1>1. ASSUME NEW f \in Files, files[f] # Absent
      PROVE  /\ Sound(files, perms, issued, placed, files[f], f)
             /\ files[f].deleted => f \in bin
  <2>1. /\ files[f] \in FileRecord /\ files = InitFiles /\ perms = InitPerms
        /\ issued = InitIssued /\ placed = InitPlaced
    BY <1>1, InitialStoreWellFormed DEF Init
  <2>2. <<files[f].owner, f, "owner">> \in issued /\ <<f, files[f].parent>> \in placed
    BY <1>1, <2>1, InitialStoreWellFormed
  <2>3. \A p \in files[f].ids : <<perms[p].to, f, perms[p].role>> \in issued
    BY <1>1, <2>1, InitialStoreWellFormed
  <2>5. /\ Given(issued, placed, files[f].by, May, f)
        /\ files[f].parent # Root =>
              Given(issued, placed, files[f].owner, May, files[f].parent)
        /\ \A p \in files[f].ids : Given(issued, placed, perms[p].addedBy, May, f)
        /\ files[f].deleted =>
              Given(issued, placed, files[f].deletedBy, {"owner"}, f)
    BY <1>1, InitialStoreWellFormed DEF Init, Authorised
  <2>6. /\ files[f].parent # Root => files[files[f].parent] # Absent
        /\ \A p \in files[f].ids : perms[p] # NoPerm
        /\ \A p, q \in files[f].ids : perms[p].to = perms[q].to => p = q
    BY <1>1, InitialStoreWellFormed DEF Init
  <2>. QED  BY <1>1, <2>1, <2>2, <2>3, <2>5, <2>6 DEF Sound, Init
<1>2. ASSUME NEW r \in Requests
      PROVE  /\ CopiesSound(files, perms, bin, issued, placed, r, req[r])
             /\ Entitled(files, issued, placed, r, req[r])
             /\ \A f, p : ~Holds(r, req[r], f, p)
  <2>1. req[r].seen = Unread /\ req[r].doc = Absent /\ req[r].pc = "idle"
    BY DEF Init, Rest
  <2>. QED  BY <2>1, NothingHeld
<1>3. ASSUME NEW f \in Files, NEW g \in Files, NEW p \in PermIds,
             Names(files, req, f, p), Names(files, req, g, p)
      PROVE  f = g
  <2>1. /\ files[f] # Absent /\ p \in files[f].ids
        /\ files[g] # Absent /\ p \in files[g].ids
    BY <1>2, <1>3 DEF Names
  <2>. QED  BY <2>1, InitialStoreWellFormed DEF Init
<1>4. \A l \in shared : files[l[2]] # Absent
  BY InitialStoreWellFormed DEF Init
<1>. QED  BY <1>1, <1>2, <1>3, <1>4 DEF Inv

LEMMA BeginInv ==
    ASSUME Typed, Typed', Inv, NEW r \in Requests, Begin(r)
    PROVE  Inv'
<1>. DEFINE pc == CASE Call[r].kind = "create" -> "exists"
                    [] Call[r].kind = "access" -> "writecheck"
                    [] OTHER -> "readcheck"
            x == [req[r] EXCEPT !.pc = pc]
<1>1. req[r] = Rest(r) /\ req[r] \in RequestState
  BY Before DEF Begin, OnTrack
<1>2. /\ x.seen = Unread /\ x.doc = Absent /\ x.at = Call[r].file /\ x.pc = pc
  BY <1>1 DEF Rest
<1>3. Become(r, x)
  BY DEF Begin
<1>. HIDE DEF x
<1>4. CopiesSound(files, perms, bin', issued, placed, r, x)
      /\ \A f, p : ~Holds(r, x, f, p)
  BY <1>2 DEF CopiesSound, Holds
<1>5. Entitled(files, issued, placed, r, x)
  BY <1>2, CallTypes, AboveSelf, SentinelsDistinct DEF Entitled, Target, Kinds
<1>. QED  BY <1>3, <1>4, <1>5, After, QuietStep DEF Begin, store

LEMMA FetchInv ==
    ASSUME Typed, Typed', Inv, NEW r \in Requests, Fetch(r)
    PROVE  Inv'
<1>. DEFINE q == req[r]
            x == [q EXCEPT !.seen = files[q.at]]
<1>1. /\ q \in RequestState /\ q.pc \in Reading
      /\ CopiesSound(files, perms, bin, issued, placed, r, q)
      /\ Entitled(files, issued, placed, r, q)
      /\ \A f, p : Holds(r, q, f, p) => Names(files, req, f, p)
  BY Before DEF Fetch
<1>2. /\ x.seen = files[q.at] /\ x.at = q.at /\ x.doc = q.doc /\ x.pc = q.pc
      /\ x.role = q.role /\ q.at \in Files /\ Become(r, x)
  BY <1>1 DEF Fetch, RequestState
<1>. HIDE DEF x
<1>3. CopiesSound(files, perms, bin', issued, placed, r, x)
  BY <1>1, <1>2 DEF CopiesSound, Fetch, store, Reading, Inv
<1>4. Entitled(files, issued, placed, r, x)
  BY <1>1, <1>2 DEF Entitled
<1>5. \A f \in Files, p \in PermIds : Holds(r, x, f, p) => Names(files, req, f, p)
  BY <1>1, <1>2 DEF Holds, Names
<1>. QED  BY <1>2, <1>3, <1>4, <1>5, After, QuietStep DEF Fetch, store

LEMMA CheckExistsInv ==
    ASSUME Typed, Typed', Inv, NEW r \in Requests, CheckExists(r)
    PROVE  Inv'
<1>. DEFINE q == req[r]
            top == [q EXCEPT !.pc = "put"]
            walk == [q EXCEPT !.pc = "writecheck", !.at = Call[r].parent]
<1>1. /\ q \in RequestState /\ OnTrack(files, r, q) /\ q.pc = "exists"
      /\ CopiesSound(files, perms, bin, issued, placed, r, q)
  BY Before DEF CheckExists
<1>2. Call[r].kind = "create" /\ q.seen = Unread /\ q.doc = Absent
  BY <1>1 DEF OnTrack, Reading, CopiesSound
<1>3. ASSUME NEW x, Become(r, x), x.seen = Unread, x.doc = Absent,
             Entitled(files, issued, placed, r, x)
      PROVE  Inv'
  <2>1. CopiesSound(files, perms, bin', issued, placed, r, x)
        /\ \A f, p : ~Holds(r, x, f, p)
    BY <1>3 DEF CopiesSound, Holds
  <2>. QED  BY <1>3, <2>1, After, QuietStep DEF CheckExists, store
<1>4. CASE Answer(r, "400")
  BY <1>4, AnswerSound DEF CheckExists, Answers
<1>5. CASE Call[r].parent = Root /\ Become(r, top)
  <2>1. top.seen = Unread /\ top.doc = Absent /\ top.pc = "put"
    BY <1>1, <1>2 DEF RequestState
  <2>. HIDE DEF top
  <2>2. Entitled(files, issued, placed, r, top)
    BY <1>2, <1>5, <2>1 DEF Entitled, Target
  <2>. QED  BY <1>3, <1>5, <2>1, <2>2
<1>6. CASE Call[r].parent # Root /\ Become(r, walk)
  <2>1. /\ walk.seen = Unread /\ walk.doc = Absent
        /\ walk.pc = "writecheck" /\ walk.at = Call[r].parent
    BY <1>1, <1>2 DEF RequestState
  <2>. HIDE DEF walk
  <2>2. Entitled(files, issued, placed, r, walk)
    BY <1>2, <1>6, <2>1, CallTypes, AboveSelf DEF Entitled, Target
  <2>. QED  BY <1>3, <1>6, <2>1, <2>2
<1>. QED  BY <1>4, <1>5, <1>6 DEF CheckExists

\* A role the check finds on a copy of file f was handed out on f, to the user
\* or to anyone: also if the permission was rewritten since the copy was taken.
LEMMA RoleWasIssued ==
    ASSUME NEW d \in FileRecord, NEW f \in Files, NEW u \in Users,
           Sound(files, perms, issued, placed, d, f), RoleAt(d, u) # "none"
    PROVE  \E to \in {u, Anyone} : <<to, f, RoleAt(d, u)>> \in issued
<1>. DEFINE live == {p \in Listed(d.ids) : Live(perms[p])}
            own  == {p \in live : perms[p].to = u}
            any  == {p \in live : perms[p].to = Anyone}
            po == CHOOSE p \in own : TRUE
            pa == CHOOSE p \in any : TRUE
<1>1. own # {} => po \in d.ids /\ perms[po].to = u
  <2>1. own # {} => po \in own
    OBVIOUS
  <2>. QED  BY <2>1 DEF Listed
<1>2. any # {} => pa \in d.ids /\ perms[pa].to = Anyone
  <2>1. any # {} => pa \in any
    OBVIOUS
  <2>. QED  BY <2>1 DEF Listed
<1>3. RoleAt(d, u) = IF d.owner = u THEN "owner"
                     ELSE IF own # {} THEN perms[po].role
                     ELSE IF any # {} THEN perms[pa].role
                     ELSE "none"
  BY DEF RoleAt
<1>. HIDE DEF own, any, po, pa, live
<1>. QED  BY <1>1, <1>2, <1>3 DEF Sound

LEMMA WriterMay ==
    ASSUME NEW role \in Roles, HasRole("writer", role)
    PROVE  role \in May
<1>1. Rank["writer"] = 3 /\ Rank["reader"] = 1 /\ Rank["commenter"] = 2
  BY DEF Rank
<1>. QED  BY <1>1 DEF HasRole, Roles, May

LEMMA CheckInv ==
    ASSUME Typed, Typed', Inv, NEW r \in Requests, Check(r)
    PROVE  Inv'
<1>. DEFINE q == req[r]
            role == RoleAt(q.seen, Call[r].user)
            up == [q EXCEPT !.at = q.seen.parent, !.seen = Unread]
            on == [q EXCEPT !.pc = AfterCheck(r), !.role = role,
                            !.at = Call[r].file, !.seen = Unread]
<1>1. /\ q \in RequestState /\ OnTrack(files, r, q)
      /\ q.pc \in {"readcheck", "writecheck"} /\ q.seen # Unread
      /\ CopiesSound(files, perms, bin, issued, placed, r, q)
      /\ Entitled(files, issued, placed, r, q)
      /\ \A f, p : Holds(r, q, f, p) => Names(files, req, f, p)
      /\ UNCHANGED <<store, now, history>>
  BY Before DEF Check, Fetched
<1>2. CASE Answer(r, "404") \/ Answer(r, "403")
  BY <1>1, <1>2, AnswerSound DEF Answers
<1>3. ASSUME NEW x, Become(r, x), x.doc = q.doc, x.seen = Unread,
             x.pc \notin {"op", "link"}, Entitled(files, issued, placed, r, x)
      PROVE  Inv'
  <2>1. /\ CopiesSound(files, perms, bin, issued, placed, r, x)
        /\ \A f, p : Holds(r, x, f, p) => Holds(r, q, f, p)
    BY <1>1, <1>3, SameCopies
  <2>. QED  BY <1>1, <1>3, <2>1, After, QuietStep DEF store
<1>4. ASSUME q.seen # Absent
      PROVE  /\ q.seen \in FileRecord /\ q.at \in Files
             /\ Sound(files, perms, issued, placed, q.seen, q.at)
  BY <1>1, <1>4 DEF CopiesSound, RequestState
<1>5. CASE q.seen # Absent /\ q.seen.parent # Root /\ Become(r, up)
  <2>1. up.doc = q.doc /\ up.seen = Unread /\ up.pc = q.pc /\ up.at = q.seen.parent
    BY <1>1 DEF RequestState
  <2>2. q.seen.parent \in Files /\ files[q.at] # Absent
        /\ <<q.at, q.seen.parent>> \in placed
    BY <1>4, <1>5 DEF FileRecord, Sound
  <2>. HIDE DEF up
  <2>3. up.pc = "writecheck" => /\ Target(r) # Root
                                /\ q.at \in Above(placed, Target(r))
                                /\ files[Target(r)] # Absent
    BY <1>1, <2>1, <2>2 DEF Entitled
  <2>4. up.pc = "writecheck" => up.at \in Above(placed, Target(r))
    <3>1. Target(r) # Root => Target(r) \in Files
      BY CallTypes DEF Target
    <3>. QED  BY <2>1, <2>2, <2>3, <3>1, AboveStep
  <2>5. Entitled(files, issued, placed, r, up)
    BY <1>1, <2>1, <2>3, <2>4 DEF Entitled
  <2>. QED  BY <1>1, <1>3, <1>5, <2>1, <2>5
<1>6. CASE /\ q.seen # Absent /\ role # "none" /\ HasRole(Minimum(q.pc), role)
           /\ Become(r, on)
  <2>1. /\ on.doc = q.doc /\ on.seen = Unread /\ on.pc = AfterCheck(r)
        /\ on.role = role
    BY <1>1 DEF RequestState
  <2>2. PICK to \in {Call[r].user, Anyone} : <<to, q.at, role>> \in issued
    BY <1>4, <1>6, CallTypes, RoleWasIssued
  <2>3. role \in Roles
    BY <1>4, <1>6, CallTypes, RoleTyped DEF Typed
  <2>. HIDE DEF on, role
  <2>4. CASE q.pc = "readcheck"
    <3>1. on.pc = "read"
      BY <2>1, <2>4 DEF AfterCheck
    <3>2. Entitled(files, issued, placed, r, on)
      BY <3>1 DEF Entitled
    <3>. QED  BY <1>3, <1>6, <2>1, <3>1, <3>2
  <2>5. CASE q.pc = "writecheck"
    <3>1. on.pc \in {"get", "put"}
      BY <2>1, <2>5 DEF AfterCheck
    <3>2. q.at \in Above(placed, Target(r))
      BY <1>1, <2>5 DEF Entitled
    <3>3. files[Target(r)] # Absent
      BY <1>1, <1>4, <1>6, <2>5 DEF Entitled, Sound
    <3>4. role \in May
      BY <1>6, <2>3, <2>5, WriterMay DEF Minimum
    <3>5. Given(issued, placed, Call[r].user, May, Target(r))
      BY <2>2, <3>2, <3>4 DEF Given
    <3>6. role = "owner" => Given(issued, placed, Call[r].user, {"owner"}, Target(r))
      BY <2>2, <3>2 DEF Given
    <3>7. Entitled(files, issued, placed, r, on)
      BY <2>1, <3>1, <3>3, <3>5, <3>6 DEF Entitled
    <3>. QED  BY <1>3, <1>6, <2>1, <3>1, <3>7
  <2>. QED  BY <1>1, <2>4, <2>5
<1>. QED  BY <1>2, <1>5, <1>6 DEF Check

\* A copy changed in what Sound does not look at, with fewer permissions, or
\* with a deletion that was entitled, is as sound.
LEMMA SoundCopy ==
    ASSUME NEW F, NEW P, NEW G, NEW L, NEW d, NEW f, Sound(F, P, G, L, d, f),
           NEW e, e.ids \subseteq d.ids, e.parent = d.parent, e.owner = d.owner,
           e.by = d.by,
           e.deleted => \/ d.deleted /\ e.deletedBy = d.deletedBy
                        \/ Given(G, L, e.deletedBy, {"owner"}, f)
    PROVE  Sound(F, P, G, L, e, f)
  BY DEF Sound

LEMMA ReadInv ==
    ASSUME Typed, Typed', Inv, NEW r \in Requests, Read(r)
    PROVE  Inv'
<1>. DEFINE q == req[r]
            again == [q EXCEPT !.pc = "writecheck", !.seen = Unread]
            copy == [q.seen EXCEPT !.edits = @ \cup {r}]
            edited == [q EXCEPT !.pc = "writecheck", !.seen = Unread, !.doc = copy]
<1>1. /\ q \in RequestState /\ OnTrack(files, r, q) /\ q.pc = "read"
      /\ CopiesSound(files, perms, bin, issued, placed, r, q)
      /\ \A f, p : Holds(r, q, f, p) => Names(files, req, f, p)
      /\ UNCHANGED <<store, now, history>> /\ q.seen # Unread
  BY Before DEF Read, Fetched
<1>2. /\ q.at = Call[r].file /\ q.seen \in FileRecord /\ q.seen # Absent
      /\ Call[r].kind \in {"read", "patch", "delete"}
  BY <1>1 DEF OnTrack, RequestState
<1>3. ASSUME NEW x, x.pc = "writecheck", x.at = Call[r].file
      PROVE  Entitled(files, issued, placed, r, x)
  BY <1>2, <1>3, CallTypes, AboveSelf, SentinelsDistinct DEF Entitled, Target
<1>4. CASE Answer(r, "ok")
  BY <1>1, <1>4, AnswerSound DEF Answers
<1>5. CASE Become(r, again)
  <2>1. /\ again.doc = q.doc /\ again.seen = Unread /\ again.pc = "writecheck"
        /\ again.at = q.at
    BY <1>1 DEF RequestState
  <2>. HIDE DEF again
  <2>2. /\ CopiesSound(files, perms, bin, issued, placed, r, again)
        /\ \A f, p : Holds(r, again, f, p) => Holds(r, q, f, p)
    BY <1>1, <2>1, SameCopies
  <2>3. Entitled(files, issued, placed, r, again)
    BY <1>2, <1>3, <2>1
  <2>. QED  BY <1>1, <1>5, <2>2, <2>3, After, QuietStep DEF store
<1>6. CASE Call[r].kind = "patch" /\ Become(r, edited)
  <2>1. /\ edited.doc = copy /\ edited.seen = Unread /\ edited.pc = "writecheck"
        /\ edited.at = q.at
    BY <1>1 DEF RequestState
  <2>2. /\ copy.ids = q.seen.ids /\ copy.parent = q.seen.parent
        /\ copy.owner = q.seen.owner /\ copy.by = q.seen.by
        /\ copy.deleted = q.seen.deleted /\ copy.deletedBy = q.seen.deletedBy
    BY <1>2 DEF FileRecord
  <2>. HIDE DEF edited, copy
  <2>3. /\ Sound(files, perms, issued, placed, q.seen, Call[r].file)
        /\ q.seen.deleted => Call[r].file \in bin
    BY <1>1, <1>2 DEF CopiesSound
  <2>4. Sound(files, perms, issued, placed, copy, Call[r].file)
    BY <2>2, <2>3, SoundCopy
  <2>5. CopiesSound(files, perms, bin, issued, placed, r, edited)
    BY <1>6, <2>1, <2>2, <2>3, <2>4 DEF CopiesSound
  <2>6. \A f, p : Holds(r, edited, f, p) => Holds(r, q, f, p)
    BY <1>1, <1>2, <2>1, <2>2 DEF Holds
  <2>7. Entitled(files, issued, placed, r, edited)
    BY <1>2, <1>3, <2>1
  <2>. QED  BY <1>1, <1>6, <2>5, <2>6, <2>7, After, QuietStep DEF store
<1>. QED  BY <1>2, <1>4, <1>5, <1>6 DEF Read

LEMMA GetInv ==
    ASSUME Typed, Typed', Inv, NEW r \in Requests, Get(r)
    PROVE  Inv'
<1>. DEFINE q == req[r]
            ids == [p \in PermIds |-> IF p \in q.seen.ids THEN perms[p] ELSE NoPerm]
            work == [q EXCEPT !.pc = AfterOps(Call[r].ops), !.seen = Unread,
                              !.doc = q.seen, !.mem = ids, !.todo = Call[r].ops]
            gone == [q.seen EXCEPT !.deleted = TRUE, !.deletedBy = Call[r].user]
            remove == [q EXCEPT !.pc = "bin", !.seen = Unread, !.doc = gone]
<1>1. /\ q \in RequestState /\ OnTrack(files, r, q) /\ q.pc = "get"
      /\ CopiesSound(files, perms, bin, issued, placed, r, q)
      /\ Entitled(files, issued, placed, r, q)
      /\ \A f, p : Holds(r, q, f, p) => Names(files, req, f, p)
      /\ UNCHANGED <<store, now, history>> /\ q.seen # Unread
  BY Before DEF Get, Fetched
<1>2. /\ q.at = Call[r].file /\ Call[r].kind \in {"access", "delete"}
      /\ Target(r) = Call[r].file /\ Call[r].file # Root
  BY <1>1, CallTypes, SentinelsDistinct DEF OnTrack, Target
<1>3. /\ Given(issued, placed, Call[r].user, May, Target(r))
      /\ files[Target(r)] # Absent
  BY <1>1, <1>2 DEF Entitled
<1>4. ASSUME q.seen # Absent
      PROVE  /\ q.seen \in FileRecord
             /\ Sound(files, perms, issued, placed, q.seen, Call[r].file)
             /\ q.seen.deleted => Call[r].file \in bin
  BY <1>1, <1>2, <1>4 DEF CopiesSound, RequestState
<1>5. CASE Answer(r, "404") \/ Answer(r, "403")
  BY <1>1, <1>5, AnswerSound DEF Answers
<1>6. CASE q.seen # Absent /\ Call[r].kind = "access" /\ Become(r, work)
  <2>1. /\ work.doc = q.seen /\ work.seen = Unread /\ work.mem = ids
        /\ work.pc = AfterOps(Call[r].ops)
    BY <1>1 DEF RequestState
  <2>2. work.pc \in {"op", "put"}
    BY <2>1 DEF AfterOps
  <2>3. \A p \in q.seen.ids : ids[p] # NoPerm /\ ids[p].to = perms[p].to
    BY <1>4, <1>6 DEF Sound, FileRecord
  <2>. HIDE DEF work, ids
  <2>4. CopiesSound(files, perms, bin, issued, placed, r, work)
    BY <1>4, <1>6, <2>1, <2>3 DEF CopiesSound
  <2>5. \A f, p : Holds(r, work, f, p) => Holds(r, q, f, p)
    BY <1>1, <1>2, <1>6, <2>1 DEF Holds
  <2>6. Entitled(files, issued, placed, r, work)
    BY <1>3, <2>2 DEF Entitled
  <2>. QED  BY <1>1, <1>6, <2>4, <2>5, <2>6, After, QuietStep DEF store
<1>7. CASE /\ q.seen # Absent /\ Call[r].kind = "delete" /\ q.role = "owner"
           /\ Become(r, remove)
  <2>1. remove.doc = gone /\ remove.seen = Unread /\ remove.pc = "bin"
    BY <1>1 DEF RequestState
  <2>2. /\ gone.ids = q.seen.ids /\ gone.parent = q.seen.parent
        /\ gone.owner = q.seen.owner /\ gone.by = q.seen.by
        /\ gone.deletedBy = Call[r].user
    BY <1>4, <1>7 DEF FileRecord
  <2>. HIDE DEF remove, gone
  <2>3. Given(issued, placed, gone.deletedBy, {"owner"}, Call[r].file)
    BY <1>1, <1>2, <1>7, <2>2 DEF Entitled
  <2>4. Sound(files, perms, issued, placed, gone, Call[r].file)
    BY <1>4, <1>7, <2>2, <2>3, SoundCopy
  <2>5. CopiesSound(files, perms, bin, issued, placed, r, remove)
    BY <1>7, <2>1, <2>4 DEF CopiesSound
  <2>6. \A f, p : Holds(r, remove, f, p) => Holds(r, q, f, p)
    BY <1>1, <1>2, <1>7, <2>1, <2>2 DEF Holds
  <2>7. Entitled(files, issued, placed, r, remove)
    BY <1>3, <2>1 DEF Entitled
  <2>. QED  BY <1>1, <1>7, <2>5, <2>6, <2>7, After, QuietStep DEF store
<1>. QED  BY <1>1, <1>2, <1>5, <1>6, <1>7 DEF Get

LEMMA RejectPermissionInv ==
    ASSUME Typed, Typed', Inv, NEW r \in Requests, RejectPermission(r)
    PROVE  Inv'
  BY AnswerSound DEF RejectPermission, Answers

\* What an operation of an access patch can rely on.
LEMMA AtWork ==
    ASSUME Typed, Inv, NEW r \in Requests, req[r].pc \in {"op", "link"}
    PROVE  /\ Target(r) = Call[r].file /\ Call[r].file \in Files
           /\ Sound(files, perms, issued, placed, req[r].doc, Call[r].file)
           /\ req[r].doc.deleted => Call[r].file \in bin
           /\ \A p \in req[r].doc.ids :
                 req[r].mem[p] # NoPerm /\ req[r].mem[p].to = perms[p].to
           /\ Given(issued, placed, Call[r].user, May, Call[r].file)
           /\ files[Call[r].file] # Absent
           /\ req[r].seen = Unread
<1>1. /\ Call[r].kind = "access" /\ req[r].doc # Absent /\ req[r].seen = Unread
      /\ req[r].pc # "bin"
  BY Before, OpTyped, SentinelsDistinct DEF OnTrack, Reading
<1>2. Target(r) = Call[r].file /\ Call[r].file \in Files /\ Target(r) # Root
  BY <1>1, CallTypes, SentinelsDistinct DEF Target
<1>. QED  BY <1>1, <1>2, Before DEF CopiesSound, Entitled

\* The local state in which the handler goes on after an operation.
LEMMA NextOpSound ==
    ASSUME NEW F, NEW P, NEW B, NEW G, NEW L, NEW r \in Requests,
           NEW x \in RequestState, x.pc \in {"op", "link"}, x.seen = Unread,
           Call[r].kind = "access", x.doc # Absent,
           Sound(F, P, G, L, x.doc, Call[r].file),
           x.doc.deleted => Call[r].file \in B,
           \A p \in x.doc.ids : x.mem[p] # NoPerm /\ x.mem[p].to = P[p].to,
           Given(G, L, Call[r].user, May, Call[r].file), F[Call[r].file] # Absent
    PROVE  /\ CopiesSound(F, P, B, G, L, r, x) /\ Entitled(F, G, L, r, x)
           /\ CopiesSound(F, P, B, G, L, r, NextOp(x))
           /\ Entitled(F, G, L, r, NextOp(x))
           /\ NextOp(x).doc = x.doc /\ NextOp(x).seen = Unread
<1>. DEFINE y == NextOp(x)
<1>1. /\ y.doc = x.doc /\ y.seen = Unread /\ y.mem = x.mem
      /\ y.pc = AfterOps(Tail(x.todo))
  BY DEF NextOp, RequestState
<1>2. y.pc \in {"op", "put"}
  BY <1>1 DEF AfterOps
<1>3. Target(r) = Call[r].file
  BY DEF Target
<1>. HIDE DEF y
<1>4. CopiesSound(F, P, B, G, L, r, x) /\ Entitled(F, G, L, r, x)
  BY <1>3 DEF CopiesSound, Entitled
<1>5. CopiesSound(F, P, B, G, L, r, y) /\ Entitled(F, G, L, r, y)
  BY <1>1, <1>2, <1>3 DEF CopiesSound, Entitled
<1>. QED  BY <1>1, <1>4, <1>5 DEF y

\* Whoever names a permission, it is written.
LEMMA NamedIsWritten ==
    ASSUME Typed, Inv, NEW f \in Files, NEW p \in PermIds, Names(files, req, f, p)
    PROVE  perms[p] # NoPerm
<1>1. CASE files[f] # Absent /\ p \in files[f].ids
  BY <1>1 DEF Inv, Sound
<1>2. CASE \E s \in Requests : Holds(s, req[s], f, p)
  BY <1>2, Before DEF Holds, CopiesSound, Sound
<1>. QED  BY <1>1, <1>2 DEF Names

LEMMA AddPermissionInv ==
    ASSUME Typed, Typed', Inv, NEW r \in Requests, AddPermission(r)
    PROVE  Inv'
<1>. DEFINE q == req[r]
            file == Call[r].file
<1>1. PICK p \in PermIds, m \in Permission :
        /\ m.to = Op(r).to /\ m.role = Op(r).role /\ m.addedBy = Call[r].user
        /\ Matching(r) # {} => p \in Matching(r)
        /\ Matching(r) = {} => perms[p] = NoPerm
        /\ perms' = [perms EXCEPT ![p] = m]
        /\ Become(r, IF Op(r).to \in Users
                     THEN [With(q, p, m) EXCEPT !.pc = "link"]
                     ELSE NextOp(With(q, p, m)))
  BY PermissionWritten
<1>. DEFINE new == With(q, p, m)
            link == [new EXCEPT !.pc = "link"]
<1>2. /\ q \in RequestState /\ OnTrack(files, r, q) /\ q.pc = "op"
      /\ Call[r].kind = "access" /\ q.doc \in FileRecord /\ q.doc # Absent
      /\ \A f, n : Holds(r, q, f, n) => Names(files, req, f, n)
  BY Before, OpTyped, SentinelsDistinct DEF AddPermission
<1>3. /\ file \in Files /\ files[file] # Absent /\ q.seen = Unread
      /\ Sound(files, perms, issued, placed, q.doc, file)
      /\ q.doc.deleted => file \in bin
      /\ \A n \in q.doc.ids : q.mem[n] # NoPerm /\ q.mem[n].to = perms[n].to
      /\ Given(issued, placed, Call[r].user, May, file)
  BY <1>2, AtWork
<1>4. /\ files' = files /\ bin' = bin /\ placed' = placed /\ shared' = shared
      /\ issued' = issued \cup {<<m.to, file, m.role>>}
      /\ perms \in [PermIds -> Permission \cup {NoPerm}]
      /\ perms'[p] = m /\ \A n \in PermIds \ {p} : perms'[n] = perms[n]
  BY <1>1 DEF AddPermission, Typed, TypeOK
<1>5. Grow(files, files', bin, bin', issued, issued', placed, placed')
  BY <1>4 DEF Grow
<1>6. /\ Given(issued', placed', m.addedBy, May, file) /\ m # NoPerm
      /\ <<m.to, file, m.role>> \in issued'
  BY <1>1, <1>3, <1>4, <1>5, GivenGrows, SentinelsDistinct DEF Grow
\* The grantee's own permission, if the copy has one, is the one rewritten.
<1>7. ASSUME NEW n \in q.doc.ids, perms[n].to = m.to
      PROVE  n = p
  <2>1. n \in Matching(r)
    BY <1>1, <1>3, <1>7 DEF Matching
  <2>2. p \in Matching(r)
    BY <1>1, <2>1
  <2>3. p \in q.doc.ids /\ perms[p].to = m.to
    BY <1>1, <1>3, <2>2 DEF Matching
  <2>. QED  BY <1>3, <1>7, <2>3 DEF Sound
<1>8. ASSUME NEW f \in Files, Names(files, req, f, p)
      PROVE  f = file /\ perms[p].to = m.to
  <2>1. Matching(r) # {}
    BY <1>1, <1>8, NamedIsWritten
  <2>2. p \in q.doc.ids /\ perms[p].to = m.to
    BY <1>1, <1>3, <2>1 DEF Matching
  <2>3. Names(files, req, file, p)
    BY <1>2, <2>2 DEF Holds
  <2>. QED  BY <1>3, <1>8, <2>2, <2>3 DEF Inv
<1>9. ASSUME NEW f \in Files, NEW n \in PermIds, Names(files, req, f, n)
      PROVE  Kept(perms, perms', issued', placed', f, n)
  <2>1. CASE n # p
    BY <1>4, <2>1 DEF Kept
  <2>2. CASE n = p
    BY <1>4, <1>6, <1>8, <1>9, <2>2 DEF Kept
  <2>. QED  BY <2>1, <2>2
<1>10. /\ new \in RequestState /\ new.pc = "op" /\ new.seen = Unread
       /\ new.doc = [q.doc EXCEPT !.ids = @ \cup {p}] /\ new.doc # Absent
       /\ new.mem = [q.mem EXCEPT ![p] = m]
  <2>1. PICK x \in RequestState : x = q
    BY <1>2
  <2>2. OnTrack(files, r, x) /\ x.pc = "op" /\ x.doc \in FileRecord
    BY <1>2, <2>1
  <2>3. /\ With(x, p, m) \in RequestState /\ With(x, p, m).pc = "op"
        /\ With(x, p, m).seen = x.seen /\ With(x, p, m).doc # Absent
        /\ With(x, p, m).doc = [x.doc EXCEPT !.ids = @ \cup {p}]
        /\ With(x, p, m).mem = [x.mem EXCEPT ![p] = m]
    BY <2>2, WithTyped
  <2>. QED  BY <1>3, <2>1, <2>3
<1>11. /\ new.doc.ids = q.doc.ids \cup {p} /\ new.doc.parent = q.doc.parent
       /\ new.doc.owner = q.doc.owner /\ new.doc.by = q.doc.by
       /\ new.doc.deleted = q.doc.deleted /\ new.doc.deletedBy = q.doc.deletedBy
  BY <1>2, <1>10 DEF FileRecord
<1>12. /\ new.mem[p] = m
       /\ \A n \in q.doc.ids : n # p => new.mem[n] = q.mem[n]
  BY <1>2, <1>10 DEF RequestState, FileRecord
<1>. HIDE DEF new
<1>13. Sound(files', perms', issued', placed', new.doc, file)
  <2>1. \A n \in q.doc.ids : Kept(perms, perms', issued', placed', file, n)
    BY <1>2, <1>3, <1>9 DEF Holds, FileRecord
  <2>2. Sound(files', perms', issued', placed', q.doc, file)
    BY <1>2, <1>3, <1>5, <2>1, SoundKept
  <2>3. \A n \in new.doc.ids : /\ perms'[n] # NoPerm
                                /\ <<perms'[n].to, file, perms'[n].role>> \in issued'
                                /\ Given(issued', placed', perms'[n].addedBy, May, file)
    BY <1>4, <1>6, <1>11, <2>2 DEF Sound
  <2>4. \A n \in q.doc.ids : n # p => perms'[n].to = perms[n].to /\ perms[n].to # m.to
    BY <1>2, <1>4, <1>7 DEF FileRecord
  <2>5. \A n, k \in new.doc.ids : perms'[n].to = perms'[k].to => n = k
    BY <1>3, <1>4, <1>11, <2>4 DEF Sound
  <2>. QED  BY <1>11, <2>2, <2>3, <2>5 DEF Sound
<1>14. \A n \in new.doc.ids : new.mem[n] # NoPerm /\ new.mem[n].to = perms'[n].to
  <2>1. ASSUME NEW n \in q.doc.ids, n # p
        PROVE  new.mem[n] # NoPerm /\ new.mem[n].to = perms'[n].to
    BY <1>2, <1>3, <1>4, <1>12, <2>1 DEF FileRecord
  <2>. QED  BY <1>4, <1>6, <1>11, <1>12, <2>1
<1>15. ASSUME NEW x \in RequestState, x.pc \in {"op", "link"}, x.seen = Unread,
              x.doc = new.doc, x.mem = new.mem
       PROVE  /\ CopiesSound(files', perms', bin', issued', placed', r, x)
              /\ Entitled(files', issued', placed', r, x)
              /\ CopiesSound(files', perms', bin', issued', placed', r, NextOp(x))
              /\ Entitled(files', issued', placed', r, NextOp(x))
              /\ NextOp(x).doc = new.doc /\ NextOp(x).seen = Unread
  <2>1. /\ x.doc.deleted => file \in bin'
        /\ Given(issued', placed', Call[r].user, May, file) /\ files'[file] # Absent
    BY <1>1, <1>3, <1>4, <1>6, <1>11, <1>15
  <2>2. /\ Sound(files', perms', issued', placed', x.doc, file) /\ x.doc # Absent
        /\ \A n \in x.doc.ids : x.mem[n] # NoPerm /\ x.mem[n].to = perms'[n].to
    BY <1>10, <1>13, <1>14, <1>15
  <2>3. /\ CopiesSound(files', perms', bin', issued', placed', r, x)
        /\ Entitled(files', issued', placed', r, x)
        /\ CopiesSound(files', perms', bin', issued', placed', r, NextOp(x))
        /\ Entitled(files', issued', placed', r, NextOp(x))
        /\ NextOp(x).doc = x.doc /\ NextOp(x).seen = Unread
    <3>1. /\ x.doc.deleted => Call[r].file \in bin'
          /\ Given(issued', placed', Call[r].user, May, Call[r].file)
          /\ files'[Call[r].file] # Absent
          /\ Sound(files', perms', issued', placed', x.doc, Call[r].file)
          /\ x.doc # Absent /\ Call[r].kind = "access"
          /\ x.pc \in {"op", "link"} /\ x.seen = Unread
      BY <1>2, <1>15, <2>1, <2>2
    <3>2. \A n \in x.doc.ids : x.mem[n] # NoPerm /\ x.mem[n].to = perms'[n].to
      BY <2>2
    <3>. HIDE DEF link, file, q
    <3>. QED  BY <1>15, <3>1, <3>2, NextOpSound
  <2>. QED  BY <1>15, <2>3
<1>16. ASSUME NEW y, Become(r, y), y.doc = new.doc, y.seen = Unread,
              CopiesSound(files', perms', bin', issued', placed', r, y),
              Entitled(files', issued', placed', r, y)
       PROVE  Inv'
  <2>1. StepSound(r, y)
    BY <1>4, <1>5, <1>9, <1>16 DEF StepSound
  <2>2. ASSUME NEW f \in Files, NEW n \in PermIds, Names(files', req', f, n)
        PROVE  Names(files, req, f, n) \/ (f = file /\ n = p)
    <3>1. CASE \E s \in Requests : s # r /\ Holds(s, req'[s], f, n)
      <4>1. PICK s \in Requests : s # r /\ Holds(s, req'[s], f, n)
        BY <3>1
      <4>2. req'[s] = req[s]
        BY <1>16, <4>1 DEF Become, Typed, TypeOK
      <4>. QED  BY <4>1, <4>2 DEF Names
    <3>2. CASE Holds(r, req'[r], f, n)
      <4>1. req'[r] = y
        BY <1>16 DEF Become, Typed, TypeOK
      <4>2. f = file /\ n \in new.doc.ids
        BY <1>16, <3>2, <4>1 DEF Holds
      <4>. QED  BY <1>2, <1>11, <4>2 DEF Holds
    <3>3. CASE files'[f] # Absent /\ n \in files'[f].ids
      BY <1>4, <3>3 DEF Names
    <3>. QED  BY <2>2, <3>1, <3>2, <3>3 DEF Names
  <2>3. \A f, g \in Files, n \in PermIds :
           (Names(files', req', f, n) /\ Names(files', req', g, n)) => f = g
    BY <1>8, <2>2 DEF Inv
  <2>. QED  BY <1>16, <2>1, <2>3, After, StepKeepsInv
<1>17. CASE Become(r, NextOp(new))
  BY <1>10, <1>15, <1>16, <1>17
<1>18. CASE Become(r, link)
  <2>1. /\ link \in RequestState /\ link.pc = "link" /\ link.seen = Unread
        /\ link.doc = new.doc /\ link.mem = new.mem
    BY <1>10 DEF RequestState, Busy
  <2>. HIDE DEF link
  <2>. QED  BY <1>15, <1>16, <1>18, <2>1
<1>. QED  BY <1>1, <1>17, <1>18 DEF new

LEMMA AddLinkInv ==
    ASSUME Typed, Typed', Inv, NEW r \in Requests, AddLink(r)
    PROVE  Inv'
<1>. DEFINE q == req[r]
            t == Telling(q, "access-granted", {Op(r).to})
<1>1. /\ q \in RequestState /\ OnTrack(files, r, q) /\ q.pc = "link"
      /\ Call[r].kind = "access" /\ q.doc # Absent
      /\ Op(r).to \in Users
      /\ \A f, p : Holds(r, q, f, p) => Names(files, req, f, p)
  BY Before DEF AddLink, OnTrack, Op
<1>2. t \in RequestState
  BY <1>1, TellingTyped DEF Events
<1>3. t.pc = "link" /\ t.seen = q.seen /\ t.doc = q.doc /\ t.mem = q.mem
  BY <1>1 DEF Telling, RequestState
<1>. HIDE DEF t
<1>4. /\ CopiesSound(files, perms, bin, issued, placed, r, NextOp(t))
      /\ Entitled(files, issued, placed, r, NextOp(t))
      /\ NextOp(t).doc = q.doc /\ NextOp(t).seen = Unread
  <2>1. /\ Sound(files, perms, issued, placed, t.doc, Call[r].file)
        /\ t.doc.deleted => Call[r].file \in bin
        /\ \A p \in t.doc.ids : t.mem[p] # NoPerm /\ t.mem[p].to = perms[p].to
        /\ Given(issued, placed, Call[r].user, May, Call[r].file)
        /\ files[Call[r].file] # Absent /\ t.seen = Unread
    BY <1>1, <1>3, AtWork
  <2>2. t.doc # Absent /\ t.pc \in {"op", "link"}
    BY <1>1, <1>3
  <2>. QED  BY <1>1, <1>2, <1>3, <2>1, <2>2, NextOpSound
<1>5. \A f, p : Holds(r, NextOp(t), f, p) => Holds(r, q, f, p)
  BY <1>4 DEF Holds
<1>6. \A l \in shared' : l \in shared \/ files[l[2]] # Absent
  BY <1>1, AtWork DEF AddLink, Link
<1>7. Become(r, NextOp(t)) /\ UNCHANGED <<files, perms, history>> /\ bin' = bin
  BY DEF AddLink, t
<1>. QED  BY <1>1, <1>4, <1>5, <1>6, <1>7, After, QuietStep

LEMMA RemovePermissionInv ==
    ASSUME Typed, Typed', Inv, NEW r \in Requests, RemovePermission(r)
    PROVE  Inv'
<1>. DEFINE q == req[r]
            left == [p \in PermIds |-> IF p \in Matching(r) THEN NoPerm ELSE q.mem[p]]
            new == [q EXCEPT !.doc.ids = @ \ Matching(r), !.mem = left]
            t == Telling(new, "access-removed", {Op(r).to})
<1>1. /\ q \in RequestState /\ OnTrack(files, r, q) /\ q.pc = "op"
      /\ Call[r].kind = "access" /\ q.doc # Absent /\ q.doc \in FileRecord
      /\ \A f, p : Holds(r, q, f, p) => Names(files, req, f, p)
  BY Before, OpTyped, SentinelsDistinct DEF RemovePermission
<1>2. /\ UNCHANGED <<files, perms, history>> /\ bin' = bin /\ shared' \subseteq shared
      /\ Become(r, NextOp(t)) \/ Become(r, NextOp(new))
  <2>1. new = [q EXCEPT !.doc.ids = @ \ Matching(r),
                        !.mem = [p \in PermIds |->
                                IF p \in Matching(r) THEN NoPerm ELSE @[p]]]
    OBVIOUS
  <2>. QED  BY <2>1 DEF RemovePermission
<1>3. /\ new.doc = [q.doc EXCEPT !.ids = @ \ Matching(r)] /\ new.mem = left
      /\ new.pc = "op" /\ new.seen = q.seen /\ new.at = q.at
      /\ new.todo = q.todo /\ new \in RequestState
  <2>1. [q.doc EXCEPT !.ids = @ \ Matching(r)] \in FileRecord
    BY <1>1 DEF FileRecord
  <2>2. left \in [PermIds -> Permission \cup {NoPerm}]
    BY <1>1 DEF RequestState
  <2>3. new = [q EXCEPT !.doc = [q.doc EXCEPT !.ids = @ \ Matching(r)], !.mem = left]
    BY <1>1 DEF RequestState, FileRecord
  <2>. HIDE DEF new, left
  <2>. QED  BY <1>1, <2>1, <2>2, <2>3 DEF RequestState
<1>4. /\ new.doc.ids = q.doc.ids \ Matching(r) /\ new.doc.parent = q.doc.parent
      /\ new.doc.owner = q.doc.owner /\ new.doc.by = q.doc.by
      /\ new.doc.deleted = q.doc.deleted /\ new.doc.deletedBy = q.doc.deletedBy
      /\ new.doc # Absent
  BY <1>1, <1>3, SentinelsDistinct DEF FileRecord
<1>5. \A p \in new.doc.ids : new.mem[p] = q.mem[p]
  BY <1>1, <1>3, <1>4 DEF FileRecord
<1>. HIDE DEF new, left
<1>6. Sound(files, perms, issued, placed, new.doc, Call[r].file)
  BY <1>1, <1>4, AtWork, SoundCopy
<1>7. ASSUME NEW x \in RequestState, Become(r, NextOp(x)), x.pc = "op",
             x.doc = new.doc, x.mem = new.mem, x.seen = Unread
      PROVE  Inv'
  <2>1. \A p \in x.doc.ids : x.mem[p] # NoPerm /\ x.mem[p].to = perms[p].to
    BY <1>1, <1>4, <1>5, <1>7, AtWork
  <2>2. /\ x.doc.deleted => Call[r].file \in bin
        /\ Given(issued, placed, Call[r].user, May, Call[r].file)
        /\ files[Call[r].file] # Absent
    BY <1>1, <1>4, <1>7, AtWork
  <2>3. /\ CopiesSound(files, perms, bin, issued, placed, r, NextOp(x))
        /\ Entitled(files, issued, placed, r, NextOp(x))
        /\ NextOp(x).doc = x.doc /\ NextOp(x).seen = Unread
    BY <1>1, <1>4, <1>6, <1>7, <2>1, <2>2, NextOpSound
  <2>4. \A f, p : Holds(r, NextOp(x), f, p) => Holds(r, q, f, p)
    BY <1>1, <1>4, <1>7, <2>3 DEF Holds
  <2>. QED  BY <1>1, <1>2, <1>7, <2>3, <2>4, After, QuietStep
<1>8. new.seen = Unread
  BY <1>1, <1>3, AtWork
<1>9. CASE Become(r, NextOp(new))
  BY <1>3, <1>7, <1>8, <1>9
<1>10. CASE Op(r).to \in Users /\ Become(r, NextOp(t))
  <2>1. {Op(r).to} \subseteq Users /\ "access-removed" \in Events
    BY <1>10 DEF Events
  <2>2. OnTrack(files, r, new)
    <3>1. OnTrack(files, r, q)
      BY Before
    <3>. QED  BY <1>1, <1>3, <1>4, <3>1 DEF OnTrack, Reading
  <2>3. t \in RequestState
    BY <1>3, <2>1, <2>2, TellingTyped
  <2>4. t.pc = "op" /\ t.doc = new.doc /\ t.mem = new.mem /\ t.seen = Unread
    BY <1>3, <1>8 DEF Telling, RequestState
  <2>. HIDE DEF t
  <2>. QED  BY <1>7, <1>10, <2>3, <2>4
<1>. QED
  <2>1. new = [q EXCEPT !.doc.ids = @ \ Matching(r),
                        !.mem = [p \in PermIds |->
                                IF p \in Matching(r) THEN NoPerm ELSE @[p]]]
    BY DEF new, left
  <2>. QED  BY <1>9, <1>10, <2>1 DEF RemovePermission

-----------------------------------------------------------------------------
\* Writing the file and what follows

LEMMA AddToBinInv ==
    ASSUME Typed, Typed', Inv, NEW r \in Requests, AddToBin(r)
    PROVE  Inv'
<1>. DEFINE q == req[r]
            x == [q EXCEPT !.pc = "put"]
<1>1. /\ q \in RequestState /\ OnTrack(files, r, q) /\ q.pc = "bin"
      /\ CopiesSound(files, perms, bin, issued, placed, r, q)
      /\ Entitled(files, issued, placed, r, q)
      /\ \A f, p : Holds(r, q, f, p) => Names(files, req, f, p)
  BY Before DEF AddToBin
<1>2. x.doc = q.doc /\ x.seen = q.seen /\ x.at = q.at /\ x.pc = "put"
  BY <1>1 DEF RequestState
<1>3. /\ Become(r, x) /\ UNCHANGED <<files, perms, history>>
      /\ shared' = shared /\ bin' = bin \cup {Call[r].file}
  BY DEF AddToBin
<1>4. q.seen = Unread
  BY <1>1 DEF OnTrack, Reading
<1>. HIDE DEF x
<1>5. CopiesSound(files, perms, bin', issued, placed, r, x)
  BY <1>1, <1>2, <1>3, <1>4 DEF CopiesSound
<1>6. Entitled(files, issued, placed, r, x)
  BY <1>1, <1>2 DEF Entitled
<1>7. \A f, p : Holds(r, x, f, p) => Holds(r, q, f, p)
  BY <1>2 DEF Holds
<1>. QED  BY <1>1, <1>3, <1>5, <1>6, <1>7, After, QuietStep

\* What a handler is about to write is sound, and its author may write it.
LEMMA DocumentSound ==
    ASSUME Typed, Typed', Inv, NEW r \in Requests, Put(r)
    PROVE  /\ Sound(files', perms', issued', placed', Document(r), Call[r].file)
           /\ Document(r).deleted => Call[r].file \in bin'
           /\ Document(r).ids = {} \/ (/\ req[r].doc # Absent
                                      /\ Document(r).ids = req[r].doc.ids)
<1>. DEFINE q == req[r]
            file == Call[r].file
            user == Call[r].user
<1>1. /\ q \in RequestState /\ OnTrack(files, r, q) /\ q.pc = "put"
      /\ CopiesSound(files, perms, bin, issued, placed, r, q)
      /\ Entitled(files, issued, placed, r, q)
  BY Before DEF Put
<1>2. /\ file \in Files /\ user \in Users /\ Call[r].parent \in Files \cup {Root}
      /\ Call[r].kind \in Kinds
  BY CallTypes
<1>3. /\ perms' = perms /\ bin' = bin /\ issued \subseteq issued'
      /\ placed \subseteq placed' /\ files' = [files EXCEPT ![file] = Document(r)]
  BY DEF Put, history
<1>4. /\ Document(r) \in FileRecord /\ files'[file] # Absent
      /\ Grow(files, files', bin, bin', issued, issued', placed, placed')
  <2>1. Document(r) \in FileRecord
    BY <1>1, <1>2 DEF Document, OnTrack, RequestState, FileRecord, Kinds
  <2>. QED  BY <1>2, <1>3, <2>1, SentinelsDistinct DEF Grow, Typed, TypeOK
<1>5. \A u, roles, f : Given(issued, placed, u, roles, f)
                           => Given(issued', placed', u, roles, f)
  BY <1>3, GivenGrows
<1>6. CASE Call[r].kind = "create"
  <2>1. Document(r) = [owner |-> user, parent |-> Call[r].parent, ids |-> {},
                       deleted |-> FALSE, by |-> user, deletedBy |-> Nobody,
                       edits |-> {}]
    BY <1>6 DEF Document
  <2>2. <<user, file, "owner">> \in issued' /\ <<file, Call[r].parent>> \in placed'
    BY <1>6 DEF Put
  <2>3. Given(issued', placed', user, May, file)
    BY <1>2, <2>2, GivenHere DEF May
  <2>4. Call[r].parent # Root =>
           /\ files'[Call[r].parent] # Absent
           /\ Given(issued', placed', user, May, Call[r].parent)
    BY <1>1, <1>2, <1>4, <1>5, <1>6 DEF Entitled, Target, Grow
  <2>. QED  BY <1>4, <2>1, <2>2, <2>3, <2>4 DEF Sound
<1>7. CASE Call[r].kind # "create"
  <2>1. /\ q.doc # Absent /\ q.doc \in FileRecord
        /\ Target(r) = file /\ Target(r) # Root
    BY <1>1, <1>2, <1>7, SentinelsDistinct DEF OnTrack, RequestState, Target
  <2>2. /\ Sound(files, perms, issued, placed, q.doc, file)
        /\ q.doc.deleted => file \in bin
    BY <1>1, <2>1 DEF CopiesSound
  <2>3. \A p \in q.doc.ids : Kept(perms, perms', issued', placed', file, p)
    BY <1>3 DEF Kept
  <2>4. Sound(files', perms', issued', placed', q.doc, file)
    BY <1>2, <1>4, <2>1, <2>2, <2>3, SoundKept
  <2>5. Given(issued', placed', user, May, file)
    BY <1>1, <1>5, <2>1 DEF Entitled
  <2>6. /\ Document(r).ids = q.doc.ids /\ Document(r).parent = q.doc.parent
        /\ Document(r).owner = q.doc.owner
        /\ Document(r).by \in {user, q.doc.by}
        /\ Document(r).deleted = q.doc.deleted
        /\ Document(r).deletedBy = q.doc.deletedBy
    BY <1>7, <2>1 DEF Document, FileRecord
  <2>7. Sound(files', perms', issued', placed', Document(r), file)
    BY <2>4, <2>5, <2>6 DEF Sound
  <2>. QED  BY <1>3, <2>1, <2>2, <2>6, <2>7
<1>. QED  BY <1>6, <1>7

LEMMA PutInv ==
    ASSUME Typed, Typed', Inv, NEW r \in Requests, Put(r)
    PROVE  Inv'
<1>. DEFINE q == req[r]
            pc == IF Call[r].kind = "delete" THEN "scan" ELSE "audience"
            x == [q EXCEPT !.pc = pc, !.at = Call[r].file, !.doc = Absent,
                           !.mem = NoMem, !.role = "none"]
<1>1. /\ q \in RequestState /\ OnTrack(files, r, q) /\ q.pc = "put"
      /\ \A f, p : Holds(r, q, f, p) => Names(files, req, f, p)
  BY Before DEF Put
<1>2. x.seen = Unread /\ x.doc = Absent /\ x.pc \in {"scan", "audience"}
  BY <1>1 DEF RequestState, OnTrack, Reading
<1>3. /\ Become(r, x) /\ perms' = perms /\ shared' = shared /\ bin' = bin
      /\ issued \subseteq issued' /\ placed \subseteq placed'
      /\ files' = [files EXCEPT ![Call[r].file] = Document(r)]
      /\ Call[r].file \in Files /\ files \in [Files -> FileRecord \cup {Absent}]
  BY CallTypes DEF Put, history, Typed, TypeOK
<1>. HIDE DEF x
<1>4. /\ CopiesSound(files', perms', bin', issued', placed', r, x)
      /\ Entitled(files', issued', placed', r, x)
      /\ \A f, p : ~Holds(r, x, f, p)
  BY <1>2, NothingHeld
<1>5. /\ Sound(files', perms', issued', placed', Document(r), Call[r].file)
      /\ Document(r).deleted => Call[r].file \in bin'
      /\ Document(r).ids = {} \/ (q.doc # Absent /\ Document(r).ids = q.doc.ids)
  BY DocumentSound
<1>6. \A f \in Files : f # Call[r].file => files'[f] = files[f]
  BY <1>3
<1>7. files'[Call[r].file] = Document(r) /\ files'[Call[r].file] # Absent
  BY <1>3, <1>5 DEF Sound
<1>8. Grow(files, files', bin, bin', issued, issued', placed, placed')
  BY <1>3, <1>6, <1>7 DEF Grow
<1>9. StepSound(r, x)
  BY <1>3, <1>4, <1>5, <1>6, <1>7, <1>8 DEF StepSound, Kept
<1>10. ASSUME NEW f \in Files, NEW p \in PermIds,
              files'[f] # Absent, p \in files'[f].ids
       PROVE  Names(files, req, f, p)
  <2>1. CASE f = Call[r].file
    BY <1>1, <1>5, <1>7, <1>10, <2>1 DEF Holds
  <2>2. CASE f # Call[r].file
    BY <1>6, <1>10, <2>2 DEF Names
  <2>. QED  BY <2>1, <2>2
<1>. QED  BY <1>3, <1>4, <1>9, <1>10, After, NoNewNames, StepKeepsInv

LEMMA ScanLinksInv ==
    ASSUME Typed, Typed', Inv, NEW r \in Requests, ScanLinks(r)
    PROVE  Inv'
<1>. DEFINE q == req[r]
            found == Linked(Call[r].file)
            pc == IF found = {} THEN "audience" ELSE "unlink"
            x == [q EXCEPT !.users = found, !.pc = pc]
<1>1. /\ q \in RequestState /\ q.pc = "scan"
      /\ CopiesSound(files, perms, bin, issued, placed, r, q)
      /\ \A f, p : Holds(r, q, f, p) => Names(files, req, f, p)
  BY Before DEF ScanLinks
<1>2. /\ x.doc = q.doc /\ x.seen = q.seen /\ x.at = q.at
      /\ x.pc \in {"audience", "unlink"} /\ Become(r, x)
  BY <1>1 DEF ScanLinks, RequestState
<1>. HIDE DEF x
<1>3. /\ CopiesSound(files, perms, bin, issued, placed, r, x)
      /\ \A f, p : Holds(r, x, f, p) => Holds(r, q, f, p)
  BY <1>1, <1>2, SameCopies
<1>4. Entitled(files, issued, placed, r, x)
  BY <1>2 DEF Entitled
<1>. QED  BY <1>1, <1>2, <1>3, <1>4, After, QuietStep DEF ScanLinks, store

LEMMA UnlinkInv ==
    ASSUME Typed, Typed', Inv, NEW r \in Requests, Unlink(r)
    PROVE  Inv'
<1>. DEFINE q == req[r]
            x == [q EXCEPT !.users = {}, !.pc = "audience"]
<1>1. /\ q \in RequestState /\ q.pc = "unlink"
      /\ CopiesSound(files, perms, bin, issued, placed, r, q)
      /\ \A f, p : Holds(r, q, f, p) => Names(files, req, f, p)
  BY Before DEF Unlink
<1>2. /\ x.doc = q.doc /\ x.seen = q.seen /\ x.at = q.at
      /\ x.pc = "audience" /\ Become(r, x)
  BY <1>1 DEF Unlink, RequestState
<1>. HIDE DEF x
<1>3. /\ CopiesSound(files, perms, bin, issued, placed, r, x)
      /\ \A f, p : Holds(r, x, f, p) => Holds(r, q, f, p)
  BY <1>1, <1>2, SameCopies
<1>4. Entitled(files, issued, placed, r, x)
  BY <1>2 DEF Entitled
<1>. QED  BY <1>1, <1>2, <1>3, <1>4, After, QuietStep DEF Unlink

LEMMA AudienceInv ==
    ASSUME Typed, Typed', Inv, NEW r \in Requests, Audience(r)
    PROVE  Inv'
<1>. DEFINE q == req[r]
            all == q.users \cup (IF q.seen = Absent THEN {} ELSE UsersOf(q.seen))
            up == [q EXCEPT !.users = all, !.seen = Unread, !.at = q.seen.parent]
            done == Telling([Rest(r) EXCEPT !.pc = "ok", !.told = q.told],
                            EventOf(Call[r].kind), all)
<1>1. /\ q \in RequestState /\ q.pc = "audience"
      /\ CopiesSound(files, perms, bin, issued, placed, r, q)
      /\ \A f, p : Holds(r, q, f, p) => Names(files, req, f, p)
  BY Before DEF Audience, Fetched
<1>2. ASSUME NEW x, Become(r, x), x.seen = Unread, x.doc \in {q.doc, Absent},
             x.pc \in {"audience", "ok"}
      PROVE  Inv'
  <2>1. /\ CopiesSound(files, perms, bin, issued, placed, r, x)
        /\ \A f, p : Holds(r, x, f, p) => Holds(r, q, f, p)
    BY <1>1, <1>2 DEF CopiesSound, Holds
  <2>2. Entitled(files, issued, placed, r, x)
    BY <1>2 DEF Entitled
  <2>. QED  BY <1>1, <1>2, <2>1, <2>2, After, QuietStep DEF Audience, store
<1>3. CASE Become(r, up)
  <2>1. up.seen = Unread /\ up.doc = q.doc /\ up.pc = "audience"
    BY <1>1 DEF RequestState
  <2>. HIDE DEF up
  <2>. QED  BY <1>2, <1>3, <2>1
<1>4. CASE Become(r, done)
  <2>1. done.seen = Unread /\ done.doc = Absent /\ done.pc = "ok"
    BY DEF Telling, Rest
  <2>. HIDE DEF done
  <2>. QED  BY <1>2, <1>4, <2>1
<1>. QED  BY <1>3, <1>4 DEF Audience

-----------------------------------------------------------------------------
\* Who hears of a file

\* User u was given some role on file f or above it.
Known(G, L, u, f) ==
    \E g \in Above(L, f), role \in Roles : <<u, g, role>> \in G

\* The users are collected from the file up.
Collecting == {"scan", "unlink", "audience"}

\* Whoever request r has collected, told or is about to link is known.
Informed(G, L, r, x) ==
    /\ \A u \in x.users : Known(G, L, u, Call[r].file)
    /\ \A e \in x.told :
          e[1] # "access-removed" => Known(G, L, e[2], Call[r].file)
    /\ x.pc \in Collecting => x.at \in Above(L, Call[r].file)
    /\ x.pc = "link" => \E role \in Roles :
                            <<Head(x.todo).to, Call[r].file, role>> \in G

AllKnown ==
    /\ \A l \in shared : \E role \in Roles : <<l[1], l[2], role>> \in issued
    /\ \A r \in Requests : Informed(issued, placed, r, req[r])

LEMMA InformedKept ==
    ASSUME NEW G, NEW G2, G \subseteq G2, NEW L, NEW L2, L \subseteq L2,
           NEW r \in Requests, NEW x, Informed(G, L, r, x)
    PROVE  Informed(G2, L2, r, x)
<1>1. Above(L, Call[r].file) \subseteq Above(L2, Call[r].file)
  BY AboveGrows
<1>2. \A u : Known(G, L, u, Call[r].file) => Known(G2, L2, u, Call[r].file)
  BY <1>1 DEF Known
<1>. QED  BY <1>1, <1>2 DEF Informed

LEMMA KnownKept ==
    ASSUME Typed, AllKnown, NEW r \in Requests, NEW x, Become(r, x),
           issued \subseteq issued', placed \subseteq placed',
           \A l \in shared' : \/ l \in shared
                              \/ \E role \in Roles : <<l[1], l[2], role>> \in issued',
           Informed(issued', placed', r, x)
    PROVE  AllKnown'
<1>1. ASSUME NEW s \in Requests PROVE Informed(issued', placed', s, req'[s])
  <2>1. CASE s = r
    BY <2>1 DEF Become, Typed, TypeOK
  <2>2. CASE s # r
    <3>1. req'[s] = req[s] /\ Informed(issued, placed, s, req[s])
      BY <2>2 DEF Become, Typed, TypeOK, AllKnown
    <3>. QED  BY <3>1, InformedKept
  <2>. QED  BY <2>1, <2>2
<1>2. \A l \in shared' : \E role \in Roles : <<l[1], l[2], role>> \in issued'
  BY DEF AllKnown
<1>. QED  BY <1>1, <1>2 DEF AllKnown

\* A step that collects nobody, tells nobody and links nobody.
LEMMA SilentStep ==
    ASSUME Typed, AllKnown, NEW r \in Requests, NEW x, Become(r, x),
           issued \subseteq issued', placed \subseteq placed', shared' \subseteq shared,
           x.users \subseteq req[r].users, x.told \subseteq req[r].told,
           \/ x.pc \notin Collecting \cup {"link"}
           \/ x.pc = req[r].pc /\ x.at = req[r].at /\ x.todo = req[r].todo
    PROVE  AllKnown'
<1>1. Informed(issued, placed, r, req[r])
  BY DEF AllKnown
<1>2. Informed(issued, placed, r, x)
  BY <1>1 DEF Informed
<1>. QED  BY <1>2, InformedKept, KnownKept

LEMMA AnswerKnown ==
    ASSUME Typed, AllKnown, NEW r \in Requests, NEW code \in Answers, Answer(r, code),
           UNCHANGED <<store, history>>
    PROVE  AllKnown'
<1>. DEFINE x == [Rest(r) EXCEPT !.pc = code, !.told = req[r].told]
<1>1. x.users = {} /\ x.told = req[r].told /\ x.pc \notin Collecting \cup {"link"}
  BY DEF Rest, Answers, Collecting
<1>2. Become(r, x)
  BY DEF Answer
<1>. HIDE DEF x
<1>. QED  BY <1>1, <1>2, SilentStep DEF store, history

LEMMA InitKnown == Init => AllKnown
<1>. SUFFICES ASSUME Init PROVE AllKnown
  OBVIOUS
<1>1. \A l \in shared : \E role \in Roles : <<l[1], l[2], role>> \in issued
  BY InitialStoreWellFormed DEF Init
<1>2. ASSUME NEW r \in Requests PROVE Informed(issued, placed, r, req[r])
  <2>1. req[r].users = {} /\ req[r].told = {} /\ req[r].pc = "idle"
    BY DEF Init, Rest
  <2>. QED  BY <2>1 DEF Informed, Collecting
<1>. QED  BY <1>1, <1>2 DEF AllKnown

\* The steps before the write: they read.
LEMMA ReadersKnown ==
    ASSUME Typed, AllKnown, NEW r \in Requests,
           Begin(r) \/ Fetch(r) \/ CheckExists(r) \/ Check(r) \/ Read(r) \/ Get(r)
    PROVE  AllKnown'
<1>1. req[r] \in RequestState /\ OnTrack(files, r, req[r])
  BY DEF Typed, TypeOK
<1>2. UNCHANGED <<store, history>>
  BY DEF Begin, Fetch, CheckExists, Check, Read, Get
<1>3. ASSUME NEW code \in Answers, Answer(r, code) PROVE AllKnown'
  BY <1>2, <1>3, AnswerKnown
<1>4. ASSUME NEW x, Become(r, x), x.users = req[r].users, x.told = req[r].told,
             \/ x.pc \notin Collecting \cup {"link"}
             \/ x.pc = req[r].pc /\ x.at = req[r].at /\ x.todo = req[r].todo
      PROVE  AllKnown'
  BY <1>2, <1>4, SilentStep DEF store, history
<1>. USE DEF Collecting
<1>5. CASE Begin(r)
  <2>. DEFINE pc == CASE Call[r].kind = "create" -> "exists"
                      [] Call[r].kind = "access" -> "writecheck"
                      [] OTHER -> "readcheck"
              x == [req[r] EXCEPT !.pc = pc]
  <2>1. pc \notin Collecting \cup {"link"}
    BY DEF Collecting
  <2>. HIDE DEF pc
  <2>2. x.users = req[r].users /\ x.told = req[r].told /\ x.pc = pc
    BY <1>1 DEF RequestState
  <2>3. Become(r, x)
    BY <1>5 DEF Begin, pc
  <2>. HIDE DEF x
  <2>. QED  BY <1>4, <2>1, <2>2, <2>3
<1>6. CASE Fetch(r)
  <2>. DEFINE x == [req[r] EXCEPT !.seen = files[req[r].at]]
  <2>1. /\ x.users = req[r].users /\ x.told = req[r].told /\ x.pc = req[r].pc
        /\ x.at = req[r].at /\ x.todo = req[r].todo
    BY <1>1 DEF RequestState
  <2>2. Become(r, x)
    BY <1>6 DEF Fetch
  <2>. HIDE DEF x
  <2>. QED  BY <1>4, <2>1, <2>2
<1>7. CASE CheckExists(r)
  <2>1. CASE Answer(r, "400")
    BY <1>3, <2>1 DEF Answers
  <2>2. CASE Become(r, [req[r] EXCEPT !.pc = "put"])
    <3>. DEFINE x == [req[r] EXCEPT !.pc = "put"]
    <3>1. x.users = req[r].users /\ x.told = req[r].told /\ x.pc = "put"
      BY <1>1 DEF RequestState
    <3>. HIDE DEF x
    <3>. QED  BY <1>4, <2>2, <3>1 DEF x
  <2>3. CASE Become(r, [req[r] EXCEPT !.pc = "writecheck", !.at = Call[r].parent])
    <3>. DEFINE x == [req[r] EXCEPT !.pc = "writecheck", !.at = Call[r].parent]
    <3>1. x.users = req[r].users /\ x.told = req[r].told /\ x.pc = "writecheck"
      BY <1>1 DEF RequestState
    <3>. HIDE DEF x
    <3>. QED  BY <1>4, <2>3, <3>1 DEF x
  <2>. QED  BY <1>7, <2>1, <2>2, <2>3 DEF CheckExists
<1>8. CASE Check(r)
  <2>. DEFINE q == req[r]
              role == RoleAt(q.seen, Call[r].user)
              up == [q EXCEPT !.at = q.seen.parent, !.seen = Unread]
              on == [q EXCEPT !.pc = AfterCheck(r), !.role = role,
                              !.at = Call[r].file, !.seen = Unread]
  <2>1. CASE Answer(r, "404") \/ Answer(r, "403")
    BY <1>3, <2>1 DEF Answers
  <2>2. CASE Become(r, up)
    <3>1. up.users = q.users /\ up.told = q.told /\ up.pc \notin Collecting \cup {"link"}
      BY <1>1, <1>8 DEF RequestState, Check, Fetched, Collecting
    <3>. HIDE DEF up
    <3>. QED  BY <1>4, <2>2, <3>1
  <2>3. CASE Become(r, on)
    <3>1. on.users = q.users /\ on.told = q.told /\ on.pc \notin Collecting \cup {"link"}
      BY <1>1 DEF RequestState, AfterCheck, Collecting
    <3>. HIDE DEF on
    <3>. QED  BY <1>4, <2>3, <3>1
  <2>. QED  BY <1>8, <2>1, <2>2, <2>3 DEF Check
<1>9. CASE Read(r)
  <2>. DEFINE q == req[r]
              again == [q EXCEPT !.pc = "writecheck", !.seen = Unread]
              edited == [q EXCEPT !.pc = "writecheck", !.seen = Unread,
                                  !.doc = [q.seen EXCEPT !.edits = @ \cup {r}]]
  <2>1. CASE Answer(r, "ok")
    BY <1>3, <2>1 DEF Answers
  <2>2. CASE Become(r, again)
    <3>1. again.users = q.users /\ again.told = q.told /\ again.pc = "writecheck"
      BY <1>1 DEF RequestState
    <3>. HIDE DEF again
    <3>. QED  BY <1>4, <2>2, <3>1
  <2>3. CASE Become(r, edited)
    <3>1. edited.users = q.users /\ edited.told = q.told /\ edited.pc = "writecheck"
      BY <1>1 DEF RequestState
    <3>. HIDE DEF edited
    <3>. QED  BY <1>4, <2>3, <3>1
  <2>4. Call[r].kind \in {"read", "patch", "delete"}
    BY <1>1, <1>9 DEF OnTrack, Read, Fetched
  <2>. QED  BY <1>9, <2>1, <2>2, <2>3, <2>4 DEF Read
<1>10. CASE Get(r)
  <2>. DEFINE q == req[r]
              ids == [p \in PermIds |-> IF p \in q.seen.ids THEN perms[p] ELSE NoPerm]
              work == [q EXCEPT !.pc = AfterOps(Call[r].ops), !.seen = Unread,
                                !.doc = q.seen, !.mem = ids, !.todo = Call[r].ops]
              gone == [q.seen EXCEPT !.deleted = TRUE, !.deletedBy = Call[r].user]
              remove == [q EXCEPT !.pc = "bin", !.seen = Unread, !.doc = gone]
  <2>1. CASE Answer(r, "404") \/ Answer(r, "403")
    BY <1>3, <2>1 DEF Answers
  <2>2. CASE Become(r, work)
    <3>. HIDE DEF ids
    <3>1. work.users = q.users /\ work.told = q.told /\ work.pc \in {"op", "put"}
      BY <1>1 DEF RequestState, AfterOps
    <3>. HIDE DEF work
    <3>. QED  BY <1>4, <2>2, <3>1
  <2>3. CASE Become(r, remove)
    <3>. HIDE DEF gone
    <3>1. remove.users = q.users /\ remove.told = q.told /\ remove.pc = "bin"
      BY <1>1 DEF RequestState
    <3>. HIDE DEF remove
    <3>. QED  BY <1>4, <2>3, <3>1
  <2>4. Call[r].kind \in {"access", "delete"}
    BY <1>1, <1>10 DEF OnTrack, Get, Fetched
  <2>. QED  BY <1>10, <2>1, <2>2, <2>3, <2>4 DEF Get
<1>. QED  BY <1>5, <1>6, <1>7, <1>8, <1>9, <1>10

\* An added permission is on record before its link is written.
LEMMA AddPermissionKnown ==
    ASSUME Typed, AllKnown, NEW r \in Requests, AddPermission(r)
    PROVE  AllKnown'
<1>. DEFINE q == req[r]
<1>1. PICK p \in PermIds, m \in Permission :
        Become(r, IF Op(r).to \in Users THEN [With(q, p, m) EXCEPT !.pc = "link"]
                  ELSE NextOp(With(q, p, m)))
  BY PermissionWritten
<1>. DEFINE new == With(q, p, m)
            link == [new EXCEPT !.pc = "link"]
<1>2. /\ q \in RequestState /\ Op(r) \in AccessOp
      /\ issued' = issued \cup {<<Op(r).to, Call[r].file, Op(r).role>>}
      /\ UNCHANGED <<shared, placed>> /\ Informed(issued, placed, r, q)
  BY OpTyped DEF AddPermission, AllKnown
<1>3. new.users = q.users /\ new.told = q.told /\ new.todo = q.todo
  BY <1>2 DEF With, RequestState
<1>. HIDE DEF new
<1>4. CASE Become(r, link)
  <2>1. /\ link.users = q.users /\ link.told = q.told /\ link.pc = "link"
        /\ link.todo = q.todo
    <3>1. new \in RequestState
      <4>1. /\ req[r] \in RequestState /\ OnTrack(files, r, req[r]) /\ req[r].pc = "op"
            /\ req[r].doc \in FileRecord
        BY OpTyped DEF AddPermission
      <4>. HIDE DEF q
      <4>. QED  BY <4>1, WithTyped DEF new, q
    <3>. QED  BY <1>3, <3>1 DEF RequestState
  <2>2. Informed(issued', placed', r, q)
    BY <1>2, InformedKept
  <2>3. <<Head(link.todo).to, Call[r].file, Op(r).role>> \in issued' /\ Op(r).role \in Roles
    BY <1>2, <2>1 DEF Op, AccessOp
  <2>. HIDE DEF link
  <2>4. Informed(issued', placed', r, link)
    BY <2>1, <2>2, <2>3 DEF Informed, Collecting
  <2>. QED  BY <1>2, <1>4, <2>4, KnownKept
<1>5. CASE Become(r, NextOp(new))
  <2>1. /\ NextOp(new).users = q.users /\ NextOp(new).told = q.told
        /\ NextOp(new).pc \in {"put", "op"}
    <3>1. new \in RequestState
      <4>1. /\ req[r] \in RequestState /\ OnTrack(files, r, req[r]) /\ req[r].pc = "op"
            /\ req[r].doc \in FileRecord
        BY OpTyped DEF AddPermission
      <4>. HIDE DEF q
      <4>. QED  BY <4>1, WithTyped DEF new, q
    <3>. QED  BY <1>3, <3>1 DEF RequestState, NextOp, AfterOps
  <2>. QED  BY <1>2, <1>5, <2>1, SilentStep DEF Collecting
<1>. QED  BY <1>1, <1>4, <1>5 DEF new

LEMMA AddLinkKnown ==
    ASSUME Typed, AllKnown, NEW r \in Requests, AddLink(r)
    PROVE  AllKnown'
<1>. DEFINE q == req[r]
            x == NextOp(Telling(q, "access-granted", {Op(r).to}))
<1>1. /\ q \in RequestState /\ q.pc = "link" /\ Become(r, x)
      /\ shared' = shared \cup {<<Op(r).to, Call[r].file>>}
      /\ UNCHANGED history /\ Informed(issued, placed, r, q)
  BY OpTyped DEF AddLink, Link, AllKnown
<1>2. /\ x.users = q.users /\ x.pc \in {"put", "op"}
      /\ x.told = q.told \cup ({"access-granted"} \X {Op(r).to})
  BY <1>1 DEF Telling, NextOp, AfterOps, RequestState
<1>3. PICK role \in Roles : <<Op(r).to, Call[r].file, role>> \in issued
  BY <1>1 DEF Informed, Op
<1>4. Known(issued, placed, Op(r).to, Call[r].file)
  BY <1>3, CallTypes, AboveSelf DEF Known
<1>. HIDE DEF x
<1>5. Informed(issued, placed, r, x)
  BY <1>1, <1>2, <1>4 DEF Informed, Collecting
<1>6. issued' = issued /\ placed' = placed
  BY <1>1 DEF history
<1>7. Informed(issued', placed', r, x)
  BY <1>5, <1>6
<1>. QED  BY <1>1, <1>3, <1>6, <1>7, KnownKept

LEMMA RemovePermissionKnown ==
    ASSUME Typed, AllKnown, NEW r \in Requests, RemovePermission(r)
    PROVE  AllKnown'
<1>. DEFINE q == req[r]
            left == [p \in PermIds |-> IF p \in Matching(r) THEN NoPerm ELSE q.mem[p]]
            new == [q EXCEPT !.doc.ids = @ \ Matching(r), !.mem = left]
            t == Telling(new, "access-removed", {Op(r).to})
<1>1. /\ q \in RequestState /\ Informed(issued, placed, r, q)
      /\ UNCHANGED history /\ shared' \subseteq shared
      /\ Become(r, NextOp(t)) \/ Become(r, NextOp(new))
  <2>1. new = [q EXCEPT !.doc.ids = @ \ Matching(r),
                        !.mem = [p \in PermIds |->
                                IF p \in Matching(r) THEN NoPerm ELSE @[p]]]
    OBVIOUS
  <2>. HIDE DEF new, left
  <2>. QED  BY <2>1, OpTyped DEF RemovePermission, AllKnown
<1>2. new.users = q.users /\ new.told = q.told /\ DOMAIN new = DOMAIN q
  <2>. HIDE DEF left
  <2>. QED  BY <1>1 DEF RequestState
<1>. HIDE DEF new, left
<1>3. ASSUME NEW x, x = new \/ x = t
      PROVE  /\ NextOp(x).users = q.users /\ NextOp(x).pc \in {"put", "op"}
             /\ NextOp(x).told \subseteq
                   q.told \cup ({"access-removed"} \X {Op(r).to})
  <2>1. /\ x.users = q.users /\ DOMAIN x = DOMAIN q
        /\ x.told \subseteq q.told \cup ({"access-removed"} \X {Op(r).to})
    BY <1>1, <1>2, <1>3 DEF RequestState, Telling
  <2>. QED  BY <1>1, <2>1 DEF RequestState, NextOp, AfterOps
<1>4. ASSUME NEW y, Become(r, y), y.users = q.users, y.pc \in {"put", "op"},
             y.told \subseteq q.told \cup ({"access-removed"} \X {Op(r).to})
      PROVE  AllKnown'
  <2>1. Informed(issued, placed, r, y)
    BY <1>1, <1>4 DEF Informed, Collecting
  <2>2. Informed(issued', placed', r, y)
    BY <1>1, <2>1 DEF history
  <2>. QED  BY <1>1, <1>4, <2>2, KnownKept DEF history
<1>. QED  BY <1>1, <1>3, <1>4

LEMMA WritersKnown ==
    ASSUME Typed, AllKnown, NEW r \in Requests, AddToBin(r) \/ Put(r)
    PROVE  AllKnown'
<1>1. req[r] \in RequestState
  BY DEF Typed, TypeOK
<1>2. CASE AddToBin(r)
  <2>. DEFINE x == [req[r] EXCEPT !.pc = "put"]
  <2>1. x.users = req[r].users /\ x.told = req[r].told /\ x.pc = "put"
    BY <1>1 DEF RequestState
  <2>2. Become(r, x) /\ shared' = shared /\ UNCHANGED history
    BY <1>2 DEF AddToBin
  <2>. HIDE DEF x
  <2>. QED  BY <2>1, <2>2, SilentStep DEF history, Collecting
<1>3. CASE Put(r)
  <2>. DEFINE pc == IF Call[r].kind = "delete" THEN "scan" ELSE "audience"
              x == [req[r] EXCEPT !.pc = pc, !.at = Call[r].file, !.doc = Absent,
                                  !.mem = NoMem, !.role = "none"]
  <2>1. pc \in {"scan", "audience"}
    OBVIOUS
  <2>. HIDE DEF pc
  <2>2. /\ x.users = req[r].users /\ x.told = req[r].told /\ x.pc = pc
        /\ x.at = Call[r].file
    BY <1>1 DEF RequestState
  <2>3. /\ Become(r, x) /\ shared' = shared
        /\ issued \subseteq issued' /\ placed \subseteq placed'
    BY <1>3 DEF Put, history, pc
  <2>. HIDE DEF x
  <2>4. x.at \in Above(placed', Call[r].file)
    BY <2>2, CallTypes, AboveSelf
  <2>5. Informed(issued', placed', r, req[r])
    BY <2>3, InformedKept DEF AllKnown
  <2>6. Informed(issued', placed', r, x)
    BY <2>1, <2>2, <2>4, <2>5 DEF Informed, Collecting
  <2>. QED  BY <2>3, <2>6, KnownKept
<1>. QED  BY <1>2, <1>3

\* A delete collects the users that the links of the file name.
LEMMA UnlinkersKnown ==
    ASSUME Typed, AllKnown, NEW r \in Requests, ScanLinks(r) \/ Unlink(r)
    PROVE  AllKnown'
<1>1. /\ req[r] \in RequestState /\ OnTrack(files, r, req[r])
      /\ Informed(issued, placed, r, req[r])
  BY DEF Typed, TypeOK, AllKnown
<1>2. CASE ScanLinks(r)
  <2>. DEFINE found == Linked(Call[r].file)
              pc == IF found = {} THEN "audience" ELSE "unlink"
              x == [req[r] EXCEPT !.users = found, !.pc = pc]
  <2>1. \A u \in found : Known(issued, placed, u, Call[r].file)
    <3>1. \A u \in found : \E role \in Roles : <<u, Call[r].file, role>> \in issued
      BY DEF Linked, Link, AllKnown
    <3>. QED  BY <3>1, CallTypes, AboveSelf DEF Known
  <2>2. pc \in {"audience", "unlink"}
    OBVIOUS
  <2>. HIDE DEF found, pc
  <2>3. x.users = found /\ x.told = req[r].told /\ x.pc = pc /\ x.at = req[r].at
    BY <1>1 DEF RequestState
  <2>4. /\ Become(r, x) /\ req[r].pc = "scan"
        /\ UNCHANGED <<shared, issued, placed>>
    BY <1>2 DEF ScanLinks, store, history, found, pc
  <2>. HIDE DEF x
  <2>5. Informed(issued, placed, r, x)
    BY <1>1, <2>1, <2>2, <2>3, <2>4 DEF Informed, Collecting
  <2>6. Informed(issued', placed', r, x)
    BY <2>4, <2>5
  <2>. QED  BY <2>4, <2>6, KnownKept
<1>3. CASE Unlink(r)
  <2>. DEFINE x == [req[r] EXCEPT !.users = {}, !.pc = "audience"]
  <2>1. x.users = {} /\ x.told = req[r].told /\ x.pc = "audience" /\ x.at = req[r].at
    BY <1>1 DEF RequestState
  <2>2. /\ Become(r, x) /\ req[r].pc = "unlink" /\ shared' \subseteq shared
        /\ UNCHANGED <<issued, placed>>
    BY <1>3 DEF Unlink, history
  <2>. HIDE DEF x
  <2>3. Informed(issued, placed, r, x)
    BY <1>1, <2>1, <2>2 DEF Informed, Collecting
  <2>4. Informed(issued', placed', r, x)
    BY <2>2, <2>3
  <2>. QED  BY <2>2, <2>4, KnownKept
<1>. QED  BY <1>2, <1>3

\* Owners and grantees of a record above the file were given a role there.
LEMMA AudienceKnown ==
    ASSUME Typed, Inv, AllKnown, NEW r \in Requests, Audience(r)
    PROVE  AllKnown'
<1>. DEFINE q == req[r]
            file == Call[r].file
            more == IF q.seen = Absent THEN {} ELSE UsersOf(q.seen)
            all == q.users \cup more
            up == [q EXCEPT !.users = all, !.seen = Unread, !.at = q.seen.parent]
            event == EventOf(Call[r].kind)
            done == Telling([Rest(r) EXCEPT !.pc = "ok", !.told = q.told], event, all)
<1>1. /\ q \in RequestState /\ q.pc = "audience" /\ q.seen # Unread
      /\ CopiesSound(files, perms, bin, issued, placed, r, q)
      /\ Informed(issued, placed, r, q) /\ file \in Files
      /\ UNCHANGED <<shared, issued, placed>>
  BY Before, CallTypes DEF Audience, Fetched, AllKnown, store, history
<1>2. q.at \in Above(placed, file)
  BY <1>1 DEF Informed, Collecting
<1>3. q.seen # Absent =>
         /\ q.seen \in FileRecord /\ Sound(files, perms, issued, placed, q.seen, q.at)
  BY <1>1 DEF CopiesSound, RequestState
<1>4. \A u \in all : Known(issued, placed, u, file)
  <2>1. \A u \in more : \E role \in Roles : <<u, q.at, role>> \in issued
    <3>1. CASE q.seen = Absent
      BY <3>1
    <3>2. CASE q.seen # Absent
      <4>1. <<q.seen.owner, q.at, "owner">> \in issued /\ "owner" \in Roles
        BY <1>3, <3>2 DEF Sound, Roles
      <4>2. \A p \in q.seen.ids : /\ <<perms[p].to, q.at, perms[p].role>> \in issued
                                  /\ perms[p].role \in Roles
        <5>1. \A p \in q.seen.ids : perms[p] \in Permission
          BY <1>3, <3>2 DEF Sound, FileRecord, Typed, TypeOK
        <5>. QED  BY <1>3, <3>2, <5>1 DEF Sound, Permission
      <4>. QED  BY <3>2, <4>1, <4>2 DEF UsersOf, Listed
    <3>. QED  BY <3>1, <3>2
  <2>. HIDE DEF more
  <2>. QED  BY <1>1, <1>2, <2>1 DEF Known, Informed
<1>. HIDE DEF all
<1>5. CASE q.seen # Absent /\ q.seen.parent # Root /\ Become(r, up)
  <2>1. /\ up.users = all /\ up.told = q.told /\ up.pc = "audience"
        /\ up.at = q.seen.parent
    BY <1>1 DEF RequestState
  <2>2. q.seen.parent \in Files /\ <<q.at, q.seen.parent>> \in placed
    BY <1>3, <1>5 DEF FileRecord, Sound
  <2>3. up.at \in Above(placed, file)
    BY <1>1, <1>2, <2>1, <2>2, AboveStep
  <2>. HIDE DEF up
  <2>4. Informed(issued, placed, r, up)
    BY <1>1, <1>4, <2>1, <2>3 DEF Informed
  <2>5. Informed(issued', placed', r, up)
    BY <1>1, <2>4
  <2>. QED  BY <1>1, <1>5, <2>5, KnownKept
<1>6. CASE Become(r, done)
  <2>1. /\ done.users = {} /\ done.pc = "ok"
        /\ done.told = q.told \cup ({event} \X all)
    BY DEF Telling, Rest
  <2>. HIDE DEF done
  <2>2. Informed(issued, placed, r, done)
    BY <1>1, <1>4, <2>1 DEF Informed, Collecting
  <2>3. Informed(issued', placed', r, done)
    BY <1>1, <2>2
  <2>. QED  BY <1>1, <1>6, <2>3, KnownKept
<1>. QED  BY <1>5, <1>6 DEF Audience, all

LEMMA CrashKnown == ASSUME Typed, AllKnown, Crash PROVE AllKnown'
<1>1. UNCHANGED <<shared, issued, placed>>
  BY DEF Crash, store, history
<1>2. ASSUME NEW r \in Requests PROVE Informed(issued, placed, r, req'[r])
  <2>1. Informed(issued, placed, r, req[r])
    BY DEF AllKnown
  <2>2. CASE r \in InFlight
    <3>. DEFINE x == [Rest(r) EXCEPT !.pc = "lost", !.told = req[r].told]
    <3>1. req'[r] = x
      BY <2>2 DEF Crash
    <3>2. x.users = {} /\ x.told = req[r].told /\ x.pc = "lost"
      BY DEF Rest
    <3>. HIDE DEF x
    <3>. QED  BY <2>1, <3>1, <3>2 DEF Informed, Collecting
  <2>3. CASE r \notin InFlight
    BY <2>1, <2>3 DEF Crash
  <2>. QED  BY <2>2, <2>3
<1>. QED  BY <1>1, <1>2 DEF AllKnown

LEMMA StepKeepsKnown == Typed /\ Inv /\ AllKnown /\ [Next]_vars => AllKnown'
<1>. SUFFICES ASSUME Typed, Inv, AllKnown, [Next]_vars PROVE AllKnown'
  OBVIOUS
<1>1. CASE UNCHANGED <<store, req, history>>
  BY <1>1 DEF store, history, AllKnown
<1>2. CASE UNCHANGED vars
  BY <1>1, <1>2 DEF vars, store, history
<1>3. CASE Tick
  BY <1>1, <1>3 DEF Tick
<1>4. CASE Crash
  BY <1>4, CrashKnown
<1>5. CASE Finished
  BY <1>2, <1>5 DEF Finished
<1>6. ASSUME NEW r \in Requests, Begin(r) \/ Serve(r) PROVE AllKnown'
  <2>1. CASE RejectPermission(r)
    BY <2>1, AnswerKnown DEF RejectPermission, Answers
  <2>. QED
    BY <1>6, <2>1, ReadersKnown, AddPermissionKnown, AddLinkKnown,
       RemovePermissionKnown, WritersKnown, UnlinkersKnown, AudienceKnown
       DEF Serve
<1>. QED  BY <1>2, <1>3, <1>4, <1>5, <1>6 DEF Next

-----------------------------------------------------------------------------
\* The theorems

LEMMA CrashInv == ASSUME Typed, Inv, Crash PROVE Inv'
<1>1. UNCHANGED <<files, perms, shared, bin, issued, placed>>
  BY DEF Crash, store, history
<1>2. ASSUME NEW r \in Requests
      PROVE  /\ CopiesSound(files, perms, bin, issued, placed, r, req'[r])
             /\ Entitled(files, issued, placed, r, req'[r])
             /\ \A f, p : Holds(r, req'[r], f, p) => Holds(r, req[r], f, p)
  <2>1. CASE r \in InFlight
    <3>. DEFINE x == [Rest(r) EXCEPT !.pc = "lost", !.told = req[r].told]
    <3>1. req'[r] = x
      BY <2>1 DEF Crash
    <3>2. x.seen = Unread /\ x.doc = Absent /\ x.pc = "lost"
      BY DEF Rest
    <3>. HIDE DEF x
    <3>. QED  BY <3>1, <3>2, NothingHeld
  <2>2. CASE r \notin InFlight
    <3>1. req'[r] = req[r]
      BY <2>2 DEF Crash
    <3>. QED  BY <3>1, Before
  <2>. QED  BY <2>1, <2>2
<1>3. \A f, p : Names(files, req', f, p) => Names(files, req, f, p)
  BY <1>2 DEF Names
<1>4. \A f, g \in Files, p \in PermIds :
         (Names(files', req', f, p) /\ Names(files', req', g, p)) => f = g
  BY <1>1, <1>3 DEF Inv
<1>. QED  BY <1>1, <1>2, <1>4 DEF Inv

LEMMA StepKeepsInvariant == Typed /\ Typed' /\ Inv /\ [Next]_vars => Inv'
<1>. SUFFICES ASSUME Typed, Typed', Inv, [Next]_vars PROVE Inv'
  OBVIOUS
<1>1. CASE UNCHANGED <<store, req, history>>
  BY <1>1 DEF store, history, Inv, Names
<1>2. CASE UNCHANGED vars
  BY <1>1, <1>2 DEF vars, store, history
<1>3. CASE Tick
  BY <1>1, <1>3 DEF Tick
<1>4. CASE Crash
  BY <1>4, CrashInv
<1>5. CASE Finished
  BY <1>2, <1>5 DEF Finished
<1>6. ASSUME NEW r \in Requests, Begin(r) \/ Serve(r) PROVE Inv'
  BY <1>6, BeginInv, FetchInv, CheckExistsInv, CheckInv, ReadInv, GetInv,
     AddPermissionInv, RejectPermissionInv, AddLinkInv, RemovePermissionInv,
     AddToBinInv, PutInv, ScanLinksInv, UnlinkInv, AudienceInv
     DEF Serve
<1>. QED  BY <1>2, <1>3, <1>4, <1>5, <1>6 DEF Next

LEMMA Invariant == Spec => [](Typed /\ Inv)
<1>1. Init => Typed /\ Inv
  BY InitTyped, InitInv
<1>2. Typed /\ Inv /\ [Next]_vars => Typed' /\ Inv'
  BY StepKeepsTypes, StepKeepsInvariant
<1>. QED  BY <1>1, <1>2, PTL DEF Spec

\* Whatever overlaps or crashes, a stored file names only written permissions and
\* an existing parent, and a link leads to a file: the handlers of Files.ts and
\* Shared.ts write what is referred to before what refers to it.
THEOREM ReferencesResolve == Spec => []RefsResolve
<1>1. Typed /\ Inv => RefsResolve
  BY DEF Inv, Sound, RefsResolve
<1>. QED  BY <1>1, Invariant, PTL

\* However many access patches of one file work on stale copies at once, no file
\* ends with two permissions of one grantee (PermissionStore.addPermission).
THEOREM GrantsUnique == Spec => []OneGrantPerGrantee
<1>1. Typed /\ Inv => OneGrantPerGrantee
  BY DEF Inv, Sound, OneGrantPerGrantee
<1>. QED  BY <1>1, Invariant, PTL

\* No permission record is ever named by two files, stored or in a copy.
THEOREM PermissionsPrivate == Spec => []PermissionsNotShared
<1>1. Typed /\ Inv => PermissionsNotShared
  <2>1. ASSUME Typed, Inv, NEW f \in Files, NEW g \in Files, NEW p,
               files[f] # Absent, files[g] # Absent, f # g,
               p \in files[f].ids, p \in files[g].ids
        PROVE  FALSE
    <3>1. p \in PermIds
      BY <2>1 DEF Typed, TypeOK, FileRecord
    <3>. QED  BY <2>1, <3>1 DEF Inv, Names
  <2>. QED  BY <2>1 DEF PermissionsNotShared
<1>. QED  BY <1>1, Invariant, PTL

\* A file marked as deleted is in the bin, also after a crash in the middle of
\* the delete and when a stale copy is written over it (Files.delete).
THEOREM DeletedIsInBin == Spec => []BinBeforeDelete
<1>1. Typed /\ Inv => BinBeforeDelete
  BY DEF Inv, BinBeforeDelete
<1>. QED  BY <1>1, Invariant, PTL

\* The check-then-act handlers of Files.ts never write for a user who had not,
\* at some time, been given the authority to.
THEOREM NoUnauthorisedWrite == Spec => []WritesAuthorised
<1>1. Typed /\ Inv => WritesAuthorised
  BY DEF Inv, Sound, WritesAuthorised, Authorised
<1>. QED  BY <1>1, Invariant, PTL

\* No event about a file reaches a user who was never given a role on it or above
\* it, although links, permissions and parents change while the list of users is
\* collected (Files.readFileUserIds, FilesHttpRoute's notifications).
THEOREM StrangersHearNothing == Spec => []EventsStayInside
<1>1. Init => Typed /\ Inv /\ AllKnown
  BY InitTyped, InitInv, InitKnown
<1>2. Typed /\ Inv /\ AllKnown /\ [Next]_vars => Typed' /\ Inv' /\ AllKnown'
  BY StepKeepsTypes, StepKeepsInvariant, StepKeepsKnown
<1>3. AllKnown => EventsStayInside
  BY DEF AllKnown, Informed, Known, EventsStayInside
<1>. QED  BY <1>1, <1>2, <1>3, PTL DEF Spec
-----------------------------------------------------------------------------
\* Circles

\* A file that is put where there was none is put under one that is there.
LEMMA NewIsRooted ==
    ASSUME Typed, Inv, NEW r \in Requests, Put(r), files[Call[r].file] = Absent
    PROVE  Document(r).parent # Call[r].file
<1>1. /\ req[r] \in RequestState /\ OnTrack(files, r, req[r]) /\ req[r].pc = "put"
      /\ CopiesSound(files, perms, bin, issued, placed, r, req[r])
      /\ Entitled(files, issued, placed, r, req[r])
  BY Before DEF Put
<1>2. Call[r].kind = "create"
  BY <1>1, CallTypes DEF OnTrack, CopiesSound, Sound, Kinds
<1>3. Document(r).parent = Call[r].parent /\ Target(r) = Call[r].parent
  BY <1>2 DEF Document, Target
<1>. QED  BY <1>1, <1>3, CallTypes, SentinelsDistinct DEF Entitled

LEMMA PutRooted ==
    ASSUME Typed, Inv, Inv', NEW r \in Requests, Put(r), ~TwicePlaced(placed'), Circle'
    PROVE  Circle
<1>. DEFINE f == Call[r].file
<1>1. /\ f \in Files /\ files'[f] = Document(r) /\ placed \subseteq placed'
      /\ \A g \in Files \ {f} : files'[g] = files[g]
  BY CallTypes DEF Put, history, Typed, TypeOK
<1>2. PICK S \in (SUBSET Files) \ {{}} :
          \A g \in S : files'[g] # Absent /\ files'[g].parent \in S
  BY DEF Circle, CircleIn
<1>3. CASE files[f] # Absent
  <2>1. <<f, files[f].parent>> \in placed'
    BY <1>1, <1>3 DEF Inv, Sound
  <2>2. f \in S => <<f, files'[f].parent>> \in placed'
    BY <1>1, <1>2 DEF Inv, Sound
  <2>3. f \in S => files'[f].parent = files[f].parent
    BY <2>1, <2>2 DEF TwicePlaced
  <2>. QED  BY <1>1, <1>2, <1>3, <2>3 DEF Circle, CircleIn
<1>4. CASE files[f] = Absent
  <2>. DEFINE T == S \ {f}
  <2>1. \A g \in T : files[g] # Absent /\ files[g].parent \in S
    BY <1>1, <1>2
  <2>2. \A g \in T : files[g].parent # f
    BY <1>1, <1>2, <1>4, <2>1, SentinelsDistinct DEF Inv, Sound
  <2>3. f \in S => files'[f].parent \in T
    BY <1>1, <1>2, <1>4, NewIsRooted
  <2>4. T # {} /\ T \in SUBSET Files
    BY <1>2, <2>3
  <2>. QED  BY <2>1, <2>2, <2>4 DEF Circle, CircleIn
<1>. QED  BY <1>3, <1>4

LEMMA StepRooted ==
    Typed /\ Inv /\ Inv' /\ OnlyRacesMakeCircles /\ [Next]_vars => OnlyRacesMakeCircles'
<1>. SUFFICES ASSUME Typed, Inv, Inv', OnlyRacesMakeCircles, [Next]_vars,
                     ~TwicePlaced(placed'), Circle'
              PROVE  FALSE
  BY DEF OnlyRacesMakeCircles
<1>1. placed \subseteq placed' /\ (UNCHANGED files \/ \E r \in Requests : Put(r))
  BY DEF Next, Serve, Begin, Fetch, CheckExists, Check, Read, Get, AddPermission,
         RejectPermission, AddLink, RemovePermission, AddToBin, Put, ScanLinks, Unlink,
         Audience, Tick, Crash, Finished, vars, store, history
<1>2. Circle
  BY <1>1, PutRooted DEF Circle, CircleIn
<1>. QED  BY <1>1, <1>2 DEF OnlyRacesMakeCircles, TwicePlaced

\* Files get under one another only where two creates of one key both put it:
\* no order of creates, patches from stale copies, deletes and crashes does it
\* alone (Files.add, Files.update).
THEOREM CirclesNeedRaces == Spec => []OnlyRacesMakeCircles
<1>1. Init => Typed /\ Inv /\ OnlyRacesMakeCircles
  BY InitTyped, InitInv, InitialStoreRooted DEF Init, OnlyRacesMakeCircles, Circle
<1>2. Typed /\ Inv /\ OnlyRacesMakeCircles /\ [Next]_vars
          => Typed' /\ Inv' /\ OnlyRacesMakeCircles'
  BY StepKeepsTypes, StepKeepsInvariant, StepRooted
<1>. QED  BY <1>1, <1>2, PTL DEF Spec
=============================================================================
