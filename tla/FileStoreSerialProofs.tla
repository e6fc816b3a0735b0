------------------------- MODULE FileStoreSerialProofs -------------------------
(***************************************************************************)
(* FileStore with one request in flight, for every value of its other      *)
(* constants: the index of shared files is exact, and the store implements *)
(* the access-control tree of AccessControl.                               *)
(*                                                                         *)
(* The inductive invariant Serial adds to Inv what only a request that is  *)
(* served alone can rely on: its copies are the stored records but for its *)
(* own changes, every file it has walked past had nothing to say and still *)
(* has not, and the links of its file are at most one operation behind.    *)
(*                                                                         *)
(* The refinement has a lemma per action, which says what step of the tree *)
(* the action is.  A request that passes its `writer` check is let in      *)
(* (Admit), because the walk up the records found what RolesOf says of the *)
(* whole tree; each write of a permission is a Regrant, the write of the   *)
(* record a Create, an Edit, a Commit or a Delete; an answer or a crash    *)
(* is a Leave; the clock is Pass; and all the rest leaves the tree as it   *)
(* was.                                                                    *)
(***************************************************************************)
EXTENDS FileStoreRefinement, FileStoreProofs, FiniteSetTheorems, WellFoundedInduction

AclGrant == Abstract!AclGrant
Patched(grants, ops, n) == Abstract!Patched(grants, ops, n)

-----------------------------------------------------------------------------
\* Access patches, one operation after the other

\* The parts of AccessControl!GrantsTo.
Mine(to, ops, n) == {i \in 1..n : ops[i].to = to}
Since(to, ops, n) ==
    {i \in Mine(to, ops, n) : \A j \in Mine(to, ops, n) : i <= j => ops[j].op = "add"}
Timed(to, ops, n) == {i \in Since(to, ops, n) : ops[i].expires # 0}
Last(S) == {i \in S : \A j \in S : j <= i}
Old(to, grants) == {g \in grants : g.to = to}
Times(to, grants, ops, n) ==
    IF Timed(to, ops, n) # {} THEN {ops[i].expires : i \in Last(Timed(to, ops, n))}
    ELSE IF Since(to, ops, n) = Mine(to, ops, n) /\ Old(to, grants) # {}
         THEN {g.expires : g \in Old(to, grants)}
         ELSE {0}

InPatched(g, grants, ops, n) ==
    IF Mine(g.to, ops, n) = {} THEN g \in grants
    ELSE /\ \E i \in Last(Since(g.to, ops, n)) : g.role = ops[i].role
         /\ g.expires \in Times(g.to, grants, ops, n)

LEMMA GrantSet ==
    ASSUME NEW to \in Grantees, NEW R \in SUBSET Roles, NEW T \in SUBSET (0..MaxTime), NEW g
    PROVE  g \in [to : {to}, role : R, expires : T] <=>
              g \in AclGrant /\ g.to = to /\ g.role \in R /\ g.expires \in T
  BY DEF AclGrant, Abstract!AclGrant, Abstract!Role, Roles

LEMMA PatchedParts ==
    ASSUME NEW G \in SUBSET AclGrant, NEW ops \in Seq(AccessOp), NEW n \in 0..Len(ops)
    PROVE  /\ Patched(G, ops, n) \subseteq AclGrant
           /\ \A g \in AclGrant : g \in Patched(G, ops, n) <=> InPatched(g, G, ops, n)
<1>. DEFINE part(to) == Abstract!GrantsTo(to, G, ops, n)
            roles(to) == {ops[i].role : i \in Last(Since(to, ops, n))}
            times(to) == Times(to, G, ops, n)
<1>1. ASSUME NEW to \in Grantees
      PROVE  part(to) = IF Mine(to, ops, n) = {} THEN Old(to, G)
                        ELSE [to : {to}, role : roles(to), expires : times(to)]
  BY DEF Abstract!GrantsTo, Mine, Since, Timed, Last, Old, Times
<1>2. ASSUME NEW to \in Grantees
      PROVE  roles(to) \subseteq Roles /\ times(to) \subseteq 0..MaxTime
  <2>1. Since(to, ops, n) \subseteq 1..Len(ops)
    BY DEF Since, Mine
  <2>2. \A i \in 1..Len(ops) : ops[i] \in AccessOp
    OBVIOUS
  <2>3. Old(to, G) \subseteq AclGrant /\ 0 \in 0..MaxTime
    BY BoundsTyped DEF Old
  <2>4. \A g \in AclGrant : g.expires \in 0..MaxTime
    BY DEF AclGrant, Abstract!AclGrant
  <2>. QED  BY <2>1, <2>2, <2>3, <2>4 DEF Times, Timed, Last, AccessOp
<1>3. ASSUME NEW to \in Grantees, NEW g
      PROVE  g \in part(to) <=> /\ g \in AclGrant /\ g.to = to
                                /\ IF Mine(to, ops, n) = {} THEN g \in G
                                   ELSE g.role \in roles(to) /\ g.expires \in times(to)
  <2>. HIDE DEF part, roles, times
  <2>1. CASE Mine(to, ops, n) = {}
    BY <1>1, <2>1 DEF Old
  <2>2. CASE Mine(to, ops, n) # {}
    <3>1. g \in part(to) <=> g \in [to : {to}, role : roles(to), expires : times(to)]
      BY <1>1, <2>2
    <3>. QED  BY <1>2, <2>2, <3>1, GrantSet
  <2>. QED  BY <2>1, <2>2
<1>4. \A g : g \in Patched(G, ops, n) <=> \E to \in Grantees : g \in part(to)
  BY DEF Patched, Abstract!Patched
<1>5. \A g \in AclGrant : g.to \in Grantees
  BY DEF AclGrant, Abstract!AclGrant
<1>. HIDE DEF part
<1>. QED  BY <1>3, <1>4, <1>5 DEF InPatched

LEMMA LastExists ==
    ASSUME NEW n \in Nat, NEW S \in SUBSET (1..n), S # {}
    PROVE  \E i \in S : Last(S) = {i}
<1>. DEFINE T == {n - i : i \in S}
<1>0. \A i \in S : i \in Int /\ n - i \in Nat
  OBVIOUS
<1>1. T \subseteq Nat /\ T # {}
  BY <1>0
<1>2. PICK d \in T : \A e \in T : ~(<<e, d>> \in OpToRel(<, Nat))
  BY <1>1, NatLessThanWellFounded, WFMin
<1>3. PICK i \in S : d = n - i
  OBVIOUS
<1>4. ASSUME NEW j \in S PROVE j <= i
  <2>1. n - j \in T /\ ~(n - j < d)
    BY <1>1, <1>2 DEF OpToRel
  <2>. QED  BY <1>0, <1>3, <2>1
<1>5. ASSUME NEW j \in S, \A k \in S : k <= j PROVE j = i
  <2>1. i <= j /\ j <= i /\ i \in Int /\ j \in Int
    BY <1>0, <1>4, <1>5
  <2>. QED  BY <2>1
<1>6. \A j \in Last(S) : j = i
  BY <1>5 DEF Last
<1>7. i \in Last(S)
  BY <1>4 DEF Last
<1>. QED  BY <1>6, <1>7

LEMMA LastAppended ==
    ASSUME NEW n \in Nat, NEW S \in SUBSET (1..n)
    PROVE  Last(S \cup {n + 1}) = {n + 1} /\ n + 1 \notin S
<1>1. n + 1 \in Int /\ \A j \in S : j \in Int /\ j <= n
  OBVIOUS
<1>2. \A j \in S : j <= n + 1 /\ ~(n + 1 <= j)
  BY <1>1
<1>3. n + 1 <= n + 1 /\ n + 1 \notin S
  BY <1>1, <1>2
<1>. QED  BY <1>2, <1>3 DEF Last

\* When the grants to one grantee expire after n operations.
LEMMA PatchedTimes ==
    ASSUME NEW G \in SUBSET AclGrant, NEW ops \in Seq(AccessOp), NEW n \in 0..Len(ops),
           NEW to \in Grantees
    PROVE  {g.expires : g \in Old(to, Patched(G, ops, n))} =
              IF Mine(to, ops, n) = {} THEN {g.expires : g \in Old(to, G)}
              ELSE IF Since(to, ops, n) = {} THEN {}
              ELSE Times(to, G, ops, n)
<1>. DEFINE X == Patched(G, ops, n)
<1>0. n \in Nat /\ 1..n \subseteq 1..Len(ops)
  OBVIOUS
<1>1. X \subseteq AclGrant /\ \A g \in AclGrant : g \in X <=> InPatched(g, G, ops, n)
  BY PatchedParts
<1>. HIDE DEF X
<1>2. CASE Mine(to, ops, n) = {}
  <2>1. Old(to, X) = Old(to, G)
    BY <1>1, <1>2 DEF Old, InPatched
  <2>. QED  BY <1>2, <2>1 DEF X
<1>3. CASE Mine(to, ops, n) # {} /\ Since(to, ops, n) = {}
  <2>1. Old(to, X) = {}
    BY <1>1, <1>3 DEF Old, Last, InPatched
  <2>. QED  BY <1>3, <2>1 DEF X
<1>4. CASE Mine(to, ops, n) # {} /\ Since(to, ops, n) # {}
  <2>1. Since(to, ops, n) \subseteq 1..n /\ Timed(to, ops, n) \subseteq 1..n
    BY DEF Since, Mine, Timed
  <2>2. PICK i \in Since(to, ops, n) : Last(Since(to, ops, n)) = {i}
    BY <1>0, <1>4, <2>1, LastExists
  <2>3. ops[i] \in AccessOp
    BY <1>0, <2>1
  <2>4. ASSUME NEW e \in Times(to, G, ops, n)
        PROVE  \E g \in Old(to, X) : g.expires = e
    <3>1. e \in 0..MaxTime
      <4>1. \A j \in 1..n : ops[j].expires \in 0..MaxTime
        <5>1. \A j \in 1..Len(ops) : ops[j] \in AccessOp
          OBVIOUS
        <5>. QED  BY <1>0, <5>1 DEF AccessOp
      <4>2. \A g \in Old(to, G) : g.expires \in 0..MaxTime
        BY DEF Old, AclGrant, Abstract!AclGrant
      <4>. QED  BY <2>1, <4>1, <4>2, BoundsTyped DEF Times, Last
    <3>. DEFINE g == [to |-> to, role |-> ops[i].role, expires |-> e]
    <3>2. g \in AclGrant /\ g.to = to /\ g.role = ops[i].role /\ g.expires = e
      BY <2>3, <3>1 DEF AclGrant, Abstract!AclGrant, Abstract!Role, AccessOp, Roles
    <3>. HIDE DEF g
    <3>3. g \in X
      BY <1>1, <1>4, <2>2, <3>2 DEF InPatched
    <3>. QED  BY <3>2, <3>3 DEF Old
  <2>5. ASSUME NEW g \in Old(to, X) PROVE g.expires \in Times(to, G, ops, n)
    BY <1>1, <1>4 DEF Old, InPatched
  <2>. QED  BY <1>4, <2>4, <2>5 DEF X
<1>. QED  BY <1>2, <1>3, <1>4

LEMMA TimesOfNone ==
    ASSUME NEW to, NEW G
    PROVE  Old(to, G) = {} <=> {g.expires : g \in Old(to, G)} = {}
  OBVIOUS

\* When a grant expires that the operation adds to the grants X.
Renewed(op, X) ==
    IF op.expires # 0 THEN {op.expires}
    ELSE IF Old(op.to, X) # {} THEN {g.expires : g \in Old(op.to, X)}
    ELSE {0}

LEMMA PatchedOnce ==
    ASSUME NEW G \in SUBSET AclGrant, NEW ops \in Seq(AccessOp), NEW n \in Nat,
           n + 1 \in 1..Len(ops), NEW g \in AclGrant
    PROVE  LET op == ops[n + 1]
               X == Patched(G, ops, n)
           IN  g \in Patched(G, ops, n + 1) <=>
                  IF g.to # op.to THEN g \in X
                  ELSE op.op = "add" /\ g.role = op.role /\ g.expires \in Renewed(op, X)
<1>. DEFINE op == ops[n + 1]
            X == Patched(G, ops, n)
            Y == Patched(G, ops, n + 1)
            to == g.to
<1>0. n \in 0..Len(ops) /\ n + 1 \in 0..Len(ops) /\ to \in Grantees /\ op \in AccessOp
  BY DEF AclGrant, Abstract!AclGrant
<1>1. g \in X <=> InPatched(g, G, ops, n)
  BY <1>0, PatchedParts
<1>2. g \in Y <=> InPatched(g, G, ops, n + 1)
  BY <1>0, PatchedParts
<1>. HIDE DEF X, Y
<1>3. Mine(to, ops, n) \subseteq 1..n /\ Mine(to, ops, n + 1) \subseteq 1..(n + 1)
  BY DEF Mine
<1>4. CASE to # op.to
  <2>1. Mine(to, ops, n + 1) = Mine(to, ops, n)
    BY <1>4 DEF Mine
  <2>2. Since(to, ops, n + 1) = Since(to, ops, n)
    BY <2>1 DEF Since
  <2>3. Times(to, G, ops, n + 1) = Times(to, G, ops, n)
    BY <2>1, <2>2 DEF Times, Timed
  <2>. QED  BY <1>1, <1>2, <1>4, <2>1, <2>2, <2>3 DEF X, Y, InPatched
<1>5. CASE to = op.to
  <2>1. Mine(to, ops, n + 1) = Mine(to, ops, n) \cup {n + 1}
    BY <1>0, <1>5 DEF Mine
  <2>2. CASE op.op # "add"
    <3>1. Since(to, ops, n + 1) = {}
      BY <1>3, <2>1, <2>2 DEF Since
    <3>. QED  BY <1>2, <1>5, <2>1, <2>2, <3>1 DEF Last, X, Y, InPatched
  <2>3. CASE op.op = "add"
    <3>1. Since(to, ops, n + 1) = Since(to, ops, n) \cup {n + 1}
      BY <1>3, <2>1, <2>3 DEF Since
    <3>2. Since(to, ops, n) \subseteq Mine(to, ops, n) /\ Timed(to, ops, n) \subseteq 1..n
      BY <1>3 DEF Since, Timed
    <3>3. Last(Since(to, ops, n + 1)) = {n + 1}
      <4>1. Since(to, ops, n) \subseteq 1..n
        BY <1>3, <3>2
      <4>. QED  BY <3>1, <4>1, LastAppended
    <3>4. Times(to, G, ops, n + 1) = Renewed(op, X)
      <4>1. CASE op.expires # 0
        <5>1. Timed(to, ops, n + 1) = Timed(to, ops, n) \cup {n + 1}
          BY <3>1, <4>1 DEF Timed
        <5>2. Last(Timed(to, ops, n + 1)) = {n + 1}
          BY <3>2, <5>1, LastAppended
        <5>. QED  BY <4>1, <5>1, <5>2 DEF Times, Renewed
      <4>2. CASE op.expires = 0
        <5>1. Timed(to, ops, n + 1) = Timed(to, ops, n)
          BY <3>1, <4>2 DEF Timed
        <5>2. {h.expires : h \in Old(to, X)} =
                 IF Mine(to, ops, n) = {} THEN {h.expires : h \in Old(to, G)}
                 ELSE IF Since(to, ops, n) = {} THEN {}
                 ELSE Times(to, G, ops, n)
          BY <1>0, PatchedTimes DEF X
        <5>3. Since(to, ops, n + 1) = Mine(to, ops, n + 1)
                 <=> Since(to, ops, n) = Mine(to, ops, n)
          <6>1. n + 1 \notin Mine(to, ops, n)
            BY <1>3, LastAppended
          <6>. QED  BY <2>1, <3>1, <3>2, <6>1
        <5>4. (Old(to, X) = {}) <=> ({h.expires : h \in Old(to, X)} = {})
          BY TimesOfNone
        <5>5. (Old(to, G) = {}) <=> ({h.expires : h \in Old(to, G)} = {})
          BY TimesOfNone
        <5>6. Renewed(op, X) = IF {h.expires : h \in Old(to, X)} = {} THEN {0}
                               ELSE {h.expires : h \in Old(to, X)}
          BY <1>5, <4>2, <5>4 DEF Renewed
        <5>7. Timed(to, ops, n) \subseteq Since(to, ops, n)
          BY DEF Timed
        <5>8. CASE Mine(to, ops, n) = {}
          BY <3>2, <5>1, <5>2, <5>3, <5>5, <5>6, <5>7, <5>8 DEF Times
        <5>9. CASE Mine(to, ops, n) # {} /\ Since(to, ops, n) = {}
          BY <5>1, <5>2, <5>3, <5>6, <5>7, <5>9 DEF Times
        <5>10. CASE Mine(to, ops, n) # {} /\ Since(to, ops, n) # {}
          <6>1. Times(to, G, ops, n + 1) = Times(to, G, ops, n)
            BY <5>1, <5>3 DEF Times
          <6>2. Times(to, G, ops, n) # {}
            <7>1. Timed(to, ops, n) # {} => Last(Timed(to, ops, n)) # {}
              BY <3>2, LastExists
            <7>. QED  BY <5>5, <7>1 DEF Times
          <6>. QED  BY <5>2, <5>6, <5>10, <6>1, <6>2
        <5>. QED  BY <5>8, <5>9, <5>10
      <4>. QED  BY <4>1, <4>2
    <3>. QED  BY <1>2, <1>5, <2>1, <2>3, <3>3, <3>4 DEF X, Y, InPatched
  <2>. QED  BY <2>2, <2>3
<1>. QED  BY <1>4, <1>5 DEF X, Y

LEMMA PatchedNone ==
    ASSUME NEW G \in SUBSET AclGrant, NEW ops \in Seq(AccessOp)
    PROVE  Patched(G, ops, 0) = G
<1>1. 0 \in 0..Len(ops) /\ \A to : Mine(to, ops, 0) = {}
  BY DEF Mine
<1>2. /\ Patched(G, ops, 0) \subseteq AclGrant
      /\ \A g \in AclGrant : g \in Patched(G, ops, 0) <=> InPatched(g, G, ops, 0)
  BY <1>1, PatchedParts
<1>. QED  BY <1>1, <1>2 DEF InPatched

\* An addition that has reached the stored grants already is made again.
LEMMA PatchedAhead ==
    ASSUME NEW G \in SUBSET AclGrant, NEW G2 \in SUBSET AclGrant,
           NEW ops \in Seq(AccessOp), NEW n \in Nat, n + 1 \in 1..Len(ops),
           ops[n + 1].op = "add",
           \A g \in AclGrant : g.to # ops[n + 1].to => (g \in G <=> g \in G2),
           ops[n + 1].expires = 0 =>
              {g.expires : g \in Old(ops[n + 1].to, G)} = {g.expires : g \in Old(ops[n + 1].to, G2)}
    PROVE  Patched(G2, ops, n + 1) = Patched(G, ops, n + 1)
<1>0. n + 1 \in 0..Len(ops)
  OBVIOUS
<1>1. ASSUME NEW g \in AclGrant
      PROVE  g \in Patched(G2, ops, n + 1) <=> g \in Patched(G, ops, n + 1)
  <2>. DEFINE to == g.to
              m == n + 1
  <2>0. /\ g \in Patched(G, ops, m) <=> InPatched(g, G, ops, m)
        /\ g \in Patched(G2, ops, m) <=> InPatched(g, G2, ops, m)
    BY <1>0, PatchedParts
  <2>1. CASE to # ops[m].to
    <3>1. Old(to, G) = Old(to, G2) /\ (g \in G <=> g \in G2)
      BY <2>1 DEF Old
    <3>2. Times(to, G, ops, m) = Times(to, G2, ops, m)
      BY <3>1 DEF Times
    <3>. QED  BY <2>0, <3>1, <3>2 DEF InPatched
  <2>2. CASE to = ops[m].to
    <3>1. m \in Mine(to, ops, m)
      BY <2>2 DEF Mine
    <3>2. Times(to, G, ops, m) = Times(to, G2, ops, m)
      <4>1. CASE ops[m].expires = 0
        BY <2>2, <4>1, TimesOfNone DEF Times
      <4>2. CASE ops[m].expires # 0
        <5>1. \A j \in Mine(to, ops, m) : m <= j => j = m
          BY DEF Mine
        <5>2. m \in Timed(to, ops, m)
          BY <3>1, <4>2, <5>1 DEF Since, Timed
        <5>. QED  BY <5>2 DEF Times
      <4>. QED  BY <4>1, <4>2
    <3>. QED  BY <2>0, <3>1, <3>2 DEF InPatched
  <2>. QED  BY <2>1, <2>2
<1>2. Patched(G, ops, n + 1) \subseteq AclGrant /\ Patched(G2, ops, n + 1) \subseteq AclGrant
  BY <1>0, PatchedParts
<1>. QED  BY <1>1, <1>2

-----------------------------------------------------------------------------
\* The invariant: what a request that is served alone can rely on

Alone == \A r, s \in InFlight : r = s

GrantOf(m) == [to |-> m.to, role |-> m.role, expires |-> m.expires]
GrantsOf(P, ids) == {GrantOf(P[p]) : p \in ids}

\* An access patch after some of its operations: the copy is the stored file with
\* other permissions, and what those grant is what the patch so far makes of the
\* stored grants.
Patching(F, P, r, x) ==
    LET f == Call[r].file
        ops == Call[r].ops
        done == Len(ops) - Len(x.todo)
    IN  /\ F[f] # Absent /\ ~F[f].deleted
        /\ x.doc = [F[f] EXCEPT !.ids = x.doc.ids]
        /\ \A p \in x.doc.ids : x.mem[p] = P[p] /\ ~P[p].deleted
        /\ Len(x.todo) <= Len(ops)
        /\ \A i \in 1..Len(x.todo) : x.todo[i] = ops[done + i]
        /\ GrantsOf(P, x.doc.ids) =
              Patched(GrantsOf(P, F[f].ids), ops,
                      IF x.pc = "link" THEN done + 1 ELSE done)
        /\ x.pc = "put" => x.todo = <<>>

Acting == {"get", "op", "link", "bin", "put"}

\* Every copy is the stored record but for the handler's own changes.
Attends(F, P, r, x) ==
    LET f == Call[r].file
    IN  /\ x.seen # Unread => x.seen = F[x.at]
        /\ x.pc = "exists" => x.role = "none"
        /\ x.pc \in Acting =>
              IF Target(r) = Root THEN x.role = "none" ELSE x.role \in May
        /\ (x.pc = "writecheck" /\ x.at # Target(r)) => ~F[Target(r)].deleted
        /\ (Call[r].kind = "create" /\ x.pc \in {"writecheck", "put"}) =>
              F[f] = Absent
        /\ (Call[r].kind = "patch" /\ x.pc \in {"writecheck", "put"}) =>
              F[f] # Absent /\ x.doc = [F[f] EXCEPT !.edits = @ \cup {r}]
        /\ (Call[r].kind = "access" /\ x.pc = "get") =>
              F[f] # Absent /\ ~F[f].deleted
        /\ (Call[r].kind = "access" /\ x.pc \in {"op", "link", "put"}) =>
              Patching(F, P, r, x)
        /\ (Call[r].kind = "delete" /\ x.pc \in {"bin", "put"}) =>
              /\ F[f] # Absent /\ x.role = "owner"
              /\ x.doc = [F[f] EXCEPT !.deleted = TRUE, !.deletedBy = Call[r].user]
        /\ x.pc \in {"scan", "unlink"} => F[f] # Absent /\ F[f].deleted

\* A file and what it is under, at this instant.
Upward(F, S) ==
    \A g \in S : (F[g] # Absent /\ F[g].parent # Root) => F[g].parent \in S
Ancestors(F, f) ==
    {g \in Files : \A S \in SUBSET Files : (f \in S /\ Upward(F, S)) => g \in S}

\* File g says nothing about user u at time t: nor will it later.
Silent(F, P, t, g, u) ==
    /\ F[g] # Absent /\ ~F[g].deleted /\ F[g].owner # u
    /\ \A p \in F[g].ids :
          P[p].to \in {u, Anyone} => P[p].expires # 0 /\ P[p].expires < t

\* The walk for `writer` has passed nothing but silent files.
Walk(F, P, t, r, x) ==
    x.pc = "writecheck" =>
        /\ x.at \in Ancestors(F, Target(r))
        /\ \A g \in Ancestors(F, Target(r)) \ Ancestors(F, x.at) :
              Silent(F, P, t, g, Call[r].user)

Unmarked == \A f \in Files : files[f] # Absent =>
                \A p \in files[f].ids : ~perms[p].deleted

Served == \A r \in InFlight : /\ Attends(files, perms, r, req[r])
                              /\ Walk(files, perms, now, r, req[r])

\* The requests on f left no patch half-way.
Whole(R, f) ==
    /\ LinksExact(InitFiles, InitPerms, InitShared, f)
    /\ \A r \in Requests : Call[r].file = f =>
          R[r].pc # "lost" /\ (Call[r].kind = "access" => R[r].pc # "400")

\* Request r is changing the links of its file, and where it is with that.
Relinking(r, x) == \/ Call[r].kind = "access" /\ x.pc \in {"op", "link", "put"}
                   \/ x.pc \in {"scan", "unlink"}

LinkedTo(S, f) == {u \in Users : <<u, f>> \in S}
Named(P, ids) == {u \in Users : \E p \in ids : P[p].to = u}

Halfway(P, S, r, x) ==
    LET links == LinkedTo(S, Call[r].file)
    IN  /\ x.pc \in {"op", "put"} => links = Named(P, x.doc.ids)
        /\ x.pc = "link" => links \cup {Head(x.todo).to} = Named(P, x.doc.ids)
        /\ x.pc = "unlink" => links = x.users

\* The links of the file of request r, as far as r has got.
LinksOf(F, P, S, r, x) == IF Relinking(r, x) THEN Halfway(P, S, r, x)
                          ELSE LinksExact(F, P, S, Call[r].file)

LinksFollow ==
    \A f \in Files : Whole(req, f) =>
        /\ \A r \in Requests : (Call[r].file = f /\ Relinking(r, req[r])) =>
              Halfway(perms, shared, r, req[r])
        /\ \/ \E r \in Requests : Call[r].file = f /\ Relinking(r, req[r])
           \/ LinksExact(files, perms, shared, f)

Serial == Alone /\ Unmarked /\ Served /\ LinksFollow

-----------------------------------------------------------------------------
\* One request at a time

LEMMA NoneInFlight ==
    ASSUME Alone, Cardinality(InFlight) < 1
    PROVE  InFlight = {}
<1>1. ASSUME NEW r \in InFlight PROVE FALSE
  <2>1. InFlight = {r}
    BY DEF Alone
  <2>2. Cardinality({r}) = 1
    BY FS_Singleton
  <2>. QED  BY <2>1, <2>2
<1>. QED  BY <1>1

\* The request that takes a step is the only one under way.
Only(r) == r \in Requests /\ req[r].pc \in Busy \cup {"idle"} /\ InFlight \subseteq {r}

LEMMA OnlyServed ==
    ASSUME Alone, NEW r \in Requests, req[r].pc \in Busy
    PROVE  Only(r)
  BY DEF Alone, InFlight, Only

LEMMA OnlyBegun ==
    ASSUME MaxInFlight = 1, Alone, NEW r \in Requests, Begin(r)
    PROVE  Only(r)
  BY NoneInFlight DEF Begin, Only

\* What a step of that request does to req.
LEMMA OthersWait ==
    ASSUME Typed, NEW r, Only(r), NEW x, Become(r, x)
    PROVE  /\ req'[r] = x
           /\ \A s \in Requests : s # r => req'[s] = req[s] /\ req[s].pc \notin Busy
           /\ Alone'
<1>1. /\ req'[r] = x
      /\ \A s \in Requests : s # r => req'[s] = req[s] /\ req[s].pc \notin Busy
  BY DEF Only, Become, Typed, TypeOK, InFlight
<1>. QED  BY <1>1 DEF Alone, InFlight

LEMMA WholeBefore ==
    ASSUME Typed, NEW r, Only(r), NEW x, Become(r, x), NEW f, Whole(req', f)
    PROVE  Whole(req, f)
<1>1. r \in Requests /\ req[r].pc \notin {"lost", "400"}
  BY DEF Only, Busy
<1>. QED  BY <1>1, OthersWait DEF Whole

LEMMA LinksKept ==
    ASSUME Typed, LinksFollow, NEW r, Only(r), NEW x, Become(r, x),
           \A g \in Files : (g # Call[r].file /\ LinksExact(files, perms, shared, g))
               => LinksExact(files', perms', shared', g),
           (/\ Whole(req, Call[r].file) /\ ~(Call[r].kind = "access" /\ x.pc = "400")
            /\ LinksOf(files, perms, shared, r, req[r]))
               => LinksOf(files', perms', shared', r, x)
    PROVE  LinksFollow'
<1>1. /\ req'[r] = x /\ r \in Requests
      /\ \A s \in Requests : s # r => req'[s] = req[s] /\ req[s].pc \notin Busy
  BY OthersWait DEF Only
<1>2. \A s \in Requests : Relinking(s, req[s]) => s = r
  BY <1>1 DEF Relinking, Busy
<1>3. ASSUME NEW f \in Files, Whole(req', f), Call[r].file # f
      PROVE  /\ \A s \in Requests : Call[s].file = f => ~Relinking(s, req'[s])
             /\ LinksExact(files', perms', shared', f)
  <2>1. Whole(req, f)
    BY <1>3, WholeBefore
  <2>. QED  BY <1>1, <1>2, <1>3, <2>1 DEF LinksFollow
<1>4. ASSUME NEW f \in Files, Whole(req', f), Call[r].file = f
      PROVE  /\ \A s \in Requests : Relinking(s, req'[s]) => s = r
             /\ LinksOf(files', perms', shared', r, x)
  <2>1. Whole(req, f)
    BY <1>4, WholeBefore
  <2>2. LinksOf(files, perms, shared, r, req[r])
    BY <1>1, <1>2, <1>4, <2>1 DEF LinksFollow, LinksOf
  <2>3. ~(Call[r].kind = "access" /\ x.pc = "400")
    BY <1>1, <1>4 DEF Whole
  <2>. QED  BY <1>1, <1>2, <1>4, <2>1, <2>2, <2>3
<1>. HIDE DEF Only
<1>5. LinksOf(files', perms', shared', r, x) <=>
         IF Relinking(r, req'[r]) THEN Halfway(perms', shared', r, req'[r])
         ELSE LinksExact(files', perms', shared', Call[r].file)
  BY <1>1 DEF LinksOf
<1>. QED  BY <1>1, <1>3, <1>4, <1>5 DEF LinksFollow

LEMMA SerialStep ==
    ASSUME Typed, Serial, NEW r, Only(r), NEW x, Become(r, x),
           Unmarked',
           x.pc \in Busy => /\ Attends(files', perms', r, x)
                            /\ Walk(files', perms', now', r, x),
           LinksFollow'
    PROVE  Serial'
<1>1. /\ req'[r] = x /\ Alone'
      /\ \A s \in Requests : s # r => req'[s] = req[s] /\ req[s].pc \notin Busy
  BY OthersWait
<1>2. Served'
  BY <1>1 DEF Served, InFlight
<1>. QED  BY <1>1, <1>2 DEF Serial

\* A step that reads.
LEMMA ReadingStep ==
    ASSUME Typed, Serial, NEW r, Only(r), NEW x, Become(r, x),
           UNCHANGED <<files, perms, shared>>,
           x.pc \in Busy => /\ Attends(files, perms, r, x)
                            /\ Walk(files, perms, now', r, x),
           (LinksOf(files, perms, shared, r, req[r])
            /\ ~(Call[r].kind = "access" /\ x.pc = "400"))
               => LinksOf(files, perms, shared, r, x)
    PROVE  Serial'
<1>1. LinksFollow'
  BY LinksKept DEF Serial, LinksOf
<1>2. Unmarked'
  BY DEF Serial, Unmarked
<1>. QED  BY <1>1, <1>2, SerialStep

-----------------------------------------------------------------------------
\* One lemma per action: the steps that read

LEMMA AtHand ==
    ASSUME Typed, Serial, NEW r \in Requests, req[r].pc \in Busy
    PROVE  /\ Only(r) /\ req[r] \in RequestState /\ OnTrack(files, r, req[r])
           /\ Attends(files, perms, r, req[r])
           /\ Walk(files, perms, now, r, req[r])
<1>1. r \in InFlight
  BY DEF InFlight
<1>. QED  BY <1>1, OnlyServed DEF Serial, Served, Typed, TypeOK

\* A handler that ends, other than with a refusal half-way through a patch.
LEMMA AnswerSerial ==
    ASSUME Typed, Serial, NEW r \in Requests, req[r].pc \in Busy,
           NEW code \in Answers, Answer(r, code),
           ~Relinking(r, req[r]) \/ (Call[r].kind = "access" /\ code = "400"),
           Call[r].kind = "create" => code # "ok",
           UNCHANGED <<files, perms, shared>>
    PROVE  Serial'
<1>. DEFINE x == [Rest(r) EXCEPT !.pc = code, !.told = req[r].told]
<1>1. x.pc = code /\ Become(r, x) /\ code \notin Busy /\ code # "audience"
  BY DEF Rest, Answer, Answers, Busy
<1>. HIDE DEF x
<1>2. ~Relinking(r, x)
  BY <1>1 DEF Relinking, Busy
<1>3. Only(r)
  BY AtHand
<1>4. (LinksOf(files, perms, shared, r, req[r])
       /\ ~(Call[r].kind = "access" /\ x.pc = "400"))
          => LinksOf(files, perms, shared, r, x)
  BY <1>1, <1>2 DEF LinksOf
<1>. QED  BY <1>1, <1>3, <1>4, ReadingStep

LEMMA BeginSerial ==
    ASSUME MaxInFlight = 1, Typed, Serial, NEW r \in Requests, Begin(r)
    PROVE  Serial'
<1>. DEFINE pc == CASE Call[r].kind = "create" -> "exists"
                    [] Call[r].kind = "access" -> "writecheck"
                    [] OTHER -> "readcheck"
            x == [req[r] EXCEPT !.pc = pc]
<1>1. req[r] = Rest(r) /\ req[r] \in RequestState
  BY DEF Begin, Typed, TypeOK, OnTrack
<1>2. /\ x.pc = pc /\ x.seen = Unread /\ x.at = Call[r].file /\ x.role = "none"
      /\ pc \in {"exists", "writecheck", "readcheck"}
      /\ pc = "exists" <=> Call[r].kind = "create"
      /\ pc = "writecheck" <=> Call[r].kind = "access"
  BY <1>1 DEF Rest
<1>3. Become(r, x) /\ UNCHANGED <<files, perms, shared, now>>
  BY DEF Begin, store
<1>. HIDE DEF x, pc
<1>4. Attends(files, perms, r, x)
  BY <1>2 DEF Attends, Acting, Target
<1>5. Walk(files, perms, now', r, x)
  BY <1>2, CallTypes DEF Walk, Target, Ancestors
<1>6. LinksOf(files, perms, shared, r, req[r]) => LinksOf(files, perms, shared, r, x)
  <2>1. ~Relinking(r, x) /\ ~Relinking(r, req[r])
    BY <1>2 DEF Relinking, Begin
  <2>. QED  BY <2>1 DEF LinksOf
<1>7. Only(r)
  BY OnlyBegun DEF Serial
<1>. QED  BY <1>2, <1>3, <1>4, <1>5, <1>6, <1>7, ReadingStep

\* Before the check has succeeded the request owes the links nothing.
LEMMA NotRelinking ==
    ASSUME NEW r, NEW F, NEW P, NEW S, NEW x, NEW y,
           ~Relinking(r, x), ~Relinking(r, y), LinksOf(F, P, S, r, x)
    PROVE  LinksOf(F, P, S, r, y)
  BY DEF LinksOf

LEMMA FetchSerial ==
    ASSUME Typed, Serial, NEW r \in Requests, Fetch(r)
    PROVE  Serial'
<1>. DEFINE q == req[r]
            x == [q EXCEPT !.seen = files[q.at]]
<1>1. /\ q.pc \in Reading /\ q.pc \in Busy
      /\ Become(r, x) /\ UNCHANGED <<files, perms, shared, now>>
  BY DEF Fetch, Reading, Busy, store
<1>2. /\ Only(r) /\ q \in RequestState
      /\ Attends(files, perms, r, q) /\ Walk(files, perms, now, r, q)
  BY <1>1, AtHand
<1>3. /\ x.pc = q.pc /\ x.at = q.at /\ x.seen = files[q.at] /\ x.role = q.role
      /\ x.doc = q.doc
  BY <1>2 DEF RequestState
<1>. HIDE DEF q, x
<1>4. Attends(files, perms, r, x) /\ Walk(files, perms, now', r, x)
  BY <1>1, <1>2, <1>3 DEF Attends, Walk, Reading
<1>5. ~Relinking(r, x) /\ ~Relinking(r, q)
  BY <1>1, <1>3 DEF Relinking, Reading
<1>. QED
  BY <1>1, <1>2, <1>3, <1>4, <1>5, ReadingStep, NotRelinking DEF q, Reading

LEMMA CheckExistsSerial ==
    ASSUME Typed, Serial, NEW r \in Requests, CheckExists(r)
    PROVE  Serial'
<1>. DEFINE q == req[r]
            put == [q EXCEPT !.pc = "put"]
            up == [q EXCEPT !.pc = "writecheck", !.at = Call[r].parent]
<1>1. q.pc = "exists" /\ q.pc \in Busy /\ UNCHANGED <<files, perms, shared, now>>
  BY DEF CheckExists, Busy, store
<1>2. /\ Only(r) /\ q \in RequestState /\ OnTrack(files, r, q)
      /\ Attends(files, perms, r, q)
  BY <1>1, AtHand
<1>3. Call[r].kind = "create" /\ q.seen = Unread /\ q.role = "none"
      /\ Target(r) = Call[r].parent /\ ~Relinking(r, q)
  BY <1>1, <1>2 DEF OnTrack, Reading, Attends, Target, Relinking
<1>4. CASE Answer(r, "400")
  BY <1>1, <1>3, <1>4, AnswerSerial DEF Answers
<1>5. CASE files[Call[r].file] = Absent /\ Call[r].parent = Root /\ Become(r, put)
  <2>1. put.pc = "put" /\ put.seen = Unread /\ put.role = "none"
    BY <1>2, <1>3 DEF RequestState
  <2>. HIDE DEF put
  <2>2. Attends(files, perms, r, put) /\ Walk(files, perms, now', r, put)
    BY <1>3, <1>5, <2>1 DEF Attends, Walk
  <2>3. ~Relinking(r, put)
    BY <1>3, <2>1 DEF Relinking
  <2>. QED  BY <1>1, <1>2, <1>3, <1>5, <2>1, <2>2, <2>3, ReadingStep, NotRelinking
<1>6. CASE files[Call[r].file] = Absent /\ Call[r].parent # Root /\ Become(r, up)
  <2>1. up.pc = "writecheck" /\ up.seen = Unread /\ up.at = Target(r)
    BY <1>2, <1>3 DEF RequestState
  <2>. HIDE DEF up
  <2>2. Attends(files, perms, r, up)
    BY <1>3, <1>6, <2>1 DEF Attends, Acting
  <2>3. Walk(files, perms, now', r, up)
    BY <1>3, <1>6, <2>1, CallTypes DEF Walk, Ancestors
  <2>4. ~Relinking(r, up)
    BY <1>3, <2>1 DEF Relinking
  <2>. QED  BY <1>1, <1>2, <1>3, <1>6, <2>1, <2>2, <2>3, <2>4, ReadingStep, NotRelinking
<1>. QED  BY <1>4, <1>5, <1>6 DEF CheckExists

\* The ancestors, one level up.
LEMMA AncestorSelf ==
    ASSUME NEW F, NEW f \in Files
    PROVE  f \in Ancestors(F, f)
  BY DEF Ancestors

LEMMA AncestorUp ==
    ASSUME NEW F, NEW f \in Files, NEW g \in Ancestors(F, f),
           F[g] # Absent, F[g].parent # Root, F[g].parent \in Files
    PROVE  /\ F[g].parent \in Ancestors(F, f)
           /\ Ancestors(F, g) \subseteq {g} \cup Ancestors(F, F[g].parent)
<1>1. F[g].parent \in Ancestors(F, f)
  BY DEF Ancestors, Upward
<1>2. ASSUME NEW h \in Ancestors(F, g), h # g,
             NEW S \in SUBSET Files, F[g].parent \in S, Upward(F, S)
      PROVE  h \in S
  <2>1. Upward(F, S \cup {g}) /\ g \in S \cup {g} /\ S \cup {g} \subseteq Files
    BY <1>2 DEF Upward, Ancestors
  <2>2. h \in S \cup {g}
    BY <2>1 DEF Ancestors
  <2>. QED  BY <1>2, <2>2
<1>3. \A h \in Ancestors(F, g) : h \in Files
  BY DEF Ancestors
<1>. QED  BY <1>1, <1>2, <1>3 DEF Ancestors

\* A record that gives a user no role gives him none later either.
LEMMA NoRoleIsSilent ==
    ASSUME Typed, Inv, Serial, NEW g \in Files, files[g] # Absent,
           ~files[g].deleted, NEW u \in Users, RoleAt(files[g], u) = "none"
    PROVE  Silent(files, perms, now, g, u)
<1>. DEFINE d == files[g]
            live == {p \in Listed(d.ids) : Live(perms[p])}
            own  == {p \in live : perms[p].to = u}
            any  == {p \in live : perms[p].to = Anyone}
<1>1. d \in FileRecord
  BY DEF Typed, TypeOK
<1>2. \A p \in d.ids : p \in PermIds /\ perms[p] \in Permission /\ perms[p].deleted = FALSE
  <2>1. \A p \in d.ids : perms[p] # NoPerm /\ ~perms[p].deleted
    BY DEF Inv, Sound, Serial, Unmarked
  <2>2. \A p \in d.ids : p \in PermIds /\ perms[p] \in Permission
    BY <1>1, <2>1 DEF FileRecord, Typed, TypeOK
  <2>. QED  BY <2>1, <2>2 DEF Permission
<1>3. live \subseteq PermIds /\ \A p \in live : perms[p].role \in Roles
  BY <1>1, <1>2 DEF Listed, FileRecord, Permission
<1>4. d.owner # u /\ own = {} /\ any = {}
  <2>1. own # {} => (CHOOSE p \in own : TRUE) \in own
    OBVIOUS
  <2>2. any # {} => (CHOOSE p \in any : TRUE) \in any
    OBVIOUS
  <2>3. /\ own # {} => perms[CHOOSE p \in own : TRUE].role \in Roles
        /\ any # {} => perms[CHOOSE p \in any : TRUE].role \in Roles
    <3>. HIDE DEF live
    <3>. QED  BY <1>3, <2>1, <2>2
  <2>. HIDE DEF live
  <2>. QED  BY <2>3 DEF RoleAt, Roles, live
<1>5. ASSUME NEW p \in d.ids, perms[p].to \in {u, Anyone}
      PROVE  perms[p].expires # 0 /\ perms[p].expires < now
  <2>1. p \notin live
    BY <1>4, <1>5
  <2>2. ~Live(perms[p])
    BY <1>2, <2>1, SentinelsDistinct DEF Listed
  <2>. QED  BY <1>2, <2>2 DEF Live
<1>. QED  BY <1>4, <1>5 DEF Silent

LEMMA CheckSerial ==
    ASSUME Typed, Inv, Serial, NEW r \in Requests, Check(r)
    PROVE  Serial'
<1>. DEFINE q == req[r]
            role == RoleAt(q.seen, Call[r].user)
            up == [q EXCEPT !.at = q.seen.parent, !.seen = Unread]
            on == [q EXCEPT !.pc = AfterCheck(r), !.role = role,
                            !.at = Call[r].file, !.seen = Unread]
<1>1. /\ q.pc \in {"readcheck", "writecheck"} /\ q.pc \in Busy /\ q.seen # Unread
      /\ UNCHANGED <<files, perms, shared, now>>
  BY DEF Check, Fetched, Busy, store
<1>2. /\ Only(r) /\ q \in RequestState /\ OnTrack(files, r, q)
      /\ Attends(files, perms, r, q) /\ Walk(files, perms, now, r, q)
  BY <1>1, AtHand
<1>3. q.at \in Files /\ q.seen = files[q.at] /\ ~Relinking(r, q)
  BY <1>1, <1>2 DEF RequestState, Attends, Relinking
<1>4. CASE Answer(r, "404") \/ Answer(r, "403")
  BY <1>1, <1>3, <1>4, AnswerSerial DEF Answers
<1>5. CASE /\ q.seen # Absent /\ ~q.seen.deleted /\ role = "none"
           /\ q.seen.parent # Root /\ Become(r, up)
  <2>1. q.seen \in FileRecord /\ q.seen.parent \in Files
    BY <1>1, <1>2, <1>5 DEF RequestState, FileRecord
  <2>2. /\ up.pc = q.pc /\ up.seen = Unread /\ up.at = q.seen.parent
        /\ up.role = q.role /\ up.doc = q.doc
    BY <1>2 DEF RequestState
  <2>3. Silent(files, perms, now, q.at, Call[r].user)
    BY <1>3, <1>5, NoRoleIsSilent, CallTypes
  <2>. HIDE DEF up, role
  <2>4. CASE q.pc = "readcheck"
    <3>1. Attends(files, perms, r, up) /\ Walk(files, perms, now', r, up)
      BY <1>1, <1>2, <2>2, <2>4 DEF Attends, Walk, Acting
    <3>2. ~Relinking(r, up)
      BY <2>2, <2>4 DEF Relinking
    <3>. QED  BY <1>1, <1>2, <1>3, <1>5, <2>2, <2>4, <3>1, <3>2, ReadingStep, NotRelinking
  <2>5. CASE q.pc = "writecheck"
    <3>1. Target(r) \in Files /\ q.at \in Ancestors(files, Target(r))
      <4>1. Target(r) # Root
        BY <2>5, Before DEF Entitled
      <4>. QED  BY <1>2, <2>5, <4>1, CallTypes DEF Walk, Target
    <3>2. ~files[Target(r)].deleted
      BY <1>2, <1>3, <1>5, <2>5 DEF Attends
    <3>3. Attends(files, perms, r, up)
      BY <1>2, <2>2, <2>5, <3>2 DEF Attends, Acting
    <3>4. /\ q.seen.parent \in Ancestors(files, Target(r))
          /\ Ancestors(files, q.at) \subseteq {q.at} \cup Ancestors(files, q.seen.parent)
      BY <1>3, <1>5, <2>1, <3>1, AncestorUp
    <3>5. Walk(files, perms, now', r, up)
      BY <1>1, <1>2, <2>2, <2>3, <2>5, <3>4 DEF Walk
    <3>6. ~Relinking(r, up)
      BY <2>2, <2>5 DEF Relinking
    <3>. QED
      BY <1>1, <1>2, <1>3, <1>5, <2>2, <2>5, <3>3, <3>5, <3>6, ReadingStep, NotRelinking
  <2>. QED  BY <1>1, <2>4, <2>5
<1>6. CASE /\ q.seen # Absent /\ ~q.seen.deleted /\ role # "none"
           /\ HasRole(Minimum(q.pc), role) /\ Become(r, on)
  <2>1. q.seen \in FileRecord
    BY <1>1, <1>2, <1>6 DEF RequestState
  <2>2. role \in Roles
    BY <1>6, <2>1, RoleTyped, CallTypes DEF Typed
  <2>3. /\ on.pc = AfterCheck(r) /\ on.seen = Unread /\ on.at = Call[r].file
        /\ on.role = role /\ on.doc = q.doc
    BY <1>2 DEF RequestState
  <2>. HIDE DEF on, role
  <2>4. CASE q.pc = "readcheck"
    <3>1. on.pc = "read"
      BY <2>3, <2>4 DEF AfterCheck
    <3>2. Attends(files, perms, r, on) /\ Walk(files, perms, now', r, on)
      BY <2>3, <3>1 DEF Attends, Walk, Acting
    <3>3. ~Relinking(r, on)
      BY <3>1 DEF Relinking
    <3>. QED  BY <1>1, <1>2, <1>3, <1>6, <3>1, <3>2, <3>3, ReadingStep, NotRelinking
  <2>5. CASE q.pc = "writecheck"
    <3>1. Target(r) # Root /\ Call[r].kind \in {"create", "patch", "access", "delete"}
      BY <1>2, <2>5, CallTypes, Before DEF Entitled, OnTrack, Kinds
    <3>2. role \in May
      BY <1>6, <2>2, <2>5, WriterMay DEF Minimum
    <3>3. /\ on.pc = IF Call[r].kind \in {"create", "patch"} THEN "put" ELSE "get"
          /\ on.pc \in {"put", "get"}
      BY <2>3, <2>5 DEF AfterCheck
    <3>4. Call[r].kind = "access" => files[Call[r].file] # Absent /\ ~files[Call[r].file].deleted
      <4>1. CASE q.at = Target(r)
        BY <1>3, <1>6, <4>1 DEF Target
      <4>2. CASE q.at # Target(r)
        <5>1. files[Target(r)] # Absent
          BY <2>5, <4>2, Before DEF Entitled
        <5>. QED  BY <1>2, <2>5, <4>2, <5>1 DEF Attends, Target
      <4>. QED  BY <4>1, <4>2
    <3>5. Attends(files, perms, r, on)
      BY <1>2, <2>3, <2>5, <3>1, <3>2, <3>3, <3>4 DEF Attends
    <3>6. Walk(files, perms, now', r, on)
      BY <3>3 DEF Walk
    <3>7. ~Relinking(r, on)
      BY <3>1, <3>3 DEF Relinking
    <3>. QED  BY <1>1, <1>2, <1>3, <1>6, <3>3, <3>5, <3>6, <3>7, ReadingStep, NotRelinking
  <2>. QED  BY <1>1, <2>4, <2>5
<1>. QED  BY <1>4, <1>5, <1>6 DEF Check

LEMMA ReadSerial ==
    ASSUME Typed, Serial, NEW r \in Requests, Read(r)
    PROVE  Serial'
<1>. DEFINE q == req[r]
            again == [q EXCEPT !.pc = "writecheck", !.seen = Unread]
            doc == [q.seen EXCEPT !.edits = @ \cup {r}]
            edited == [q EXCEPT !.pc = "writecheck", !.seen = Unread, !.doc = doc]
<1>1. /\ q.pc = "read" /\ q.pc \in Busy /\ q.seen # Unread
      /\ UNCHANGED <<files, perms, shared, now>>
  BY DEF Read, Fetched, Busy, store
<1>2. /\ Only(r) /\ q \in RequestState /\ OnTrack(files, r, q)
      /\ Attends(files, perms, r, q)
  BY <1>1, AtHand
<1>3. /\ q.at = Call[r].file /\ q.seen = files[q.at] /\ q.seen # Absent
      /\ Call[r].kind \in {"read", "patch", "delete"} /\ Target(r) = q.at
      /\ q.at \in Files /\ ~Relinking(r, q)
  BY <1>1, <1>2, CallTypes DEF OnTrack, Attends, Relinking, Target
<1>4. ASSUME NEW x, x.pc = "writecheck", x.seen = Unread, x.at = q.at, Become(r, x),
             Call[r].kind = "patch" => x.doc = doc, Call[r].kind \in {"patch", "delete"}
      PROVE  Serial'
  <2>1. Attends(files, perms, r, x)
    BY <1>3, <1>4 DEF Attends, Acting
  <2>2. Walk(files, perms, now', r, x)
    BY <1>3, <1>4, AncestorSelf DEF Walk
  <2>3. ~Relinking(r, x)
    BY <1>4 DEF Relinking
  <2>. QED  BY <1>1, <1>2, <1>3, <1>4, <2>1, <2>2, <2>3, ReadingStep, NotRelinking
<1>5. CASE Call[r].kind = "read"
  BY <1>1, <1>3, <1>5, AnswerSerial DEF Read, Answers
<1>6. CASE Call[r].kind = "delete"
  <2>1. again.pc = "writecheck" /\ again.seen = Unread /\ again.at = q.at
    BY <1>2 DEF RequestState
  <2>2. Become(r, again)
    BY <1>6 DEF Read
  <2>. HIDE DEF again
  <2>. QED  BY <1>4, <1>6, <2>1, <2>2
<1>7. CASE Call[r].kind = "patch"
  <2>. HIDE DEF doc
  <2>1. /\ edited.pc = "writecheck" /\ edited.seen = Unread /\ edited.at = q.at
        /\ edited.doc = doc
    BY <1>2 DEF RequestState
  <2>2. Become(r, edited)
    BY <1>7 DEF Read, doc
  <2>. HIDE DEF edited
  <2>. QED  BY <1>4, <1>7, <2>1, <2>2
<1>. QED  BY <1>3, <1>5, <1>6, <1>7

\* The grants of a stored file.
LEMMA StoredGrants ==
    ASSUME Typed, Inv, Serial, NEW f \in Files, files[f] # Absent
    PROVE  /\ files[f] \in FileRecord /\ files[f].ids \subseteq PermIds
           /\ \A p \in files[f].ids : /\ perms[p] \in Permission
                                      /\ perms[p].deleted = FALSE
           /\ \A p, q \in files[f].ids : perms[p].to = perms[q].to => p = q
           /\ GrantsOf(perms, files[f].ids) \subseteq AclGrant
<1>1. files[f] \in FileRecord
  BY DEF Typed, TypeOK
<1>2. files[f].ids \subseteq PermIds
  BY <1>1 DEF FileRecord
<1>3. \A p \in files[f].ids : perms[p] # NoPerm /\ ~perms[p].deleted
  BY DEF Inv, Sound, Serial, Unmarked
<1>4. \A p \in files[f].ids : perms[p] \in Permission
  BY <1>2, <1>3 DEF Typed, TypeOK
<1>5. \A m \in Permission : GrantOf(m) \in AclGrant /\ m.deleted \in BOOLEAN
  BY DEF Permission, GrantOf, AclGrant, Abstract!AclGrant, Abstract!Role, Roles
<1>6. \A p, q \in files[f].ids : perms[p].to = perms[q].to => p = q
  BY DEF Inv, Sound
<1>. QED  BY <1>1, <1>2, <1>3, <1>4, <1>5, <1>6 DEF GrantsOf

LEMMA GetSerial ==
    ASSUME Typed, Inv, Serial, NEW r \in Requests, Get(r)
    PROVE  Serial'
<1>. DEFINE q == req[r]
            f == Call[r].file
            ops == Call[r].ops
            mem == [p \in PermIds |-> IF p \in q.seen.ids THEN perms[p] ELSE NoPerm]
            work == [q EXCEPT !.pc = AfterOps(ops), !.seen = Unread, !.doc = q.seen,
                              !.mem = mem, !.todo = ops]
            gone == [q.seen EXCEPT !.deleted = TRUE, !.deletedBy = Call[r].user]
            remove == [q EXCEPT !.pc = "bin", !.seen = Unread, !.doc = gone]
<1>1. /\ q.pc = "get" /\ q.pc \in Busy /\ q.seen # Unread
      /\ UNCHANGED <<files, perms, shared, now>>
  BY DEF Get, Fetched, Busy, store
<1>2. /\ Only(r) /\ q \in RequestState /\ OnTrack(files, r, q)
      /\ Attends(files, perms, r, q)
  BY <1>1, AtHand
<1>3. /\ q.at = f /\ q.seen = files[f] /\ f \in Files /\ ops \in Seq(AccessOp)
      /\ Call[r].kind \in {"access", "delete"} /\ ~Relinking(r, q)
      /\ Target(r) = f /\ Target(r) # Root /\ q.role \in May
  <2>1. Target(r) = f /\ f \in Files /\ f # Root
    BY <1>1, <1>2, CallTypes, SentinelsDistinct DEF OnTrack, Target
  <2>. QED  BY <1>1, <1>2, <2>1, CallTypes DEF OnTrack, Attends, Relinking, Acting
<1>4. CASE Answer(r, "404") \/ Answer(r, "403")
  BY <1>1, <1>3, <1>4, AnswerSerial DEF Answers
<1>5. CASE q.seen # Absent /\ Call[r].kind = "delete" /\ q.role = "owner" /\ Become(r, remove)
  <2>. HIDE DEF gone
  <2>1. /\ remove.pc = "bin" /\ remove.seen = Unread /\ remove.doc = gone
        /\ remove.role = "owner"
    BY <1>2, <1>5 DEF RequestState
  <2>. HIDE DEF remove
  <2>2. Attends(files, perms, r, remove) /\ Walk(files, perms, now', r, remove)
    BY <1>3, <1>5, <2>1 DEF Attends, Walk, Acting, gone, May
  <2>3. ~Relinking(r, remove)
    BY <1>5, <2>1 DEF Relinking
  <2>. QED  BY <1>1, <1>2, <1>3, <1>5, <2>1, <2>2, <2>3, ReadingStep, NotRelinking
<1>6. CASE q.seen # Absent /\ Call[r].kind = "access" /\ Become(r, work)
  <2>1. /\ files[f] \in FileRecord /\ files[f].ids \subseteq PermIds
        /\ \A p \in files[f].ids : perms[p].deleted = FALSE
        /\ GrantsOf(perms, files[f].ids) \subseteq AclGrant
    BY <1>3, <1>6, StoredGrants
  <2>2. /\ work.pc = AfterOps(ops) /\ work.seen = Unread /\ work.doc = files[f]
        /\ work.mem = mem /\ work.todo = ops /\ work.role = q.role
    <3>. HIDE DEF mem
    <3>. QED  BY <1>2, <1>3 DEF RequestState
  <2>3. /\ work.pc \in {"op", "put"}
        /\ work.pc = "put" => ops = <<>>
    BY <2>2 DEF AfterOps
  <2>4. \A p \in files[f].ids : mem[p] = perms[p]
    BY <1>3, <2>1
  <2>. HIDE DEF work, mem
  <2>5. Patching(files, perms, r, work)
    <3>1. files[f] # Absent /\ ~files[f].deleted
      BY <1>1, <1>2, <1>6 DEF Attends
    <3>2. work.doc = [files[f] EXCEPT !.ids = work.doc.ids]
      BY <2>1, <2>2 DEF FileRecord
    <3>3. Len(ops) \in Nat /\ Len(ops) - Len(work.todo) = 0 /\ work.pc # "link"
      BY <1>3, <2>2, <2>3
    <3>4. \A i \in 1..Len(ops) : ops[0 + i] = ops[i]
      BY <3>3
    <3>5. GrantsOf(perms, files[f].ids) = Patched(GrantsOf(perms, files[f].ids), ops, 0)
      BY <1>3, <2>1, PatchedNone
    <3>. QED  BY <2>1, <2>2, <2>3, <2>4, <3>1, <3>2, <3>3, <3>4, <3>5 DEF Patching
  <2>6. Attends(files, perms, r, work) /\ Walk(files, perms, now', r, work)
    BY <1>3, <1>6, <2>2, <2>3, <2>5 DEF Attends, Walk
  <2>7. LinksOf(files, perms, shared, r, q) => LinksOf(files, perms, shared, r, work)
    <3>1. LinksExact(files, perms, shared, f) =>
             LinkedTo(shared, f) = Named(perms, files[f].ids)
      BY <1>1, <1>2, <1>6 DEF Attends, LinksExact, LinkedTo, Named, Link
    <3>2. Relinking(r, work)
      BY <1>6, <2>3 DEF Relinking
    <3>. QED  BY <1>3, <2>2, <2>3, <3>1, <3>2 DEF LinksOf, Halfway
  <2>. QED  BY <1>1, <1>2, <1>6, <2>3, <2>6, <2>7, ReadingStep
<1>. QED  BY <1>3, <1>4, <1>5, <1>6 DEF Get

LEMMA RejectPermissionSerial ==
    ASSUME Typed, Serial, NEW r \in Requests, RejectPermission(r)
    PROVE  Serial'
<1>1. /\ req[r].pc = "op" /\ req[r].pc \in Busy /\ Answer(r, "400")
      /\ UNCHANGED <<files, perms, shared>>
  BY DEF RejectPermission, Busy, store
<1>2. Call[r].kind = "access"
  BY <1>1 DEF Typed, OnTrack
<1>. QED  BY <1>1, <1>2, AnswerSerial DEF Answers

LEMMA AddToBinSerial ==
    ASSUME Typed, Serial, NEW r \in Requests, AddToBin(r)
    PROVE  Serial'
<1>. DEFINE q == req[r]
            x == [q EXCEPT !.pc = "put"]
<1>1. /\ q.pc = "bin" /\ q.pc \in Busy /\ Become(r, x)
      /\ UNCHANGED <<files, perms, shared, now>>
  BY DEF AddToBin, Busy
<1>2. /\ Only(r) /\ q \in RequestState /\ OnTrack(files, r, q)
      /\ Attends(files, perms, r, q)
  BY <1>1, AtHand
<1>3. Call[r].kind = "delete" /\ q.seen = Unread
  BY <1>1, <1>2 DEF OnTrack, Reading
<1>4. x.pc = "put" /\ x.seen = q.seen /\ x.doc = q.doc /\ x.role = q.role /\ x.at = q.at
  BY <1>2 DEF RequestState
<1>. HIDE DEF x, q
<1>5. Attends(files, perms, r, x) /\ Walk(files, perms, now', r, x)
  BY <1>1, <1>2, <1>3, <1>4 DEF Attends, Walk, Acting
<1>6. ~Relinking(r, x) /\ ~Relinking(r, q)
  BY <1>1, <1>3, <1>4 DEF Relinking
<1>. QED  BY <1>1, <1>2, <1>3, <1>4, <1>5, <1>6, ReadingStep, NotRelinking DEF q

LEMMA ScanLinksSerial ==
    ASSUME Typed, Serial, NEW r \in Requests, ScanLinks(r)
    PROVE  Serial'
<1>. DEFINE q == req[r]
            found == Linked(Call[r].file)
            pc == IF found = {} THEN "audience" ELSE "unlink"
            x == [q EXCEPT !.users = found, !.pc = pc]
<1>1. /\ q.pc = "scan" /\ q.pc \in Busy /\ Become(r, x)
      /\ UNCHANGED <<files, perms, shared, now>>
  BY DEF ScanLinks, Busy, store
<1>2. /\ Only(r) /\ q \in RequestState /\ OnTrack(files, r, q)
      /\ Attends(files, perms, r, q)
  BY <1>1, AtHand
<1>3. Call[r].kind = "delete" /\ q.seen = Unread
  BY <1>1, <1>2 DEF OnTrack, Reading
<1>4. /\ x.pc = pc /\ x.seen = q.seen /\ x.role = q.role /\ x.users = found
      /\ pc \in {"audience", "unlink"}
      /\ pc = "audience" => found = {}
  BY <1>2 DEF RequestState
<1>5. found = LinkedTo(shared, Call[r].file)
  BY DEF Linked, LinkedTo, Link
<1>. HIDE DEF x, q, found, pc
<1>6. Attends(files, perms, r, x) /\ Walk(files, perms, now', r, x)
  BY <1>1, <1>2, <1>3, <1>4 DEF Attends, Walk, Acting
<1>7. LinksOf(files, perms, shared, r, x)
  <2>1. CASE pc = "audience"
    BY <1>1, <1>2, <1>4, <1>5, <2>1
       DEF Attends, LinksOf, Relinking, LinksExact, LinkedTo, Link
  <2>2. CASE pc = "unlink"
    BY <1>4, <1>5, <2>2 DEF LinksOf, Relinking, Halfway
  <2>. QED  BY <1>4, <2>1, <2>2
<1>. QED  BY <1>1, <1>2, <1>3, <1>6, <1>7, ReadingStep DEF q

LEMMA AudienceSerial ==
    ASSUME Typed, Serial, NEW r \in Requests, Audience(r)
    PROVE  Serial'
<1>. DEFINE q == req[r]
            all == q.users \cup (IF q.seen = Absent THEN {} ELSE UsersOf(q.seen))
            up == [q EXCEPT !.users = all, !.seen = Unread, !.at = q.seen.parent]
            done == Telling([Rest(r) EXCEPT !.pc = "ok", !.told = q.told],
                            EventOf(Call[r].kind), all)
<1>1. /\ q.pc = "audience" /\ q.pc \in Busy
      /\ Become(r, up) \/ Become(r, done)
      /\ UNCHANGED <<files, perms, shared, now>>
  BY DEF Audience, Fetched, Busy, store
<1>2. Only(r) /\ q \in RequestState
  BY <1>1, AtHand
<1>3. up.pc = "audience" /\ up.seen = Unread /\ done.pc = "ok"
  BY <1>1, <1>2 DEF RequestState, Rest, Telling
<1>4. ~Relinking(r, up) /\ ~Relinking(r, done) /\ ~Relinking(r, q) /\ "ok" \notin Busy
  BY <1>1, <1>3 DEF Relinking, Busy
<1>. HIDE DEF up, done
<1>5. Attends(files, perms, r, up) /\ Walk(files, perms, now', r, up)
  BY <1>3 DEF Attends, Walk, Acting
<1>6. CASE Become(r, up)
  BY <1>1, <1>2, <1>3, <1>4, <1>5, <1>6, ReadingStep, NotRelinking
<1>7. CASE Become(r, done)
  BY <1>1, <1>2, <1>3, <1>4, <1>7, ReadingStep, NotRelinking
<1>. QED  BY <1>1, <1>6, <1>7

-----------------------------------------------------------------------------
\* One lemma per action: the operations of an access patch

\* What an operation of a patch finds.
LEMMA Working ==
    ASSUME Typed, Inv, Serial, NEW r \in Requests, req[r].pc \in {"op", "link"}
    PROVE  LET q == req[r]
               f == Call[r].file
               ops == Call[r].ops
               n == Len(ops) - Len(q.todo)
           IN  /\ Only(r) /\ q \in RequestState /\ OnTrack(files, r, q)
               /\ Attends(files, perms, r, q) /\ Patching(files, perms, r, q)
               /\ Call[r].kind = "access" /\ f \in Files /\ ops \in Seq(AccessOp)
               /\ Target(r) = f /\ Target(r) # Root
               /\ files[f] \in FileRecord /\ q.doc \in FileRecord
               /\ q.doc.ids \subseteq PermIds
               /\ \A p \in q.doc.ids : /\ perms[p] \in Permission /\ perms[p] # NoPerm
                                       /\ q.mem[p] = perms[p]
                                       /\ perms[p].deleted = FALSE
               /\ \A p, s \in q.doc.ids : perms[p].to = perms[s].to => p = s
               /\ Matching(r) = {p \in q.doc.ids : perms[p].to = Op(r).to}
               /\ n \in Nat /\ n + 1 \in 1..Len(ops) /\ Op(r) = ops[n + 1]
               /\ Op(r) \in AccessOp /\ q.todo # <<>> /\ q.todo \in Seq(AccessOp)
<1>. DEFINE q == req[r]
            f == Call[r].file
            ops == Call[r].ops
            n == Len(ops) - Len(q.todo)
<1>1. /\ Only(r) /\ q \in RequestState /\ OnTrack(files, r, q)
      /\ Attends(files, perms, r, q)
  BY AtHand DEF Busy
<1>2. /\ Call[r].kind = "access" /\ f \in Files /\ ops \in Seq(AccessOp)
      /\ q.todo # <<>> /\ q.doc # Absent /\ q.todo \in Seq(AccessOp)
      /\ q.doc \in FileRecord
  BY <1>1, CallTypes DEF OnTrack, RequestState
<1>3. Target(r) = f /\ Target(r) # Root
  BY <1>2, SentinelsDistinct DEF Target
<1>4. Patching(files, perms, r, q)
  BY <1>1, <1>2 DEF Attends
<1>5. files[f] \in FileRecord /\ q.doc.ids \subseteq PermIds
  BY <1>2, <1>4 DEF Patching, Typed, TypeOK, FileRecord
<1>6. /\ Sound(files, perms, issued, placed, q.doc, f)
      /\ \A p \in q.doc.ids : q.mem[p] # NoPerm
  BY AtWork
<1>7. \A p \in q.doc.ids : /\ perms[p] \in Permission /\ perms[p] # NoPerm
                           /\ q.mem[p] = perms[p]
                           /\ perms[p].deleted = FALSE
  <2>1. \A p \in q.doc.ids : q.mem[p] = perms[p] /\ ~perms[p].deleted
    BY <1>4 DEF Patching
  <2>2. \A p \in q.doc.ids : perms[p] # NoPerm /\ perms[p] \in Permission
    BY <1>5, <1>6, <2>1 DEF Typed, TypeOK
  <2>. QED  BY <2>1, <2>2 DEF Permission
<1>8. \A p, s \in q.doc.ids : perms[p].to = perms[s].to => p = s
  BY <1>6 DEF Sound
<1>9. Matching(r) = {p \in q.doc.ids : perms[p].to = Op(r).to}
  BY <1>7 DEF Matching
<1>10. /\ n \in Nat /\ n + 1 \in 1..Len(ops) /\ Op(r) = ops[n + 1]
       /\ Op(r) \in AccessOp
  <2>1. /\ Len(q.todo) \in Nat \ {0} /\ Len(ops) \in Nat /\ Len(q.todo) <= Len(ops)
        /\ \A i \in 1..Len(q.todo) : q.todo[i] = ops[n + i]
    BY <1>2, <1>4 DEF Patching
  <2>2. n \in Nat /\ n + 1 \in 1..Len(ops) /\ 1 \in 1..Len(q.todo)
    <3>1. \A a \in Nat, b \in Nat \ {0} :
             b <= a => a - b \in Nat /\ (a - b) + 1 \in 1..a /\ 1 \in 1..b
      OBVIOUS
    <3>. QED  BY <2>1, <3>1
  <2>3. Op(r) = q.todo[1]
    BY <1>2 DEF Op
  <2>4. ops[n + 1] \in AccessOp
    <3>1. \A i \in 1..Len(ops) : ops[i] \in AccessOp
      BY <1>2
    <3>. QED  BY <2>2, <3>1
  <2>. QED  BY <2>1, <2>2, <2>3, <2>4
<1>. QED  BY <1>1, <1>2, <1>3, <1>4, <1>5, <1>7, <1>8, <1>9, <1>10

\* With an operation carried out and its link made, the next one is up.
LEMMA NextPatching ==
    ASSUME NEW F, NEW P, NEW r \in Requests, NEW y,
           y.pc = "link", y.todo \in Seq(AccessOp), y.todo # <<>>, Patching(F, P, r, y),
           NEW x, x.todo = Tail(y.todo), x.pc = AfterOps(x.todo),
           x.doc = y.doc, x.mem = y.mem
    PROVE  Patching(F, P, r, x)
<1>. DEFINE ops == Call[r].ops
<1>1. ops \in Seq(AccessOp)
  BY CallTypes
<1>3. x.pc # "link" /\ (x.pc = "put" => x.todo = <<>>)
  BY DEF AfterOps
<1>4. /\ Len(x.todo) = Len(y.todo) - 1 /\ Len(y.todo) \in Nat \ {0}
      /\ Len(ops) \in Nat
      /\ \A i \in 1..Len(x.todo) : x.todo[i] = y.todo[i + 1]
  BY <1>1
<1>5. /\ Len(x.todo) <= Len(ops)
      /\ Len(ops) - Len(x.todo) = (Len(ops) - Len(y.todo)) + 1
  <2>1. Len(y.todo) <= Len(ops)
    BY DEF Patching
  <2>2. \A a, b \in Nat : b <= a => b - 1 <= a /\ a - (b - 1) = (a - b) + 1
    OBVIOUS
  <2>. HIDE DEF ops
  <2>. QED  BY <1>4, <2>1, <2>2
<1>6. ASSUME NEW i \in 1..Len(x.todo)
      PROVE  x.todo[i] = ops[Len(ops) - Len(x.todo) + i]
  <2>1. i + 1 \in 1..Len(y.todo)
    BY <1>4
  <2>2. y.todo[i + 1] = ops[Len(ops) - Len(y.todo) + (i + 1)]
    BY <2>1 DEF Patching
  <2>3. Len(ops) - Len(y.todo) + (i + 1) = Len(ops) - Len(x.todo) + i
    <3>. DEFINE a == Len(ops)
                b == Len(y.todo)
                c == Len(x.todo)
    <3>1. a \in Nat /\ b \in Nat /\ c = b - 1 /\ i \in Int
      BY <1>4
    <3>. HIDE DEF a, b, c
    <3>2. a - b + (i + 1) = a - c + i
      BY <3>1
    <3>. QED  BY <3>2 DEF a, b, c
  <2>. QED  BY <1>4, <2>2, <2>3
<1>7. /\ F[Call[r].file] # Absent /\ ~F[Call[r].file].deleted
      /\ x.doc = [F[Call[r].file] EXCEPT !.ids = x.doc.ids]
      /\ \A p \in x.doc.ids : x.mem[p] = P[p] /\ ~P[p].deleted
  BY DEF Patching
<1>8. GrantsOf(P, x.doc.ids) =
         Patched(GrantsOf(P, F[Call[r].file].ids), ops, Len(ops) - Len(x.todo))
  BY <1>5 DEF Patching
<1>. QED  BY <1>3, <1>5, <1>6, <1>7, <1>8 DEF Patching

LEMMA AddLinkSerial ==
    ASSUME Typed, Inv, Serial, NEW r \in Requests, AddLink(r)
    PROVE  Serial'
<1>. DEFINE q == req[r]
            f == Call[r].file
            y == Telling(q, "access-granted", {Op(r).to})
            x == NextOp(y)
<1>1. /\ q.pc = "link" /\ Become(r, x) /\ UNCHANGED <<files, perms, now>>
      /\ shared' = shared \cup {<<Op(r).to, f>>}
  BY DEF AddLink, Link
<1>2. /\ Only(r) /\ q \in RequestState /\ OnTrack(files, r, q)
      /\ Attends(files, perms, r, q) /\ Patching(files, perms, r, q)
      /\ Call[r].kind = "access" /\ f \in Files
      /\ Target(r) = f /\ Target(r) # Root /\ q.todo # <<>>
  BY <1>1, Working
<1>3. Op(r) = Head(q.todo) /\ Op(r).to \in Users
  BY <1>1, <1>2 DEF OnTrack, Op
<1>4. /\ y \in RequestState /\ y.pc = "link" /\ y.todo = q.todo
      /\ y.doc = q.doc /\ y.mem = q.mem /\ y.role = q.role /\ y.seen = q.seen
  <2>1. {"access-granted"} \X {Op(r).to} \subseteq Events \X Users
    BY <1>3 DEF Events
  <2>. QED  BY <1>1, <1>2, <2>1 DEF Telling, RequestState
<1>. HIDE DEF y
<1>5. Patching(files, perms, r, y)
  <2>1. y.pc = q.pc /\ y.todo = q.todo /\ y.doc = q.doc /\ y.mem = q.mem
    BY <1>1, <1>4
  <2>2. Patching(files, perms, r, q)
    BY <1>2
  <2>. HIDE DEF q, f
  <2>. QED  BY <2>1, <2>2 DEF Patching
<1>7. /\ x.pc \in {"op", "put"} /\ x.doc = q.doc /\ x.role = q.role /\ x.seen = Unread
      /\ x.todo = Tail(y.todo) /\ x.pc = AfterOps(x.todo) /\ x.mem = y.mem
  BY <1>1, <1>2, <1>4 DEF NextOp, RequestState, AfterOps, OnTrack, Reading
<1>. HIDE DEF x
<1>6. Patching(files, perms, r, x)
  <2>1. y.todo \in Seq(AccessOp)
    BY <1>4 DEF RequestState
  <2>. QED  BY <1>2, <1>4, <1>5, <1>7, <2>1, NextPatching
<1>8. Attends(files, perms, r, x) /\ Walk(files, perms, now', r, x)
  BY <1>1, <1>2, <1>6, <1>7 DEF Attends, Walk, Acting
<1>9. Unmarked'
  BY <1>1 DEF Serial, Unmarked
<1>10. LinksFollow'
  <2>1. \A g \in Files : g # f => \A u : <<u, g>> \in shared' <=> <<u, g>> \in shared
    BY <1>1
  <2>2. \A g \in Files : (g # f /\ LinksExact(files, perms, shared, g))
            => LinksExact(files', perms', shared', g)
    BY <1>1, <2>1 DEF LinksExact, Link
  <2>3. Halfway(perms, shared, r, q) => Halfway(perms', shared', r, x)
    <3>1. LinkedTo(shared', f) = LinkedTo(shared, f) \cup {Op(r).to}
      BY <1>1, <1>3 DEF LinkedTo
    <3>. QED  BY <1>1, <1>3, <1>7, <3>1 DEF Halfway
  <2>4. Relinking(r, q) /\ Relinking(r, x)
    BY <1>1, <1>2, <1>7 DEF Relinking
  <2>. QED  BY <1>1, <1>2, <2>2, <2>3, <2>4, LinksKept DEF LinksOf, Serial
<1>. QED  BY <1>1, <1>2, <1>8, <1>9, <1>10, SerialStep

\* Removing.

LEMMA GrantsRemoved ==
    ASSUME NEW P \in [PermIds -> Permission \cup {NoPerm}], NEW D \in SUBSET PermIds,
           \A p \in D : P[p] \in Permission, NEW to
    PROVE  LET E == D \ {p \in D : P[p].to = to}
           IN  /\ GrantsOf(P, E) \subseteq AclGrant
               /\ \A g \in AclGrant :
                     g \in GrantsOf(P, E) <=> g.to # to /\ g \in GrantsOf(P, D)
<1>1. \A m \in Permission : GrantOf(m) \in AclGrant /\ GrantOf(m).to = m.to
  BY DEF Permission, GrantOf, AclGrant, Abstract!AclGrant, Abstract!Role, Roles
<1>. QED  BY <1>1 DEF GrantsOf

\* The local state in which the handler goes on after it removed a permission.
LEMMA RemovedLocal ==
    ASSUME Typed, NEW r \in Requests, RemovePermission(r)
    PROVE  \E x :
              /\ Become(r, x) /\ x.todo = Tail(req[r].todo) /\ x.pc = AfterOps(x.todo)
              /\ x.doc = [req[r].doc EXCEPT !.ids = @ \ Matching(r)]
              /\ x.mem = [p \in PermIds |-> IF p \in Matching(r) THEN NoPerm
                                            ELSE req[r].mem[p]]
              /\ x.role = req[r].role /\ x.seen = Unread
<1>. DEFINE q == req[r]
            mem == [p \in PermIds |-> IF p \in Matching(r) THEN NoPerm ELSE q.mem[p]]
            doc == [q.doc EXCEPT !.ids = @ \ Matching(r)]
            new == [q EXCEPT !.doc = doc, !.mem = mem]
            told == Telling(new, "access-removed", {Op(r).to})
<1>1. q \in RequestState /\ q.seen = Unread /\ q.doc \in FileRecord
  BY OpTyped DEF RemovePermission, OnTrack, Reading
<1>2. Become(r, NextOp(told)) \/ Become(r, NextOp(new))
  <2>1. new = [q EXCEPT !.doc.ids = @ \ Matching(r),
                        !.mem = [p \in PermIds |->
                                IF p \in Matching(r) THEN NoPerm ELSE @[p]]]
    BY <1>1 DEF RequestState, FileRecord
  <2>. HIDE DEF new
  <2>. QED  BY <2>1 DEF RemovePermission
<1>3. /\ new.doc = doc /\ new.mem = mem /\ new.todo = q.todo
      /\ new.role = q.role /\ new.seen = Unread
      /\ DOMAIN new = DOMAIN q
  <2>. HIDE DEF doc, mem
  <2>. QED  BY <1>1 DEF RequestState
<1>4. DOMAIN q = DOMAIN Rest(r)
  BY <1>1 DEF RequestState, Rest
<1>. HIDE DEF new
<1>5. \A z \in {told, new} :
         /\ NextOp(z).todo = Tail(q.todo) /\ NextOp(z).pc = AfterOps(Tail(q.todo))
         /\ NextOp(z).doc = doc /\ NextOp(z).mem = mem
         /\ NextOp(z).role = q.role /\ NextOp(z).seen = Unread
  <2>. HIDE DEF doc, mem
  <2>. QED  BY <1>3, <1>4 DEF NextOp, Telling, Rest
<1>. HIDE DEF told
<1>. QED  BY <1>2, <1>5

LEMMA RemovePermissionSerial ==
    ASSUME Typed, Inv, Serial, NEW r \in Requests, RemovePermission(r)
    PROVE  Serial'
<1>. DEFINE q == req[r]
            f == Call[r].file
            ops == Call[r].ops
            to == Op(r).to
            n == Len(ops) - Len(q.todo)
            G == GrantsOf(perms, files[f].ids)
            ids == q.doc.ids \ Matching(r)
<1>1. /\ q.pc = "op" /\ Op(r).op = "remove" /\ UNCHANGED <<files, perms, now>>
      /\ shared' = IF to \in Users THEN shared \ {<<to, f>>} ELSE shared
  BY DEF RemovePermission, Link
<1>2. /\ Only(r) /\ q \in RequestState
      /\ Attends(files, perms, r, q) /\ Patching(files, perms, r, q)
      /\ Call[r].kind = "access" /\ f \in Files /\ ops \in Seq(AccessOp)
      /\ Target(r) = f /\ Target(r) # Root
      /\ files[f] \in FileRecord /\ q.doc \in FileRecord
      /\ q.doc.ids \subseteq PermIds
      /\ \A p \in q.doc.ids : /\ perms[p] \in Permission
                              /\ q.mem[p] = perms[p]
                              /\ perms[p].deleted = FALSE
      /\ Matching(r) = {p \in q.doc.ids : perms[p].to = to}
      /\ n \in Nat /\ n + 1 \in 1..Len(ops) /\ Op(r) = ops[n + 1]
      /\ Op(r) \in AccessOp /\ q.todo # <<>> /\ q.todo \in Seq(AccessOp)
  BY <1>1, Working
<1>3. PICK x :
        /\ Become(r, x) /\ x.todo = Tail(q.todo) /\ x.pc = AfterOps(x.todo)
        /\ x.doc = [q.doc EXCEPT !.ids = @ \ Matching(r)]
        /\ x.mem = [p \in PermIds |-> IF p \in Matching(r) THEN NoPerm ELSE q.mem[p]]
        /\ x.role = q.role /\ x.seen = Unread
  BY RemovedLocal
<1>4. x.doc.ids = ids /\ x.pc \in {"op", "put"}
  BY <1>2, <1>3 DEF FileRecord, AfterOps
<1>5. Patching(files, perms, r, x)
  <2>. DEFINE y == [q EXCEPT !.pc = "link", !.doc = x.doc, !.mem = x.mem]
  <2>1. /\ y.pc = "link" /\ y.todo = q.todo /\ y.doc = x.doc /\ y.mem = x.mem
    BY <1>2 DEF RequestState
  <2>. HIDE DEF y
  <2>2. x.doc = [files[f] EXCEPT !.ids = x.doc.ids]
    BY <1>2, <1>3, <1>4 DEF Patching, FileRecord
  <2>3. \A p \in ids : x.mem[p] = perms[p] /\ ~perms[p].deleted
    BY <1>2, <1>3
  <2>4. GrantsOf(perms, ids) = Patched(G, ops, n + 1)
    <3>1. GrantsOf(perms, q.doc.ids) = Patched(G, ops, n)
      BY <1>1, <1>2 DEF Patching
    <3>2. G \in SUBSET AclGrant
      BY <1>2, StoredGrants DEF Patching
    <3>3. Patched(G, ops, n + 1) \subseteq AclGrant
      <4>1. n + 1 \in 0..Len(ops)
        <5>1. \A i, j \in Nat : i + 1 \in 1..j => i + 1 \in 0..j
          OBVIOUS
        <5>2. Len(ops) \in Nat
          BY <1>2
        <5>. HIDE DEF n, ops
        <5>. QED  BY <1>2, <5>1, <5>2
      <4>. QED  BY <1>2, <3>2, <4>1, PatchedParts
    <3>4. ids = q.doc.ids \ {p \in q.doc.ids : perms[p].to = to}
      BY <1>2
    <3>5. perms \in [PermIds -> Permission \cup {NoPerm}]
      BY DEF Typed, TypeOK
    <3>6. /\ GrantsOf(perms, ids) \subseteq AclGrant
          /\ \A g \in AclGrant :
                g \in GrantsOf(perms, ids) <=> g.to # to /\ g \in GrantsOf(perms, q.doc.ids)
      <4>. DEFINE D == q.doc.ids
                  E == D \ {p \in D : perms[p].to = to}
      <4>1. D \in SUBSET PermIds /\ \A p \in D : perms[p] \in Permission
        BY <1>2
      <4>2. /\ GrantsOf(perms, E) \subseteq AclGrant
            /\ \A g \in AclGrant :
                  g \in GrantsOf(perms, E) <=> g.to # to /\ g \in GrantsOf(perms, D)
        <5>. HIDE DEF D, to
        <5>. QED  BY <3>5, <4>1, GrantsRemoved
      <4>. QED  BY <3>4, <4>2
    <3>7. ASSUME NEW g \in AclGrant
          PROVE  g \in Patched(G, ops, n + 1) <=> g.to # to /\ g \in Patched(G, ops, n)
      <4>1. Op(r).op # "add"
        BY <1>1
      <4>2. g \in Patched(G, ops, n + 1) <=>
               IF g.to # ops[n + 1].to THEN g \in Patched(G, ops, n)
               ELSE /\ ops[n + 1].op = "add" /\ g.role = ops[n + 1].role
                    /\ g.expires \in Renewed(ops[n + 1], Patched(G, ops, n))
        BY <1>2, <3>2, PatchedOnce
      <4>. QED  BY <1>2, <4>1, <4>2
    <3>. HIDE DEF G, ids
    <3>. QED  BY <3>1, <3>3, <3>6, <3>7
  <2>5. Patching(files, perms, r, y)
    <3>1. /\ files[f] # Absent /\ ~files[f].deleted /\ Len(q.todo) <= Len(ops)
          /\ \A i \in 1..Len(q.todo) : q.todo[i] = ops[n + i]
      BY <1>2 DEF Patching
    <3>. QED  BY <1>4, <2>1, <2>2, <2>3, <2>4, <3>1 DEF Patching
  <2>6. /\ y.todo \in Seq(AccessOp) /\ y.todo # <<>> /\ x.todo = Tail(y.todo)
        /\ x.pc = AfterOps(x.todo) /\ x.doc = y.doc /\ x.mem = y.mem
    BY <1>2, <1>3, <2>1
  <2>. QED  BY <2>1, <2>5, <2>6, NextPatching
<1>6. Attends(files, perms, r, x) /\ Walk(files, perms, now', r, x)
  BY <1>1, <1>2, <1>3, <1>4, <1>5 DEF Attends, Walk, Acting
<1>7. Unmarked'
  BY <1>1 DEF Serial, Unmarked
<1>8. LinksFollow'
  <2>1. \A g \in Files : g # f => \A u : <<u, g>> \in shared' <=> <<u, g>> \in shared
    BY <1>1
  <2>2. \A g \in Files : (g # f /\ LinksExact(files, perms, shared, g))
            => LinksExact(files', perms', shared', g)
    BY <1>1, <2>1 DEF LinksExact, Link
  <2>3. Halfway(perms, shared, r, q) => Halfway(perms', shared', r, x)
    <3>1. LinkedTo(shared', f) = LinkedTo(shared, f) \ {to}
      BY <1>1 DEF LinkedTo
    <3>2. Named(perms, ids) = Named(perms, q.doc.ids) \ {to}
      BY <1>2 DEF Named
    <3>. QED  BY <1>1, <1>4, <3>1, <3>2 DEF Halfway
  <2>4. Relinking(r, q) /\ Relinking(r, x)
    BY <1>1, <1>2, <1>4 DEF Relinking
  <2>. QED  BY <1>1, <1>2, <1>3, <2>2, <2>3, <2>4, LinksKept DEF LinksOf, Serial
<1>. QED  BY <1>1, <1>2, <1>3, <1>6, <1>7, <1>8, SerialStep

\* Adding.

\* What addPermission does: permission p becomes m, the local state x.
Added(r, p, m, x) ==
    /\ m.to = Op(r).to /\ m.role = Op(r).role /\ m.deleted = FALSE
    /\ \/ /\ p \in Matching(r)
          /\ m.expires = IF Op(r).expires = 0 THEN perms[p].expires ELSE Op(r).expires
       \/ Matching(r) = {} /\ perms[p] = NoPerm /\ m.expires = Op(r).expires
    /\ perms' = [perms EXCEPT ![p] = m]
    /\ Become(r, x)
    /\ x.doc = [req[r].doc EXCEPT !.ids = @ \cup {p}]
    /\ x.mem = [req[r].mem EXCEPT ![p] = m]
    /\ x.role = req[r].role /\ x.seen = Unread
    /\ IF Op(r).to \in Users THEN x.pc = "link" /\ x.todo = req[r].todo
       ELSE x.todo = Tail(req[r].todo) /\ x.pc = AfterOps(x.todo)

LEMMA AddedPermission ==
    ASSUME Typed, Inv, Serial, NEW r \in Requests, AddPermission(r)
    PROVE  \E p \in PermIds, m \in Permission : \E x : Added(r, p, m, x)
<1>. DEFINE q == req[r]
            kept(p) == IF Matching(r) # {} /\ Op(r).expires = 0
                       THEN q.mem[p].expires ELSE Op(r).expires
            mark(p) == IF Matching(r) # {} THEN q.mem[p].deleted ELSE FALSE
            perm(p) == [to |-> Op(r).to, role |-> Op(r).role, expires |-> kept(p),
                        addedBy |-> Call[r].user, deleted |-> mark(p)]
<1>1. PICK p \in PermIds :
        /\ Matching(r) # {} => p \in Matching(r)
        /\ Matching(r) = {} => perms[p] = NoPerm
        /\ perms' = [perms EXCEPT ![p] = perm(p)]
        /\ Become(r, IF Op(r).to \in Users
                     THEN [With(q, p, perm(p)) EXCEPT !.pc = "link"]
                     ELSE NextOp(With(q, p, perm(p))))
  <2>1. Matching(r) \subseteq PermIds
    BY OpTyped DEF Matching, AddPermission, FileRecord
  <2>. QED  BY <2>1 DEF AddPermission, With
<1>2. /\ q \in RequestState /\ OnTrack(files, r, q) /\ q.pc = "op" /\ q.doc \in FileRecord
      /\ Op(r) \in AccessOp /\ q.seen = Unread
      /\ \A d \in q.doc.ids : /\ perms[d] \in Permission /\ q.mem[d] = perms[d]
                              /\ perms[d].deleted = FALSE
      /\ Matching(r) \subseteq q.doc.ids
  BY Working DEF AddPermission, OnTrack, Reading
<1>3. /\ perm(p) \in Permission /\ perm(p).to = Op(r).to /\ perm(p).role = Op(r).role
      /\ perm(p).deleted = FALSE
      /\ perm(p).expires = IF Matching(r) # {} /\ Op(r).expires = 0
                           THEN perms[p].expires ELSE Op(r).expires
  <2>1. Matching(r) # {} => q.mem[p] = perms[p] /\ perms[p] \in Permission
                            /\ perms[p].deleted = FALSE
    BY <1>1, <1>2
  <2>2. mark(p) = FALSE /\ kept(p) = IF Matching(r) # {} /\ Op(r).expires = 0
                                     THEN perms[p].expires ELSE Op(r).expires
    BY <2>1
  <2>3. kept(p) \in 0..MaxTime
    BY <1>2, <2>1, <2>2 DEF Permission, AccessOp
  <2>. HIDE DEF kept, mark
  <2>. QED  BY <1>2, <2>2, <2>3, CallTypes DEF Permission, AccessOp
<1>. DEFINE m == perm(p)
            new == With(q, p, m)
            x == IF Op(r).to \in Users THEN [new EXCEPT !.pc = "link"] ELSE NextOp(new)
<1>4. perms' = [perms EXCEPT ![p] = m] /\ Become(r, x)
  BY <1>1
<1>5. m \in Permission
  BY <1>3
<1>. HIDE DEF m, perm
<1>6. /\ new \in RequestState /\ new.todo = q.todo /\ new.seen = Unread
      /\ new.doc = [q.doc EXCEPT !.ids = @ \cup {p}]
      /\ new.mem = [q.mem EXCEPT ![p] = m] /\ new.role = q.role
  <2>1. new.role = q.role
    BY <1>2 DEF With, RequestState
  <2>2. /\ q \in RequestState /\ OnTrack(files, r, q) /\ q.pc = "op"
        /\ q.doc \in FileRecord /\ q.seen = Unread
    BY <1>2
  <2>. HIDE DEF q
  <2>3. /\ With(q, p, m) \in RequestState /\ With(q, p, m).todo = q.todo
        /\ With(q, p, m).seen = q.seen
        /\ With(q, p, m).doc = [q.doc EXCEPT !.ids = @ \cup {p}]
        /\ With(q, p, m).mem = [q.mem EXCEPT ![p] = m]
    BY <1>5, <2>2, WithTyped
  <2>. QED  BY <2>1, <2>2, <2>3
<1>. HIDE DEF new
<1>7. /\ x.doc = new.doc /\ x.mem = new.mem /\ x.role = new.role /\ x.seen = Unread
      /\ IF Op(r).to \in Users THEN x.pc = "link" /\ x.todo = q.todo
         ELSE x.todo = Tail(q.todo) /\ x.pc = AfterOps(x.todo)
  BY <1>6 DEF RequestState, NextOp
<1>. HIDE DEF x
<1>8. /\ m.to = Op(r).to /\ m.role = Op(r).role /\ m.deleted = FALSE
      /\ \/ /\ p \in Matching(r)
            /\ m.expires = IF Op(r).expires = 0 THEN perms[p].expires
                           ELSE Op(r).expires
         \/ Matching(r) = {} /\ perms[p] = NoPerm /\ m.expires = Op(r).expires
  BY <1>1, <1>3 DEF m
<1>9. Added(r, p, m, x)
  BY <1>4, <1>6, <1>7, <1>8 DEF Added
<1>. QED  BY <1>5, <1>9

\* The operation op made permission p, with value m, of those in D.
Adds(op, P, D, p, m) ==
    /\ m.to = op.to /\ m.role = op.role
    /\ \/ /\ p \in D /\ P[p].to = op.to
          /\ m.expires = IF op.expires = 0 THEN P[p].expires ELSE op.expires
       \/ /\ p \notin D /\ \A d \in D : P[d].to # op.to
          /\ m.expires = op.expires

LEMMA GrantOfPermission ==
    ASSUME NEW m \in Permission
    PROVE  /\ GrantOf(m) \in AclGrant /\ GrantOf(m).to = m.to
           /\ GrantOf(m).role = m.role /\ GrantOf(m).expires = m.expires
           /\ \A g \in AclGrant : (g.to = m.to /\ g.role = m.role /\ g.expires = m.expires)
                  => g = GrantOf(m)
  BY DEF Permission, GrantOf, AclGrant, Abstract!AclGrant, Abstract!Role, Roles

LEMMA GrantsAdded ==
    ASSUME NEW P \in [PermIds -> Permission \cup {NoPerm}], NEW D \in SUBSET PermIds,
           \A d \in D : P[d] \in Permission,
           \A d, e \in D : P[d].to = P[e].to => d = e,
           NEW op \in AccessOp, NEW p \in PermIds, NEW m \in Permission,
           Adds(op, P, D, p, m)
    PROVE  LET P2 == [P EXCEPT ![p] = m]
           IN  /\ GrantsOf(P2, D \cup {p}) \subseteq AclGrant
               /\ \A g \in AclGrant : g \in GrantsOf(P2, D \cup {p}) <=>
                     IF g.to # op.to THEN g \in GrantsOf(P, D)
                     ELSE g.role = op.role /\ g.expires \in Renewed(op, GrantsOf(P, D))
<1>. DEFINE P2 == [P EXCEPT ![p] = m]
            X == GrantsOf(P, D)
<1>1. P2[p] = m /\ \A d \in D : d # p => P2[d] = P[d]
  OBVIOUS
<1>2. \A d \in D : d # p => P[d].to # op.to
  BY DEF Adds
<1>. HIDE DEF P2
<1>3. \A d \in D \cup {p} : P2[d] \in Permission
  BY <1>1
<1>4. GrantsOf(P2, D \cup {p}) \subseteq AclGrant
  BY <1>3, GrantOfPermission DEF GrantsOf
<1>5. Renewed(op, X) = {m.expires}
  <2>1. CASE p \in D
    <3>1. Old(op.to, X) = {GrantOf(P[p])}
      BY <1>2, <2>1, GrantOfPermission DEF Old, GrantsOf, Adds
    <3>2. GrantOf(P[p]).expires = P[p].expires
      BY <2>1, GrantOfPermission
    <3>. HIDE DEF X
    <3>. QED  BY <2>1, <3>1, <3>2 DEF Renewed, Adds
  <2>2. CASE p \notin D
    <3>1. Old(op.to, X) = {}
      BY <1>2, <2>2, GrantOfPermission DEF Old, GrantsOf
    <3>. HIDE DEF X
    <3>. QED  BY <2>2, <3>1 DEF Renewed, Adds
  <2>. QED  BY <2>1, <2>2
<1>6. ASSUME NEW g \in AclGrant, g.to # op.to
      PROVE  g \in GrantsOf(P2, D \cup {p}) <=> g \in X
  <2>1. GrantOf(P2[p]) # g
    BY <1>1, <1>6, GrantOfPermission DEF Adds
  <2>2. p \in D => GrantOf(P[p]) # g
    BY <1>6, GrantOfPermission DEF Adds
  <2>. QED  BY <1>1, <2>1, <2>2 DEF GrantsOf
<1>7. ASSUME NEW g \in AclGrant, g.to = op.to
      PROVE  g \in GrantsOf(P2, D \cup {p}) <=> g.role = op.role /\ g.expires = m.expires
  <2>1. \A d \in D : d # p => GrantOf(P2[d]) # g
    BY <1>1, <1>2, <1>7, GrantOfPermission
  <2>2. GrantOf(P2[p]) = g <=> g.role = op.role /\ g.expires = m.expires
    BY <1>1, <1>7, GrantOfPermission DEF Adds
  <2>. QED  BY <2>1, <2>2 DEF GrantsOf
<1>. HIDE DEF X
<1>. QED  BY <1>4, <1>5, <1>6, <1>7 DEF P2, X

Expiries(to, X) == {g.expires : g \in Old(to, X)}

\* A permission of the stored file that is rewritten while the patch goes on.
LEMMA GrantsAhead ==
    ASSUME NEW P \in [PermIds -> Permission \cup {NoPerm}], NEW S \in SUBSET PermIds,
           \A d \in S : P[d] \in Permission,
           \A d, e \in S : P[d].to = P[e].to => d = e,
           NEW op \in AccessOp, NEW p \in S, NEW m \in Permission, P[p].to = op.to,
           Adds(op, P, S, p, m), NEW P2, P2 = [P EXCEPT ![p] = m]
    PROVE  /\ GrantsOf(P2, S) \subseteq AclGrant /\ GrantsOf(P, S) \subseteq AclGrant
           /\ \A g \in AclGrant : g.to # op.to =>
                 (g \in GrantsOf(P, S) <=> g \in GrantsOf(P2, S))
           /\ op.expires = 0 => Expiries(op.to, GrantsOf(P, S))
                                   = Expiries(op.to, GrantsOf(P2, S))
<1>. DEFINE X == GrantsOf(P, S)
            Y == GrantsOf(P2, S)
<1>0. P2[p] = m /\ \A d \in S : d # p => P2[d] = P[d]
  OBVIOUS
<1>1. /\ GrantsOf(P2, S \cup {p}) \subseteq AclGrant
      /\ \A g \in AclGrant : g \in GrantsOf(P2, S \cup {p}) <=>
            IF g.to # op.to THEN g \in X
            ELSE g.role = op.role /\ g.expires \in Renewed(op, X)
  BY GrantsAdded
<1>2. /\ Y \subseteq AclGrant
      /\ \A g \in AclGrant : g.to # op.to => (g \in X <=> g \in Y)
  <2>1. S \cup {p} = S
    OBVIOUS
  <2>. HIDE DEF X
  <2>. QED  BY <1>1, <2>1
<1>3. X \subseteq AclGrant
  BY GrantOfPermission DEF GrantsOf
<1>4. Old(op.to, X) = {GrantOf(P[p])}
  BY GrantOfPermission DEF Old, GrantsOf
<1>5. Old(op.to, Y) = {GrantOf(m)}
  BY <1>0, GrantOfPermission DEF Old, GrantsOf, Adds
<1>6. op.expires = 0 => GrantOf(P[p]).expires = GrantOf(m).expires
  BY GrantOfPermission DEF Adds
<1>. HIDE DEF X, Y
<1>7. /\ Expiries(op.to, X) = {GrantOf(P[p]).expires}
      /\ Expiries(op.to, Y) = {GrantOf(m).expires}
  BY <1>4, <1>5 DEF Expiries
<1>. QED  BY <1>2, <1>3, <1>6, <1>7 DEF X, Y

\* Which files the permission that is written belongs to.
LEMMA AddedWhere ==
    ASSUME Typed, Inv, Serial, NEW r \in Requests, AddPermission(r),
           NEW p \in PermIds, NEW m \in Permission, NEW x, Added(r, p, m, x)
    PROVE  /\ Adds(Op(r), perms, req[r].doc.ids, p, m)
           /\ \A g \in Files : (files[g] # Absent /\ g # Call[r].file) =>
                 p \notin files[g].ids
           /\ p \in files[Call[r].file].ids =>
                 /\ perms[p].to = Op(r).to
                 /\ Adds(Op(r), perms, files[Call[r].file].ids, p, m)
<1>. DEFINE f == Call[r].file
            D == req[r].doc.ids
<1>1. /\ f \in Files /\ files[f] # Absent /\ req[r].doc # Absent
      /\ \A d \in D : perms[d] # NoPerm
      /\ Matching(r) = {d \in D : perms[d].to = Op(r).to}
  BY Working, SentinelsDistinct DEF AddPermission, Patching
<1>2. Adds(Op(r), perms, D, p, m)
  BY <1>1 DEF Adds, Added
<1>3. ASSUME NEW g \in Files, files[g] # Absent, p \in files[g].ids
      PROVE  p \in Matching(r) /\ g = f
  <2>1. perms[p] # NoPerm
    BY <1>3 DEF Inv, Sound
  <2>2. p \in Matching(r)
    BY <2>1 DEF Added
  <2>3. Names(files, req, g, p) /\ Names(files, req, f, p)
    BY <1>1, <1>3, <2>2 DEF Names, Holds
  <2>. QED  BY <1>1, <2>2, <2>3 DEF Inv
<1>4. p \in files[f].ids => /\ perms[p].to = Op(r).to
                            /\ Adds(Op(r), perms, files[f].ids, p, m)
  BY <1>1, <1>3 DEF Adds, Added
<1>. QED  BY <1>2, <1>3, <1>4

\* The patch so far makes the same of the stored grants as of those with the
\* permission rewritten.
LEMMA StoredAhead ==
    ASSUME Typed, Inv, Serial, NEW r \in Requests, AddPermission(r),
           NEW p \in PermIds, NEW m \in Permission, NEW x, Added(r, p, m, x)
    PROVE  LET S == files[Call[r].file].ids
               ops == Call[r].ops
               n == Len(ops) - Len(req[r].todo)
           IN  /\ GrantsOf(perms', S) \subseteq AclGrant
               /\ Patched(GrantsOf(perms', S), ops, n + 1) =
                     Patched(GrantsOf(perms, S), ops, n + 1)
<1>. DEFINE f == Call[r].file
            S == files[f].ids
            ops == Call[r].ops
            n == Len(ops) - Len(req[r].todo)
            op == ops[n + 1]
            G == GrantsOf(perms, S)
            G2 == GrantsOf(perms', S)
<1>1. /\ f \in Files /\ ops \in Seq(AccessOp) /\ files[f] # Absent
      /\ n \in Nat /\ n + 1 \in 1..Len(ops) /\ Op(r) = op /\ op \in AccessOp
      /\ op.op = "add"
  BY Working, SentinelsDistinct DEF AddPermission, Patching
<1>2. /\ S \in SUBSET PermIds /\ \A d \in S : perms[d] \in Permission
      /\ \A d, e \in S : perms[d].to = perms[e].to => d = e
      /\ G \subseteq AclGrant
  BY <1>1, StoredGrants
<1>3. perms \in [PermIds -> Permission \cup {NoPerm}] /\ perms' = [perms EXCEPT ![p] = m]
  BY DEF Typed, TypeOK, Added
<1>4. CASE p \in S
  <2>1. perms[p].to = op.to /\ Adds(op, perms, S, p, m)
    BY ZenonT(30), <1>1, <1>4, AddedWhere
  <2>2. /\ G2 \subseteq AclGrant
        /\ \A g \in AclGrant : g.to # op.to => (g \in G <=> g \in G2)
        /\ op.expires = 0 => Expiries(op.to, G) = Expiries(op.to, G2)
    <3>1. /\ S \in SUBSET PermIds /\ \A d \in S : perms[d] \in Permission
          /\ \A d, e \in S : perms[d].to = perms[e].to => d = e
          /\ op \in AccessOp /\ perms \in [PermIds -> Permission \cup {NoPerm}]
      BY <1>1, <1>2, <1>3
    <3>. HIDE DEF S, op
    <3>. QED  BY <1>3, <1>4, <2>1, <3>1, GrantsAhead
  <2>3. /\ G2 \in SUBSET AclGrant /\ G \in SUBSET AclGrant
        /\ \A g \in AclGrant : g.to # op.to => (g \in G <=> g \in G2)
        /\ op.expires = 0 => {g.expires : g \in Old(op.to, G)} =
                                {g.expires : g \in Old(op.to, G2)}
    BY <1>2, <1>3, <2>2 DEF Expiries
  <2>. HIDE DEF G, G2, n, ops
  <2>4. Patched(G2, ops, n + 1) = Patched(G, ops, n + 1)
    BY <1>1, <2>3, PatchedAhead
  <2>. QED  BY <2>3, <2>4 DEF G, G2, n, ops
<1>5. CASE p \notin S
  <2>1. \A d \in S : perms'[d] = perms[d]
    BY <1>2, <1>3, <1>5
  <2>2. G2 = G
    BY <2>1 DEF GrantsOf
  <2>. QED  BY <1>2, <2>2
<1>. QED  BY <1>4, <1>5

LEMMA AddPermissionSerial ==
    ASSUME Typed, Inv, Serial, NEW r \in Requests, AddPermission(r)
    PROVE  Serial'
<1>. DEFINE q == req[r]
            f == Call[r].file
            ops == Call[r].ops
            op == Op(r)
            n == Len(ops) - Len(q.todo)
            D == q.doc.ids
            S == files[f].ids
<1>1. q.pc = "op" /\ op.op = "add" /\ UNCHANGED <<files, shared, now>>
  BY DEF AddPermission
<1>2. /\ Only(r) /\ q \in RequestState
      /\ Attends(files, perms, r, q) /\ Patching(files, perms, r, q)
      /\ Call[r].kind = "access" /\ f \in Files /\ ops \in Seq(AccessOp)
      /\ Target(r) = f /\ Target(r) # Root
      /\ files[f] \in FileRecord /\ q.doc \in FileRecord /\ D \in SUBSET PermIds
      /\ \A d \in D : /\ perms[d] \in Permission /\ q.mem[d] = perms[d]
                      /\ perms[d].deleted = FALSE
      /\ \A d, e \in D : perms[d].to = perms[e].to => d = e
      /\ n \in Nat /\ n + 1 \in 1..Len(ops) /\ op = ops[n + 1] /\ op \in AccessOp
      /\ q.todo # <<>> /\ q.todo \in Seq(AccessOp)
  BY <1>1, Working
<1>3. PICK p \in PermIds, m \in Permission : \E y : Added(r, p, m, y)
  BY AddedPermission
<1>4. PICK x : Added(r, p, m, x)
  BY <1>3
<1>5. /\ Adds(op, perms, D, p, m)
      /\ \A g \in Files : (files[g] # Absent /\ g # f) => p \notin files[g].ids
  BY <1>4, AddedWhere
<1>6. /\ perms \in [PermIds -> Permission \cup {NoPerm}]
      /\ perms' = [perms EXCEPT ![p] = m] /\ perms'[p] = m /\ m.deleted = FALSE
      /\ m.to = op.to /\ \A d \in PermIds : d # p => perms'[d] = perms[d]
  BY <1>4 DEF Typed, TypeOK, Added
<1>7. /\ Become(r, x) /\ x.doc.ids = D \cup {p} /\ x.role = q.role /\ x.seen = Unread
      /\ x.mem[p] = m /\ \A d \in PermIds : d # p => x.mem[d] = q.mem[d]
      /\ x.doc = [q.doc EXCEPT !.ids = D \cup {p}]
      /\ IF op.to \in Users THEN x.pc = "link" /\ x.todo = q.todo
         ELSE x.todo = Tail(q.todo) /\ x.pc = AfterOps(x.todo)
  BY ZenonT(30), <1>2, <1>4 DEF Added, FileRecord, RequestState
<1>8. x.pc \in {"op", "link", "put"} /\ (x.pc = "link" <=> op.to \in Users)
  BY <1>7 DEF AfterOps
<1>9. Patching(files, perms', r, x)
  <2>. DEFINE y == [q EXCEPT !.pc = "link", !.doc = x.doc, !.mem = x.mem]
  <2>1. /\ y.pc = "link" /\ y.todo = q.todo /\ y.doc = x.doc /\ y.mem = x.mem
    BY <1>2 DEF RequestState
  <2>. HIDE DEF y
  <2>2. x.doc = [files[f] EXCEPT !.ids = x.doc.ids]
    BY <1>2, <1>7 DEF Patching, FileRecord
  <2>3. \A d \in D \cup {p} : x.mem[d] = perms'[d] /\ ~perms'[d].deleted
    BY <1>2, <1>6, <1>7
  <2>4. GrantsOf(perms', D \cup {p}) = Patched(GrantsOf(perms', S), ops, n + 1)
    <3>. DEFINE G == GrantsOf(perms, S)
                X == GrantsOf(perms, D)
                Y == GrantsOf(perms', D \cup {p})
    <3>1. X = Patched(G, ops, n)
      BY <1>1, <1>2 DEF Patching
    <3>2. G \in SUBSET AclGrant
      BY <1>2, StoredGrants DEF Patching
    <3>3. /\ GrantsOf([perms EXCEPT ![p] = m], D \cup {p}) \subseteq AclGrant
          /\ \A g \in AclGrant : g \in GrantsOf([perms EXCEPT ![p] = m], D \cup {p}) <=>
                IF g.to # op.to THEN g \in X
                ELSE g.role = op.role /\ g.expires \in Renewed(op, X)
      <4>1. /\ D \in SUBSET PermIds /\ \A d \in D : perms[d] \in Permission
            /\ \A d, e \in D : perms[d].to = perms[e].to => d = e
            /\ op \in AccessOp /\ Adds(op, perms, D, p, m)
            /\ perms \in [PermIds -> Permission \cup {NoPerm}]
        BY <1>2, <1>5, <1>6
      <4>. HIDE DEF D, op
      <4>. QED  BY <4>1, GrantsAdded
    <3>4. Patched(G, ops, n + 1) \subseteq AclGrant
      <4>1. \A i, j \in Nat : i + 1 \in 1..j => i + 1 \in 0..j
        OBVIOUS
      <4>2. Len(ops) \in Nat
        BY <1>2
      <4>. HIDE DEF n, ops, G
      <4>. QED  BY <1>2, <3>2, <4>1, <4>2, PatchedParts
    <3>5. ASSUME NEW g \in AclGrant
          PROVE  g \in Patched(G, ops, n + 1) <=>
                    IF g.to # op.to THEN g \in Patched(G, ops, n)
                    ELSE g.role = op.role /\ g.expires \in Renewed(op, Patched(G, ops, n))
      <4>1. g \in Patched(G, ops, n + 1) <=>
               IF g.to # ops[n + 1].to THEN g \in Patched(G, ops, n)
               ELSE /\ ops[n + 1].op = "add" /\ g.role = ops[n + 1].role
                    /\ g.expires \in Renewed(ops[n + 1], Patched(G, ops, n))
        BY <1>2, <3>2, PatchedOnce
      <4>. QED  BY <1>1, <1>2, <4>1
    <3>6. Y \subseteq AclGrant /\ \A g \in AclGrant : g \in Y <=>
              IF g.to # op.to THEN g \in X
              ELSE g.role = op.role /\ g.expires \in Renewed(op, X)
      BY <1>6, <3>3
    <3>7. Patched(GrantsOf(perms', S), ops, n + 1) = Patched(G, ops, n + 1)
      BY <1>4, StoredAhead
    <3>. HIDE DEF G, X, Y
    <3>8. Y = Patched(G, ops, n + 1)
      BY <3>1, <3>4, <3>5, <3>6
    <3>. QED  BY <3>7, <3>8 DEF Y
  <2>5. Patching(files, perms', r, y)
    <3>1. /\ files[f] # Absent /\ ~files[f].deleted /\ Len(q.todo) <= Len(ops)
          /\ \A i \in 1..Len(q.todo) : q.todo[i] = ops[n + i]
      BY <1>2 DEF Patching
    <3>. QED  BY SMTT(30), <1>7, <2>1, <2>2, <2>3, <2>4, <3>1 DEF Patching
  <2>6. CASE op.to \in Users
    <3>1. x.pc = y.pc /\ x.todo = y.todo /\ x.doc = y.doc /\ x.mem = y.mem
      BY <1>7, <2>1, <2>6
    <3>. QED  BY <2>5, <3>1 DEF Patching
  <2>7. CASE op.to \notin Users
    <3>1. /\ y.todo \in Seq(AccessOp) /\ y.todo # <<>> /\ x.todo = Tail(y.todo)
          /\ x.pc = AfterOps(x.todo) /\ x.doc = y.doc /\ x.mem = y.mem
      BY <1>2, <1>7, <2>1, <2>7
    <3>. QED  BY <2>1, <2>5, <3>1, NextPatching
  <2>. QED  BY <2>6, <2>7
<1>10. Attends(files', perms', r, x) /\ Walk(files', perms', now', r, x)
  BY <1>1, <1>2, <1>7, <1>8, <1>9 DEF Attends, Walk, Acting
<1>11. Unmarked'
  <2>1. ASSUME NEW g \in Files, files[g] # Absent, NEW d \in files[g].ids
        PROVE  ~perms'[d].deleted
    <3>1. d \in PermIds /\ ~perms[d].deleted
      BY <2>1, StoredGrants DEF Serial, Unmarked
    <3>. QED  BY <1>6, <3>1
  <2>. QED  BY <1>1, <2>1 DEF Unmarked
<1>12. LinksFollow'
  <2>1. ASSUME NEW g \in Files, g # f, LinksExact(files, perms, shared, g)
        PROVE  LinksExact(files', perms', shared', g)
    <3>1. files[g] # Absent => \A d \in files[g].ids : perms'[d] = perms[d]
      BY <1>5, <1>6, <2>1, StoredGrants
    <3>2. files[g] # Absent => {u \in Users : \E d \in files[g].ids : perms'[d].to = u}
                                 = {u \in Users : \E d \in files[g].ids : perms[d].to = u}
      BY <3>1
    <3>. QED  BY <1>1, <2>1, <3>2 DEF LinksExact
  <2>2. Halfway(perms, shared, r, q) => Halfway(perms', shared', r, x)
    <3>1. \A d \in D : perms'[d].to = perms[d].to
      BY <1>2, <1>5, <1>6 DEF Adds
    <3>2. Named(perms', D \cup {p}) =
             IF op.to \in Users THEN Named(perms, D) \cup {op.to} ELSE Named(perms, D)
      <4>. HIDE DEF D, op
      <4>. QED  BY <1>6, <3>1 DEF Named
    <3>3. x.pc = "link" => Head(x.todo) = op
      BY <1>7, <1>8 DEF Op
    <3>. QED  BY <1>1, <1>7, <1>8, <3>2, <3>3 DEF Halfway
  <2>3. Relinking(r, q) /\ Relinking(r, x)
    BY <1>1, <1>2, <1>8 DEF Relinking
  <2>. QED  BY <1>2, <1>7, <2>1, <2>2, <2>3, LinksKept DEF LinksOf, Serial
<1>. QED  BY <1>2, <1>7, <1>10, <1>11, <1>12, SerialStep

-----------------------------------------------------------------------------
\* One lemma per action: the write, what follows, and the rest of the world

\* The record a request writes, against the one that is stored.
LEMMA Written ==
    ASSUME Typed, Serial, NEW r \in Requests, Put(r)
    PROVE  LET f == Call[r].file
           IN  /\ f \in Files /\ Document(r) \in FileRecord
               /\ files' = [files EXCEPT ![f] = Document(r)]
               /\ Call[r].kind \in {"create", "patch", "access", "delete"}
               /\ Call[r].kind = "create" =>
                     /\ files[f] = Absent /\ Document(r).ids = {}
                     /\ Document(r).deleted = FALSE
               /\ Call[r].kind # "create" => files[f] \in FileRecord
               /\ Call[r].kind = "patch" => Document(r) =
                     [files[f] EXCEPT !.edits = @ \cup {r}, !.by = Call[r].user]
               /\ Call[r].kind = "access" =>
                     /\ Patching(files, perms, r, req[r]) /\ req[r].doc.ids \subseteq PermIds
                     /\ Document(r) = [files[f] EXCEPT !.ids = req[r].doc.ids,
                                                       !.by = Call[r].user]
               /\ Call[r].kind = "delete" =>
                     /\ Document(r) = [files[f] EXCEPT !.deleted = TRUE,
                                                       !.deletedBy = Call[r].user]
                     /\ req[r].role = "owner"
<1>. DEFINE q == req[r]
            f == Call[r].file
<1>1. /\ q.pc = "put" /\ q.pc \in Busy
      /\ files' = [files EXCEPT ![f] = Document(r)]
  BY DEF Put, Busy
<1>2. /\ q \in RequestState /\ OnTrack(files, r, q) /\ Attends(files, perms, r, q)
      /\ f \in Files /\ Call[r].user \in Users /\ Call[r].parent \in Files \cup {Root}
      /\ Call[r].kind \in Kinds
  BY <1>1, AtHand, CallTypes
<1>3. Call[r].kind \in {"create", "patch", "access", "delete"}
  BY <1>1, <1>2 DEF OnTrack, Kinds
<1>4. Call[r].kind # "create" => files[f] \in FileRecord
  BY <1>1, <1>2, <1>3 DEF Attends, Patching, Typed, TypeOK
<1>5. CASE Call[r].kind = "create"
  BY <1>1, <1>2, <1>3, <1>5 DEF Attends, Document, FileRecord
<1>6. CASE Call[r].kind = "patch"
  <2>1. q.doc = [files[f] EXCEPT !.edits = @ \cup {r}]
    BY <1>1, <1>2, <1>6 DEF Attends
  <2>2. Document(r) = [q.doc EXCEPT !.by = Call[r].user]
    BY <1>6 DEF Document
  <2>3. Document(r) = [files[f] EXCEPT !.edits = @ \cup {r}, !.by = Call[r].user]
    BY <1>4, <1>6, <2>1, <2>2 DEF FileRecord
  <2>4. Document(r) \in FileRecord
    <3>1. q.doc \in FileRecord
      BY <1>1, <1>2, <1>6 DEF OnTrack, RequestState
    <3>. QED  BY <1>2, <2>2, <3>1 DEF FileRecord
  <2>. QED  BY <1>1, <1>2, <1>4, <1>6, <2>3, <2>4
<1>7. CASE Call[r].kind = "access"
  <2>1. Patching(files, perms, r, q) /\ q.doc \in FileRecord
    BY <1>1, <1>2, <1>7 DEF Attends, OnTrack, RequestState
  <2>2. q.doc = [files[f] EXCEPT !.ids = q.doc.ids] /\ q.doc.ids \subseteq PermIds
    BY <2>1 DEF Patching, FileRecord
  <2>3. Document(r) = [q.doc EXCEPT !.by = Call[r].user]
    BY <1>7 DEF Document
  <2>4. Document(r) = [files[f] EXCEPT !.ids = q.doc.ids, !.by = Call[r].user]
    BY <1>4, <1>7, <2>2, <2>3 DEF FileRecord
  <2>5. Document(r) \in FileRecord
    BY <1>2, <2>1, <2>3 DEF FileRecord
  <2>. QED  BY <1>1, <1>2, <1>3, <1>4, <1>7, <2>1, <2>2, <2>4, <2>5
<1>8. CASE Call[r].kind = "delete"
  <2>1. /\ q.doc = [files[f] EXCEPT !.deleted = TRUE, !.deletedBy = Call[r].user]
        /\ q.role = "owner"
    BY <1>1, <1>2, <1>8 DEF Attends
  <2>. QED  BY <1>1, <1>2, <1>3, <1>4, <1>8, <2>1 DEF Document, FileRecord
<1>. QED  BY <1>3, <1>5, <1>6, <1>7, <1>8

LEMMA PutSerial ==
    ASSUME Typed, Inv, Serial, NEW r \in Requests, Put(r)
    PROVE  Serial'
<1>. DEFINE q == req[r]
            f == Call[r].file
            pc == IF Call[r].kind = "delete" THEN "scan" ELSE "audience"
            x == [q EXCEPT !.pc = pc, !.at = f, !.doc = Absent, !.mem = NoMem,
                           !.role = "none"]
            d == Document(r)
<1>1. /\ q.pc = "put" /\ q.pc \in Busy /\ Become(r, x)
      /\ UNCHANGED <<perms, shared, now>>
  BY DEF Put, Busy
<1>2. /\ Only(r) /\ q \in RequestState /\ OnTrack(files, r, q)
      /\ Attends(files, perms, r, q)
  BY <1>1, AtHand
<1>3. x.pc = pc /\ x.seen = Unread
  BY <1>1, <1>2 DEF RequestState, OnTrack, Reading
<1>4. /\ f \in Files /\ d \in FileRecord /\ files' = [files EXCEPT ![f] = d]
      /\ Call[r].kind \in {"create", "patch", "access", "delete"}
      /\ Call[r].kind = "create" =>
            files[f] = Absent /\ d.ids = {} /\ d.deleted = FALSE
      /\ Call[r].kind # "create" => files[f] \in FileRecord
      /\ Call[r].kind = "patch" =>
            d = [files[f] EXCEPT !.edits = @ \cup {r}, !.by = Call[r].user]
      /\ Call[r].kind = "access" =>
            /\ Patching(files, perms, r, q) /\ q.doc.ids \subseteq PermIds
            /\ d = [files[f] EXCEPT !.ids = q.doc.ids, !.by = Call[r].user]
      /\ Call[r].kind = "delete" =>
            d = [files[f] EXCEPT !.deleted = TRUE, !.deletedBy = Call[r].user]
  BY Written
<1>. HIDE DEF x, d
<1>5. /\ files'[f] = d /\ d # Absent
      /\ \A g \in Files : g # f => files'[g] = files[g]
      /\ \A g \in Files : files[g] # Absent => files'[g] # Absent
  BY <1>4, SentinelsDistinct DEF Typed, TypeOK
<1>6. Call[r].kind # "create" => files[f] # Absent
  BY <1>4, SentinelsDistinct
<1>7. /\ Call[r].kind \in {"patch", "delete"} => d.ids = files[f].ids
      /\ Call[r].kind \in {"patch", "access"} => d.deleted = files[f].deleted
      /\ Call[r].kind = "access" => d.ids = q.doc.ids
      /\ Call[r].kind = "delete" => d.deleted
  BY ZenonT(30), <1>4 DEF FileRecord
<1>8. Attends(files', perms', r, x) /\ Walk(files', perms', now', r, x)
  BY <1>3, <1>5, <1>7 DEF Attends, Walk, Acting
<1>9. Unmarked'
  <2>1. \A p \in d.ids : ~perms[p].deleted
    BY <1>4, <1>6, <1>7 DEF Serial, Unmarked, Patching
  <2>. QED  BY <1>1, <1>5, <2>1 DEF Serial, Unmarked
<1>10. LinksFollow'
  <2>1. \A g \in Files : (g # f /\ LinksExact(files, perms, shared, g))
            => LinksExact(files', perms', shared', g)
    BY <1>1, <1>5 DEF LinksExact
  <2>2. CASE Call[r].kind \in {"create", "patch"}
    <3>1. ~Relinking(r, q) /\ ~Relinking(r, x)
      BY <1>1, <1>3, <2>2 DEF Relinking
    <3>2. LinksExact(files, perms, shared, f) => LinksExact(files', perms', shared', f)
      BY <1>1, <1>4, <1>5, <1>6, <1>7, <2>2 DEF LinksExact
    <3>. QED  BY <1>1, <1>2, <2>1, <3>1, <3>2, LinksKept DEF LinksOf, Serial
  <2>3. CASE Call[r].kind = "access"
    <3>1. Relinking(r, q) /\ ~Relinking(r, x)
      BY <1>1, <1>3, <2>3 DEF Relinking
    <3>2. ~d.deleted
      BY <1>4, <1>7, <2>3 DEF Patching
    <3>3. Halfway(perms, shared, r, q) => LinksExact(files', perms', shared', f)
      BY <1>1, <1>5, <1>7, <2>3, <3>2 DEF LinksExact, Halfway, LinkedTo, Named, Link
    <3>. QED  BY <1>1, <1>2, <2>1, <3>1, <3>3, LinksKept DEF LinksOf, Serial
  <2>4. CASE Call[r].kind = "delete"
    <3>1. Relinking(r, x) /\ Halfway(perms', shared', r, x)
      BY <1>3, <2>4 DEF Relinking, Halfway
    <3>. QED  BY <1>1, <1>2, <2>1, <3>1, LinksKept DEF LinksOf, Serial
  <2>. QED  BY <1>4, <2>2, <2>3, <2>4
<1>. QED  BY <1>1, <1>2, <1>8, <1>9, <1>10, SerialStep

LEMMA UnlinkSerial ==
    ASSUME Typed, Serial, NEW r \in Requests, Unlink(r)
    PROVE  Serial'
<1>. DEFINE q == req[r]
            f == Call[r].file
            x == [q EXCEPT !.users = {}, !.pc = "audience"]
<1>1. /\ q.pc = "unlink" /\ q.pc \in Busy /\ Become(r, x)
      /\ UNCHANGED <<files, perms, now>> /\ shared' = shared \ (q.users \X {f})
  BY DEF Unlink, Busy
<1>2. /\ Only(r) /\ q \in RequestState /\ OnTrack(files, r, q)
      /\ Attends(files, perms, r, q)
  BY <1>1, AtHand
<1>3. /\ x.pc = "audience" /\ x.seen = Unread /\ Call[r].kind = "delete"
      /\ files[f] # Absent /\ files[f].deleted
  BY <1>1, <1>2 DEF RequestState, OnTrack, Reading, Attends
<1>. HIDE DEF x
<1>4. Attends(files', perms', r, x) /\ Walk(files', perms', now', r, x)
  BY <1>3 DEF Attends, Walk, Acting
<1>5. Unmarked'
  BY <1>1 DEF Serial, Unmarked
<1>6. LinksFollow'
  <2>1. \A g \in Files : (g # f /\ LinksExact(files, perms, shared, g))
            => LinksExact(files', perms', shared', g)
    BY <1>1 DEF LinksExact, Link
  <2>2. Relinking(r, q) /\ ~Relinking(r, x)
    BY <1>1, <1>3 DEF Relinking
  <2>3. Halfway(perms, shared, r, q) => LinksExact(files', perms', shared', f)
    BY <1>1, <1>3 DEF Halfway, LinkedTo, LinksExact, Link
  <2>. QED  BY <1>1, <1>2, <2>1, <2>2, <2>3, LinksKept DEF LinksOf, Serial
<1>. QED  BY <1>1, <1>2, <1>4, <1>5, <1>6, SerialStep

\* Time only makes permissions lapse, so silence stays.
LEMMA TickSerial == ASSUME Typed, Inv, Serial, Tick PROVE Serial'
<1>1. UNCHANGED <<files, perms, shared, req>> /\ now' = now + 1 /\ now \in Nat
  BY DEF Tick, store, Typed, TypeOK
<1>2. InFlight' = InFlight
  BY <1>1 DEF InFlight
<1>3. ASSUME NEW r \in InFlight PROVE Walk(files, perms, now', r, req[r])
  <2>1. ASSUME NEW g \in Files, NEW u, Silent(files, perms, now, g, u)
        PROVE  Silent(files, perms, now', g, u)
    <3>1. files[g] \in FileRecord
      BY <2>1 DEF Silent, Typed, TypeOK
    <3>2. ASSUME NEW p \in files[g].ids, perms[p].expires # 0, perms[p].expires < now
          PROVE  perms[p].expires < now'
      <4>1. perms[p] \in Permission
        BY <2>1, StoredGrants DEF Silent
      <4>2. perms[p].expires \in Nat
        BY <4>1, BoundsTyped DEF Permission
      <4>. QED  BY <1>1, <3>2, <4>2
    <3>. QED  BY <2>1, <3>2 DEF Silent
  <2>2. Walk(files, perms, now, r, req[r])
    BY DEF Serial, Served
  <2>. QED  BY <2>1, <2>2 DEF Walk, Ancestors
<1>. QED
  BY <1>1, <1>2, <1>3
     DEF Serial, Alone, Unmarked, Served, LinksFollow, Whole

LEMMA CrashSerial == ASSUME Typed, Serial, Crash PROVE Serial'
<1>1. /\ UNCHANGED <<files, perms, shared, now>>
      /\ \A r \in Requests : req'[r] = IF r \in InFlight
            THEN [Rest(r) EXCEPT !.pc = "lost", !.told = req[r].told] ELSE req[r]
  BY DEF Crash, store
<1>2. \A r \in Requests : r \in InFlight => req'[r].pc = "lost"
  BY <1>1 DEF Rest
<1>3. /\ \A r \in Requests : req'[r].pc \notin Busy
      /\ \A r \in Requests : req'[r].pc # "lost" => req'[r] = req[r] /\ r \notin InFlight
  BY <1>1, <1>2 DEF InFlight, Busy
<1>4. InFlight' = {}
  BY <1>3 DEF InFlight
<1>5. LinksFollow'
  <2>1. \A r \in Requests : ~Relinking(r, req'[r])
    BY <1>3 DEF Relinking, Busy
  <2>2. ASSUME NEW f \in Files, Whole(req', f)
        PROVE  LinksExact(files, perms, shared, f)
    <3>1. \A r \in Requests : Call[r].file = f => req'[r] = req[r]
      BY <1>3, <2>2 DEF Whole
    <3>2. Whole(req, f) /\ \A r \in Requests : Call[r].file = f => ~Relinking(r, req[r])
      BY <2>1, <2>2, <3>1 DEF Whole
    <3>. QED  BY <3>2 DEF Serial, LinksFollow
  <2>. QED  BY <1>1, <2>1, <2>2 DEF LinksFollow
<1>. QED  BY <1>1, <1>4, <1>5 DEF Serial, Alone, Unmarked, Served

LEMMA InitSerial == Init => Serial
<1>. SUFFICES ASSUME Init PROVE Serial
  OBVIOUS
<1>1. \A r \in Requests : req[r].pc = "idle" /\ ~Relinking(r, req[r])
  BY DEF Init, Rest, Relinking
<1>2. InFlight = {}
  BY <1>1 DEF InFlight, Busy
<1>3. Unmarked
  BY InitialStoreWellFormed DEF Init, Unmarked
<1>4. LinksFollow
  BY <1>1 DEF LinksFollow, Whole, Init
<1>. QED  BY <1>2, <1>3, <1>4 DEF Serial, Alone, Served

LEMMA StepKeepsSerial ==
    ASSUME MaxInFlight = 1, Typed, Inv, Serial, [Next]_vars
    PROVE  Serial'
<1>1. CASE UNCHANGED vars
  BY <1>1 DEF vars, Serial, Alone, InFlight, Unmarked, Served, LinksFollow, Whole
<1>2. CASE Finished
  BY <1>1, <1>2 DEF Finished
<1>3. ASSUME NEW r \in Requests, Begin(r) \/ Serve(r) PROVE Serial'
  BY <1>3, BeginSerial, FetchSerial, CheckExistsSerial, CheckSerial, ReadSerial,
     GetSerial, AddPermissionSerial, RejectPermissionSerial, AddLinkSerial,
     RemovePermissionSerial, AddToBinSerial, PutSerial, ScanLinksSerial,
     UnlinkSerial, AudienceSerial
     DEF Serve
<1>. QED  BY <1>1, <1>2, <1>3, TickSerial, CrashSerial DEF Next

-----------------------------------------------------------------------------
\* The theorems: one file per key, exact links

LEMMA SerialInvariant ==
    ASSUME MaxInFlight = 1
    PROVE  Spec => [](Typed /\ Inv /\ Serial)
<1>1. Typed /\ Inv /\ Serial /\ [Next]_vars => (Typed /\ Inv /\ Serial)'
  BY StepKeepsTypes, StepKeepsInvariant, StepKeepsSerial
<1>2. Init => Typed /\ Inv /\ Serial
  BY InitTyped, InitInv, InitSerial
<1>. QED  BY <1>1, <1>2, PTL DEF Spec

\* When requests come one at a time, the "shared with me" links of a file are
\* those of its permissions whenever no request is half-way through changing
\* them: Files.patchAccess, Files.delete and Shared.deleteByTarget keep the two
\* stores together.
THEOREM LinksStayExact ==
    ASSUME MaxInFlight = 1
    PROVE  Spec => []SharedIndexExact
<1>1. Serial => SharedIndexExact
  <2>1. ASSUME Serial, NEW f \in Files, LinksExact(InitFiles, InitPerms, InitShared, f),
               \A r \in Requests : Call[r].file = f =>
                  /\ req[r].pc \notin Busy \cup {"lost"}
                  /\ Call[r].kind = "access" => req[r].pc # "400"
        PROVE  LinksExact(files, perms, shared, f)
    <3>1. Whole(req, f)
      BY <2>1 DEF Whole
    <3>2. \A r \in Requests : Call[r].file = f => ~Relinking(r, req[r])
      BY <2>1 DEF Relinking, Busy
    <3>. QED  BY <2>1, <3>1, <3>2 DEF Serial, LinksFollow
  <2>. QED  BY <2>1 DEF SharedIndexExact
<1>. QED  BY <1>1, SerialInvariant, PTL

-----------------------------------------------------------------------------
\* The access-control tree

Tree == [f \in Files |-> AclOf(f)]
Follows == Abstract!AcNext \/ UNCHANGED Abstract!acVars

\* The node of a file, and nothing where there is no file.
LEMMA NodeOfFile ==
    ASSUME Typed, Inv, Serial, NEW f \in Files
    PROVE  IF files[f] = Absent THEN Tree[f] = Absent
           ELSE /\ Tree[f] # Absent /\ Tree[f] \in Abstract!Node
                /\ Tree[f].owner = files[f].owner /\ Tree[f].parent = files[f].parent
                /\ Tree[f].deleted = files[f].deleted
                /\ Tree[f].grants = GrantsOf(perms, files[f].ids)
<1>1. CASE files[f] = Absent
  BY <1>1 DEF Tree, AclOf
<1>2. CASE files[f] # Absent
  <2>. DEFINE n == [owner |-> files[f].owner, parent |-> files[f].parent,
                    grants |-> GrantsOf(perms, files[f].ids),
                    deleted |-> files[f].deleted, by |-> files[f].by,
                    edits |-> files[f].edits]
  <2>1. Tree[f] = n
    BY <1>2 DEF Tree, AclOf, GrantsOf, GrantOf
  <2>2. files[f] \in FileRecord /\ GrantsOf(perms, files[f].ids) \subseteq AclGrant
    BY <1>2, StoredGrants
  <2>3. n \in Abstract!Node
    BY <2>2 DEF FileRecord, Abstract!Node, AclGrant
  <2>. QED  BY <1>2, <2>1, <2>3, ActorsDistinct
<1>. QED  BY <1>1, <1>2

LEMMA AncestryIsAncestors ==
    ASSUME Typed, Inv, Serial, NEW f \in Files
    PROVE  Abstract!Ancestry(f) = Ancestors(files, f)
<1>1. ASSUME NEW S \in SUBSET Files
      PROVE  Upward(files, S) <=> \A g \in S : (Tree[g] # Absent /\ Tree[g].parent # Root)
                                                  => Tree[g].parent \in S
  BY NodeOfFile DEF Upward
<1>2. Abstract!Ancestry(f) =
         {g \in Files : \A S \in {S \in SUBSET Files :
                           /\ f \in S
                           /\ \A h \in S : (Tree[h] # Absent /\ Tree[h].parent # Root)
                                              => Tree[h].parent \in S} : g \in S}
  BY DEF Abstract!Ancestry, Tree
<1>. QED  BY <1>1, <1>2 DEF Ancestors

\* The roles that the grants in force on a file give to one grantee.
InForceTo(f, to) ==
    {perms[p].role : p \in {d \in files[f].ids :
        perms[d].to = to /\ (perms[d].expires = 0 \/ now <= perms[d].expires)}}

LEMMA SaysOfFile ==
    ASSUME Typed, Inv, Serial, NEW f \in Files, files[f] # Absent, NEW u \in Users
    PROVE  Abstract!Says(f, u) =
              IF files[f].owner = u THEN {"owner"}
              ELSE IF InForceTo(f, u) # {} THEN InForceTo(f, u)
              ELSE InForceTo(f, Anyone)
<1>. DEFINE given(to) == {g.role : g \in {x \in Tree[f].grants :
                                            x.to = to /\ Abstract!InForce(x)}}
<1>1. Abstract!Says(f, u) = IF Tree[f].owner = u THEN {"owner"}
                            ELSE IF given(u) # {} THEN given(u) ELSE given(Anyone)
  BY DEF Abstract!Says, Tree
<1>2. Tree[f].owner = files[f].owner /\ Tree[f].grants = GrantsOf(perms, files[f].ids)
  BY NodeOfFile
<1>3. ASSUME NEW to PROVE given(to) = InForceTo(f, to)
  <2>1. \A m : GrantOf(m).to = m.to /\ GrantOf(m).role = m.role
               /\ (Abstract!InForce(GrantOf(m)) <=> m.expires = 0 \/ now <= m.expires)
    BY DEF GrantOf, Abstract!InForce
  <2>. QED  BY <1>2, <2>1 DEF GrantsOf, InForceTo
<1>. HIDE DEF given
<1>. QED  BY <1>1, <1>2, <1>3

\* What the store finds in one record is what the tree says of it.
LEMMA RoleIsSaid ==
    ASSUME Typed, Inv, Serial, NEW f \in Files, files[f] # Absent, NEW u \in Users,
           RoleAt(files[f], u) # "none"
    PROVE  RoleAt(files[f], u) \in Abstract!Says(f, u)
<1>. DEFINE d == files[f]
            live == {p \in Listed(d.ids) : Live(perms[p])}
            own  == {p \in live : perms[p].to = u}
            any  == {p \in live : perms[p].to = Anyone}
<1>1. \A p \in d.ids : /\ perms[p] \in Permission /\ perms[p] # NoPerm
                       /\ perms[p].deleted = FALSE
  <2>1. \A p \in d.ids : perms[p] \in Permission /\ perms[p].deleted = FALSE
    BY StoredGrants
  <2>. QED  BY <2>1, SentinelsDistinct
<1>2. \A p \in d.ids : perms[p].expires \in Int /\ now \in Int
  BY <1>1, BoundsTyped DEF Permission, Typed, TypeOK
<1>3. \A p : p \in live <=> p \in d.ids /\ (perms[p].expires = 0 \/ now <= perms[p].expires)
  BY <1>1, <1>2 DEF Live, Listed
<1>. HIDE DEF live
<1>4. InForceTo(f, u) = {perms[p].role : p \in own}
      /\ InForceTo(f, Anyone) = {perms[p].role : p \in any}
  BY <1>3 DEF InForceTo
<1>5. own # {} => (CHOOSE p \in own : TRUE) \in own
  OBVIOUS
<1>6. any # {} => (CHOOSE p \in any : TRUE) \in any
  OBVIOUS
<1>7. RoleAt(d, u) = IF d.owner = u THEN "owner"
                     ELSE IF own # {} THEN perms[CHOOSE p \in own : TRUE].role
                     ELSE IF any # {} THEN perms[CHOOSE p \in any : TRUE].role
                     ELSE "none"
  BY DEF RoleAt, live
<1>8. Abstract!Says(f, u) =
         IF d.owner = u THEN {"owner"}
         ELSE IF InForceTo(f, u) # {} THEN InForceTo(f, u) ELSE InForceTo(f, Anyone)
  BY SaysOfFile
<1>. HIDE DEF own, any, d
<1>9. CASE d.owner = u
  BY <1>7, <1>8, <1>9 DEF d
<1>10. CASE d.owner # u /\ own # {}
  BY <1>4, <1>5, <1>7, <1>8, <1>10 DEF d
<1>11. CASE d.owner # u /\ own = {} /\ any # {}
  BY <1>4, <1>6, <1>7, <1>8, <1>11 DEF d
<1>12. CASE d.owner # u /\ own = {} /\ any = {}
  BY <1>7, <1>12 DEF d
<1>. QED  BY <1>9, <1>10, <1>11, <1>12 DEF d

LEMMA SilenceSaysNothing ==
    ASSUME Typed, Inv, Serial, NEW f \in Files, NEW u \in Users,
           Silent(files, perms, now, f, u)
    PROVE  ~(Tree[f] = Absent \/ Tree[f].deleted \/ Abstract!Says(f, u) # {})
<1>1. files[f] # Absent /\ ~files[f].deleted /\ files[f].owner # u
  BY DEF Silent
<1>2. \A p \in files[f].ids : perms[p].expires \in Int /\ now \in Int
  <2>1. \A p \in files[f].ids : perms[p] \in Permission
    BY <1>1, StoredGrants
  <2>. QED  BY <2>1, BoundsTyped DEF Permission, Typed, TypeOK
<1>3. \A to \in {u, Anyone} : InForceTo(f, to) = {}
  BY <1>2 DEF Silent, InForceTo
<1>4. Abstract!Says(f, u) = {}
  BY <1>1, <1>3, SaysOfFile
<1>. QED  BY <1>1, <1>4, NodeOfFile

\* The role the walk ends with is the one the tree gives.
LEMMA WalkFindsRole ==
    ASSUME Typed, Inv, Serial, NEW r \in Requests, req[r].pc = "writecheck",
           Walk(files, perms, now, r, req[r]), Target(r) \in Files,
           files[req[r].at] # Absent, ~files[req[r].at].deleted,
           RoleAt(files[req[r].at], Call[r].user) # "none"
    PROVE  RoleAt(files[req[r].at], Call[r].user)
              \in Abstract!RolesOf(Call[r].user, Target(r))
<1>. DEFINE f == Target(r)
            g == req[r].at
            u == Call[r].user
            role == RoleAt(files[g], u)
<1>1. /\ u \in Users /\ g \in Ancestors(files, f) /\ g \in Files
      /\ \A h \in Ancestors(files, f) \ Ancestors(files, g) :
            Silent(files, perms, now, h, u)
  BY CallTypes DEF Walk, Ancestors
<1>2. role \in Abstract!Says(g, u)
  BY <1>1, RoleIsSaid
<1>3. Tree[g] # Absent /\ ~Tree[g].deleted
  BY <1>1, NodeOfFile
<1>4. ASSUME NEW h, NEW k
      PROVE  h \in Abstract!Settles(k, u) <=>
                /\ h \in Abstract!Ancestry(k)
                /\ Tree[h] = Absent \/ Tree[h].deleted \/ Abstract!Says(h, u) # {}
  BY DEF Abstract!Settles, Tree
<1>5. Abstract!Ancestry(f) = Ancestors(files, f) /\ Abstract!Ancestry(g) = Ancestors(files, g)
  BY <1>1, AncestryIsAncestors
<1>6. g \in Abstract!Settles(f, u)
  BY <1>1, <1>2, <1>4, <1>5
<1>7. Abstract!Settles(f, u) \subseteq Abstract!Ancestry(g)
  <2>1. ASSUME NEW h \in Abstract!Settles(f, u), h \notin Ancestors(files, g) PROVE FALSE
    <3>1. h \in Ancestors(files, f) /\ h \in Files
      BY <1>4, <1>5, <2>1 DEF Ancestors
    <3>2. Silent(files, perms, now, h, u)
      BY <1>1, <2>1, <3>1
    <3>. QED  BY <1>1, <1>4, <2>1, <3>1, <3>2, SilenceSaysNothing
  <2>. QED  BY <1>5, <2>1
<1>8. \A x : x \in Abstract!RolesOf(u, f) <=>
         \E n \in Abstract!Settles(f, u) :
            /\ Abstract!Settles(f, u) \subseteq Abstract!Ancestry(n)
            /\ Tree[n] # Absent /\ ~Tree[n].deleted
            /\ x \in Abstract!Says(n, u)
  BY DEF Abstract!RolesOf, Tree
<1>. HIDE DEF f, g, u, role
<1>9. role \in Abstract!RolesOf(u, f)
  BY <1>2, <1>3, <1>6, <1>7, <1>8
<1>. QED  BY <1>9 DEF f, g, u, role

-----------------------------------------------------------------------------
\* Who is acting

ActingRole(x) == IF x.pc \in Acting THEN x.role ELSE "none"
Actors(R) == {s \in Requests : ActingRole(R[s]) # "none"}
ActOf(R) == IF Actors(R) = {} THEN Nobody
            ELSE LET r == CHOOSE q \in Actors(R) : TRUE
                 IN  [request |-> r, role |-> R[r].role]

LEMMA ActingIsActOf == ActingNow = ActOf(req) /\ ActingNow' = ActOf(req')
<1>1. Admitted = Actors(req) /\ Admitted' = Actors(req')
  BY DEF Admitted, Actors, ActingRole, Acting
<1>. QED  BY <1>1 DEF ActingNow, ActOf

LEMMA OneActs ==
    ASSUME NEW R, NEW r \in Requests,
           \A s \in Requests : s # r => R[s].pc \notin Busy
    PROVE  ActOf(R) = IF ActingRole(R[r]) = "none" THEN Nobody
                      ELSE [request |-> r, role |-> R[r].role]
<1>1. \A s \in Requests : s # r => ActingRole(R[s]) = "none"
  BY DEF ActingRole, Acting, Busy
<1>2. CASE ActingRole(R[r]) = "none"
  <2>1. Actors(R) = {}
    BY <1>1, <1>2 DEF Actors
  <2>. QED  BY <1>2, <2>1 DEF ActOf
<1>3. CASE ActingRole(R[r]) # "none"
  <2>1. Actors(R) = {r}
    BY <1>1, <1>3 DEF Actors
  <2>2. (CHOOSE q \in {r} : TRUE) = r
    OBVIOUS
  <2>. QED  BY <1>3, <2>1, <2>2 DEF ActOf
<1>. QED  BY <1>2, <1>3

\* The actor before and after a step of r.
LEMMA ActorMoves ==
    ASSUME Typed, NEW r, Only(r), NEW x, Become(r, x)
    PROVE  /\ ActingNow = IF ActingRole(req[r]) = "none" THEN Nobody
                          ELSE [request |-> r, role |-> req[r].role]
           /\ ActingNow' = IF ActingRole(x) = "none" THEN Nobody
                           ELSE [request |-> r, role |-> x.role]
           /\ ActingRole(req[r]) # "none" => ActingNow # Nobody
<1>1. /\ r \in Requests /\ req'[r] = x
      /\ \A s \in Requests : s # r => req'[s] = req[s] /\ req[s].pc \notin Busy
  BY OthersWait DEF Only
<1>2. /\ ActOf(req) = IF ActingRole(req[r]) = "none" THEN Nobody
                      ELSE [request |-> r, role |-> req[r].role]
      /\ ActOf(req') = IF ActingRole(x) = "none" THEN Nobody
                       ELSE [request |-> r, role |-> x.role]
  <2>1. /\ \A s \in Requests : s # r => req[s].pc \notin Busy
        /\ \A s \in Requests : s # r => req'[s].pc \notin Busy
    BY <1>1
  <2>2. ActOf(req) = IF ActingRole(req[r]) = "none" THEN Nobody
                     ELSE [request |-> r, role |-> req[r].role]
    BY <1>1, <2>1, OneActs
  <2>3. ActOf(req') = IF ActingRole(req'[r]) = "none" THEN Nobody
                      ELSE [request |-> r, role |-> req'[r].role]
    BY <1>1, <2>1, OneActs
  <2>. QED  BY <1>1, <2>2, <2>3
<1>3. ASSUME ActingRole(req[r]) # "none"
      PROVE  [request |-> r, role |-> req[r].role] \in [request : Requests, role : Abstract!Role]
  <2>1. req[r].role \in Roles
    BY <1>1, <1>3 DEF ActingRole, Typed, TypeOK, RequestState
  <2>. QED  BY <1>1, <2>1 DEF Abstract!Role, Roles
<1>. QED  BY <1>2, <1>3, ActingIsActOf, ActorsDistinct

\* While it is at work on its file, a request acts in its own name.
LEMMA ActsNow ==
    ASSUME Typed, NEW r, Only(r), NEW x, Become(r, x), NEW kind, Call[r].kind = kind,
           req[r].pc \in Acting, req[r].role # "none"
    PROVE  Abstract!Acts(r, kind) /\ ActingNow.role = req[r].role
<1>1. ActingNow # Nobody /\ ActingNow = [request |-> r, role |-> req[r].role]
  BY ActorMoves DEF ActingRole
<1>. QED  BY <1>1 DEF Abstract!Acts

\* Steps that do not change the tree: the request leaves, or goes on as it was.
LEMMA NobodyActs ==
    ASSUME Typed, NEW r, Only(r), NEW x, Become(r, x), UNCHANGED <<files, perms, now>>,
           ActingRole(x) = "none"
    PROVE  Follows
<1>1. UNCHANGED <<Tree, now>>
  BY DEF Tree, AclOf
<1>2. ActingNow' = Nobody
  BY ActorMoves
<1>3. CASE ActingNow = Nobody
  BY <1>1, <1>2, <1>3 DEF Follows, Abstract!acVars, Tree
<1>4. CASE ActingNow # Nobody
  <2>1. Abstract!Leave
    BY <1>1, <1>2, <1>4 DEF Abstract!Leave, Tree
  <2>. QED  BY <2>1 DEF Follows, Abstract!AcNext
<1>. QED  BY <1>3, <1>4

LEMMA SameActs ==
    ASSUME Typed, NEW r, Only(r), NEW x, Become(r, x), UNCHANGED <<files, perms, now>>,
           req[r].pc \in Acting, x.pc \in Acting, x.role = req[r].role
    PROVE  Follows
<1>1. UNCHANGED <<Tree, now>>
  BY DEF Tree, AclOf
<1>2. ActingNow' = ActingNow
  BY ActorMoves DEF ActingRole
<1>. QED  BY <1>1, <1>2 DEF Follows, Abstract!acVars, Tree

LEMMA AnswerFollows ==
    ASSUME Typed, NEW r, Only(r), NEW code \in Answers, Answer(r, code),
           UNCHANGED <<files, perms, now>>
    PROVE  Follows
<1>. DEFINE x == [Rest(r) EXCEPT !.pc = code, !.told = req[r].told]
<1>1. Become(r, x) /\ x.pc = code /\ code \notin Acting
  BY DEF Answer, Rest, Answers, Acting
<1>. HIDE DEF x
<1>. QED  BY <1>1, NobodyActs DEF ActingRole

\* A step that changes one file.
LEMMA OneNode ==
    ASSUME NEW f \in Files, NEW n, AclOf(f)' = n,
           \A g \in Files : g # f => AclOf(g)' = AclOf(g)
    PROVE  Tree' = [Tree EXCEPT ![f] = n]
  BY DEF Tree

-----------------------------------------------------------------------------
\* One lemma per action: the steps of the tree they are

LEMMA BeginFollows ==
    ASSUME MaxInFlight = 1, Typed, Serial, NEW r \in Requests, Begin(r)
    PROVE  Follows
<1>. DEFINE pc == CASE Call[r].kind = "create" -> "exists"
                    [] Call[r].kind = "access" -> "writecheck"
                    [] OTHER -> "readcheck"
            x == [req[r] EXCEPT !.pc = pc]
<1>1. req[r] \in RequestState /\ pc \notin Acting
  BY DEF Typed, TypeOK, Acting
<1>2. x.pc = pc
  BY <1>1 DEF RequestState
<1>3. Become(r, x) /\ UNCHANGED <<files, perms, now>>
  BY DEF Begin, store
<1>. HIDE DEF x, pc
<1>4. Only(r)
  BY OnlyBegun DEF Serial
<1>. QED  BY <1>1, <1>2, <1>3, <1>4, NobodyActs DEF ActingRole

LEMMA FetchFollows ==
    ASSUME Typed, Serial, NEW r \in Requests, Fetch(r)
    PROVE  Follows
<1>. DEFINE x == [req[r] EXCEPT !.seen = files[req[r].at]]
<1>1. req[r].pc \in Reading /\ Become(r, x) /\ UNCHANGED <<files, perms, now>>
  BY DEF Fetch, store
<1>2. Only(r) /\ req[r] \in RequestState
  BY <1>1, AtHand DEF Reading, Busy
<1>3. x.pc = req[r].pc /\ x.role = req[r].role
  BY <1>2 DEF RequestState
<1>4. CASE req[r].pc \in Acting
  BY <1>1, <1>2, <1>3, <1>4, SameActs
<1>. HIDE DEF x
<1>. QED  BY <1>1, <1>2, <1>3, <1>4, NobodyActs DEF ActingRole

LEMMA CheckExistsFollows ==
    ASSUME Typed, Serial, NEW r \in Requests, CheckExists(r)
    PROVE  Follows
<1>. DEFINE q == req[r]
            put == [q EXCEPT !.pc = "put"]
            up == [q EXCEPT !.pc = "writecheck", !.at = Call[r].parent]
<1>1. q.pc = "exists" /\ UNCHANGED <<files, perms, now>>
  BY DEF CheckExists, store
<1>2. Only(r) /\ q \in RequestState /\ q.role = "none"
  BY <1>1, AtHand DEF Busy, Attends
<1>3. put.role = "none" /\ up.pc \notin Acting
  BY <1>2 DEF RequestState, Acting
<1>4. Answer(r, "400") \/ Become(r, put) \/ Become(r, up)
  BY DEF CheckExists
<1>. HIDE DEF put, up
<1>5. CASE Answer(r, "400")
  BY <1>1, <1>2, <1>5, AnswerFollows DEF Answers
<1>6. CASE Become(r, put)
  BY <1>1, <1>2, <1>3, <1>6, NobodyActs DEF ActingRole
<1>7. CASE Become(r, up)
  BY <1>1, <1>2, <1>3, <1>7, NobodyActs DEF ActingRole
<1>. QED  BY <1>4, <1>5, <1>6, <1>7

LEMMA CheckFollows ==
    ASSUME Typed, Inv, Serial, NEW r \in Requests, Check(r)
    PROVE  Follows
<1>. DEFINE q == req[r]
            role == RoleAt(q.seen, Call[r].user)
            up == [q EXCEPT !.at = q.seen.parent, !.seen = Unread]
            on == [q EXCEPT !.pc = AfterCheck(r), !.role = role,
                            !.at = Call[r].file, !.seen = Unread]
<1>1. /\ q.pc \in {"readcheck", "writecheck"} /\ q.pc \in Busy /\ q.seen # Unread
      /\ UNCHANGED <<files, perms, now>>
  BY DEF Check, Fetched, Busy, store
<1>2. /\ Only(r) /\ q \in RequestState /\ OnTrack(files, r, q)
      /\ Attends(files, perms, r, q) /\ Walk(files, perms, now, r, q)
  BY <1>1, AtHand
<1>3. q.seen = files[q.at]
  BY <1>1, <1>2 DEF Attends
<1>4. up.pc = q.pc /\ on.pc = AfterCheck(r) /\ on.role = role
  BY <1>2 DEF RequestState
<1>. HIDE DEF up, on
<1>5. CASE Answer(r, "404") \/ Answer(r, "403")
  BY <1>1, <1>2, <1>5, AnswerFollows DEF Answers
<1>6. CASE Become(r, up)
  BY <1>1, <1>2, <1>4, <1>6, NobodyActs DEF ActingRole, Acting
<1>7. CASE /\ q.seen # Absent /\ ~q.seen.deleted /\ role # "none"
           /\ HasRole(Minimum(q.pc), role) /\ Become(r, on)
  <2>1. CASE q.pc = "readcheck"
    <3>1. on.pc \notin Acting
      BY <1>4, <2>1 DEF AfterCheck, Acting
    <3>. QED  BY <1>1, <1>2, <1>7, <3>1, NobodyActs DEF ActingRole
  <2>2. CASE q.pc = "writecheck"
    <3>1. Target(r) # Root /\ Target(r) \in Files
      <4>1. Target(r) # Root
        BY <2>2, Before DEF Entitled
      <4>. QED  BY <4>1, CallTypes DEF Target
    <3>2. role \in May
      <4>1. q.seen \in FileRecord
        BY <1>1, <1>2, <1>7 DEF RequestState
      <4>2. role \in Roles
        BY <1>7, <4>1, RoleTyped, CallTypes DEF Typed
      <4>. QED  BY <1>7, <2>2, <4>2, WriterMay DEF Minimum
    <3>3. role \in Abstract!RolesOf(Call[r].user, Target(r))
      BY <1>2, <1>3, <1>7, <2>2, <3>1, WalkFindsRole
    <3>4. ActingRole(q) = "none" /\ ActingRole(on) = role
      BY <1>4, <2>2 DEF ActingRole, Acting, AfterCheck
    <3>. HIDE DEF role
    <3>5. ActingNow = Nobody /\ ActingNow' = [request |-> r, role |-> role]
      <4>1. role # "none"
        BY <1>7
      <4>. QED  BY <1>2, <1>4, <1>7, <3>4, <4>1, ActorMoves
    <3>6. UNCHANGED <<Tree, now>>
      BY <1>1 DEF Tree, AclOf
    <3>7. Abstract!Target(r) = Target(r)
      BY DEF Abstract!Target, Target
    <3>8. Abstract!Admit(r)
      BY <3>1, <3>2, <3>3, <3>5, <3>6, <3>7 DEF Abstract!Admit, Tree, May
    <3>. QED  BY <3>8 DEF Follows, Abstract!AcNext
  <2>. QED  BY <1>1, <2>1, <2>2
<1>. QED  BY <1>5, <1>6, <1>7 DEF Check, up, on

LEMMA ReadFollows ==
    ASSUME Typed, Serial, NEW r \in Requests, Read(r)
    PROVE  Follows
<1>. DEFINE q == req[r]
            again == [q EXCEPT !.pc = "writecheck", !.seen = Unread]
            edited == [q EXCEPT !.pc = "writecheck", !.seen = Unread,
                                !.doc = [q.seen EXCEPT !.edits = @ \cup {r}]]
<1>1. q.pc = "read" /\ UNCHANGED <<files, perms, now>>
  BY DEF Read, Fetched, store
<1>2. Only(r) /\ q \in RequestState /\ OnTrack(files, r, q)
  BY <1>1, AtHand DEF Busy
<1>3. again.pc \notin Acting /\ edited.pc \notin Acting
  BY <1>2 DEF RequestState, Acting
<1>4. Answer(r, "ok") \/ Become(r, again) \/ Become(r, edited)
  BY <1>1, <1>2 DEF Read, OnTrack
<1>. HIDE DEF again, edited
<1>5. CASE Answer(r, "ok")
  BY <1>1, <1>2, <1>5, AnswerFollows DEF Answers
<1>6. CASE Become(r, again) \/ Become(r, edited)
  BY <1>1, <1>2, <1>3, <1>6, NobodyActs DEF ActingRole
<1>. QED  BY <1>4, <1>5, <1>6

LEMMA GetFollows ==
    ASSUME Typed, Serial, NEW r \in Requests, Get(r)
    PROVE  Follows
<1>. DEFINE q == req[r]
            work == [q EXCEPT !.pc = AfterOps(Call[r].ops), !.seen = Unread,
                              !.doc = q.seen,
                              !.mem = [p \in PermIds |->
                                  IF p \in q.seen.ids THEN perms[p] ELSE NoPerm],
                              !.todo = Call[r].ops]
            remove == [q EXCEPT !.pc = "bin", !.seen = Unread,
                                !.doc = [q.seen EXCEPT !.deleted = TRUE,
                                                       !.deletedBy = Call[r].user]]
<1>1. q.pc = "get" /\ UNCHANGED <<files, perms, now>>
  BY DEF Get, Fetched, store
<1>2. Only(r) /\ q \in RequestState /\ OnTrack(files, r, q)
  BY <1>1, AtHand DEF Busy
<1>3. /\ work.pc \in Acting /\ work.role = q.role
      /\ remove.pc \in Acting /\ remove.role = q.role
  BY <1>2 DEF RequestState, Acting, AfterOps
<1>4. \/ Answer(r, "404") \/ Answer(r, "403")
      \/ Become(r, work) \/ Become(r, remove)
  BY <1>1, <1>2 DEF Get, OnTrack
<1>. HIDE DEF work, remove
<1>5. CASE Answer(r, "404") \/ Answer(r, "403")
  BY <1>1, <1>2, <1>5, AnswerFollows DEF Answers
<1>6. CASE Become(r, work) \/ Become(r, remove)
  BY <1>1, <1>2, <1>3, <1>6, SameActs DEF Acting
<1>. QED  BY <1>4, <1>5, <1>6

LEMMA RejectPermissionFollows ==
    ASSUME Typed, Serial, NEW r \in Requests, RejectPermission(r)
    PROVE  Follows
<1>1. req[r].pc = "op" /\ Answer(r, "400") /\ UNCHANGED <<files, perms, now>>
  BY DEF RejectPermission, store
<1>. QED  BY <1>1, AtHand, AnswerFollows DEF Answers, Busy

LEMMA AddLinkFollows ==
    ASSUME Typed, Serial, NEW r \in Requests, AddLink(r)
    PROVE  Follows
<1>. DEFINE y == Telling(req[r], "access-granted", {Op(r).to})
            x == NextOp(y)
<1>1. req[r].pc = "link" /\ Become(r, x) /\ UNCHANGED <<files, perms, now>>
  BY DEF AddLink
<1>2. Only(r) /\ req[r] \in RequestState
  BY <1>1, AtHand DEF Busy
<1>3. y.role = req[r].role /\ DOMAIN y = DOMAIN req[r]
  BY <1>2 DEF Telling, RequestState
<1>4. x.role = req[r].role /\ x.pc \in Acting
  <2>. HIDE DEF y
  <2>. QED  BY <1>2, <1>3 DEF NextOp, AfterOps, Acting, RequestState
<1>. HIDE DEF x
<1>. QED  BY <1>1, <1>2, <1>4, SameActs DEF Acting

LEMMA RemovePermissionFollows ==
    ASSUME Typed, Serial, NEW r \in Requests, RemovePermission(r)
    PROVE  Follows
<1>1. req[r].pc = "op" /\ UNCHANGED <<files, perms, now>>
  BY DEF RemovePermission
<1>2. PICK x : Become(r, x) /\ x.pc = AfterOps(x.todo) /\ x.role = req[r].role
  BY RemovedLocal
<1>3. Only(r) /\ x.pc \in Acting
  BY <1>1, <1>2, AtHand DEF Busy, AfterOps, Acting
<1>. QED  BY <1>1, <1>2, <1>3, SameActs DEF Acting

LEMMA AddToBinFollows ==
    ASSUME Typed, Serial, NEW r \in Requests, AddToBin(r)
    PROVE  Follows
<1>. DEFINE x == [req[r] EXCEPT !.pc = "put"]
<1>1. req[r].pc = "bin" /\ Become(r, x) /\ UNCHANGED <<files, perms, now>>
  BY DEF AddToBin
<1>2. Only(r) /\ req[r] \in RequestState
  BY <1>1, AtHand DEF Busy
<1>3. x.role = req[r].role /\ x.pc = "put"
  BY <1>2 DEF RequestState
<1>. HIDE DEF x
<1>. QED  BY <1>1, <1>2, <1>3, SameActs DEF Acting

LEMMA ScanLinksFollows ==
    ASSUME Typed, Serial, NEW r \in Requests, ScanLinks(r)
    PROVE  Follows
<1>. DEFINE found == Linked(Call[r].file)
            pc == IF found = {} THEN "audience" ELSE "unlink"
            x == [req[r] EXCEPT !.users = found, !.pc = pc]
<1>1. req[r].pc = "scan" /\ Become(r, x) /\ UNCHANGED <<files, perms, now>>
  BY DEF ScanLinks, store
<1>2. Only(r) /\ req[r] \in RequestState
  BY <1>1, AtHand DEF Busy
<1>3. x.pc \notin Acting
  BY <1>2 DEF RequestState, Acting
<1>. HIDE DEF x
<1>. QED  BY <1>1, <1>2, <1>3, NobodyActs DEF ActingRole

LEMMA UnlinkFollows ==
    ASSUME Typed, Serial, NEW r \in Requests, Unlink(r)
    PROVE  Follows
<1>. DEFINE x == [req[r] EXCEPT !.users = {}, !.pc = "audience"]
<1>1. req[r].pc = "unlink" /\ Become(r, x) /\ UNCHANGED <<files, perms, now>>
  BY DEF Unlink
<1>2. Only(r) /\ req[r] \in RequestState
  BY <1>1, AtHand DEF Busy
<1>3. x.pc \notin Acting
  BY <1>2 DEF RequestState, Acting
<1>. HIDE DEF x
<1>. QED  BY <1>1, <1>2, <1>3, NobodyActs DEF ActingRole

LEMMA AudienceFollows ==
    ASSUME Typed, Serial, NEW r \in Requests, Audience(r)
    PROVE  Follows
<1>. DEFINE q == req[r]
            all == q.users \cup (IF q.seen = Absent THEN {} ELSE UsersOf(q.seen))
            up == [q EXCEPT !.users = all, !.seen = Unread, !.at = q.seen.parent]
            done == Telling([Rest(r) EXCEPT !.pc = "ok", !.told = q.told],
                            EventOf(Call[r].kind), all)
<1>1. /\ q.pc = "audience"
      /\ Become(r, up) \/ Become(r, done)
      /\ UNCHANGED <<files, perms, now>>
  BY DEF Audience, Fetched, store
<1>2. Only(r) /\ q \in RequestState
  BY <1>1, AtHand DEF Busy
<1>3. up.pc \notin Acting /\ done.pc \notin Acting
  BY <1>1, <1>2 DEF RequestState, Rest, Telling, Acting
<1>. HIDE DEF up, done
<1>. QED  BY <1>1, <1>2, <1>3, NobodyActs DEF ActingRole

\* A grant that exists changes ahead of the rest of the patch; a new one waits.
LEMMA AddPermissionFollows ==
    ASSUME Typed, Inv, Serial, NEW r \in Requests, AddPermission(r)
    PROVE  Follows
<1>. DEFINE q == req[r]
            f == Call[r].file
            ops == Call[r].ops
            op == Op(r)
            n == Len(ops) - Len(q.todo)
            S == files[f].ids
<1>1. q.pc = "op" /\ op.op = "add" /\ UNCHANGED <<files, now>>
  BY DEF AddPermission
<1>2. /\ Only(r) /\ Attends(files, perms, r, q) /\ Patching(files, perms, r, q)
      /\ Call[r].kind = "access" /\ f \in Files /\ ops \in Seq(AccessOp)
      /\ Target(r) # Root /\ n + 1 \in 1..Len(ops) /\ op = ops[n + 1] /\ op \in AccessOp
  BY <1>1, Working
<1>3. PICK p \in PermIds, m \in Permission : \E y : Added(r, p, m, y)
  BY AddedPermission
<1>4. PICK x : Added(r, p, m, x)
  BY <1>3
<1>5. /\ \A g \in Files : (files[g] # Absent /\ g # f) => p \notin files[g].ids
      /\ p \in S => perms[p].to = op.to /\ Adds(op, perms, S, p, m)
  BY <1>4, AddedWhere
<1>6. /\ perms \in [PermIds -> Permission \cup {NoPerm}]
      /\ perms' = [perms EXCEPT ![p] = m]
      /\ \A d \in PermIds : d # p => perms'[d] = perms[d]
      /\ Become(r, x) /\ x.role = q.role /\ x.pc \in {"op", "link", "put"}
  BY <1>4 DEF Typed, TypeOK, Added, AfterOps
<1>7. q.role \in May /\ files[f] # Absent
  BY <1>1, <1>2 DEF Attends, Acting, Patching
<1>8. ActingNow' = ActingNow /\ Abstract!Acts(r, "access")
  <2>1. q.role # "none" /\ q.pc \in Acting /\ x.pc \in Acting
    BY <1>1, <1>6, <1>7 DEF May, Acting
  <2>2. Abstract!Acts(r, "access")
    BY <1>2, <1>6, <2>1, ActsNow
  <2>. QED  BY <1>2, <1>6, <2>1, <2>2, ActorMoves DEF ActingRole
<1>9. \A g \in Files : (g # f \/ p \notin S) => AclOf(g)' = AclOf(g)
  <2>1. ASSUME NEW g \in Files, files[g] # Absent, p \notin files[g].ids
        PROVE  GrantsOf(perms', files[g].ids) = GrantsOf(perms, files[g].ids)
    <3>1. \A d \in files[g].ids : perms'[d] = perms[d]
      BY <1>6, <2>1, StoredGrants
    <3>. QED  BY <3>1 DEF GrantsOf
  <2>2. ASSUME NEW g \in Files, g # f \/ p \notin S
        PROVE  files[g] # Absent => GrantsOf(perms', files[g].ids)
                                       = GrantsOf(perms, files[g].ids)
    BY <1>5, <2>1, <2>2
  <2>. QED  BY <1>1, <2>2 DEF AclOf, GrantsOf, GrantOf
<1>10. CASE p \notin S
  <2>1. Tree' = Tree
    BY <1>9, <1>10 DEF Tree
  <2>. QED  BY <1>1, <1>8, <2>1 DEF Follows, Abstract!acVars, Tree
<1>11. CASE p \in S
  <2>. DEFINE G == GrantsOf(perms, S)
              one == <<op>>
  <2>1. /\ S \in SUBSET PermIds /\ \A d \in S : perms[d] \in Permission
        /\ \A d, e \in S : perms[d].to = perms[e].to => d = e
        /\ G \in SUBSET AclGrant
    BY <1>2, <1>7, StoredGrants
  <2>2. one \in Seq(AccessOp) /\ Len(one) = 1 /\ one[1] = op
    <3>1. op \in AccessOp
      BY <1>2
    <3>. HIDE DEF op
    <3>. QED  BY <3>1
  <2>3. GrantsOf(perms', S) = Patched(G, one, 1)
    <3>1. /\ GrantsOf(perms', S) \subseteq AclGrant
          /\ \A g \in AclGrant : g \in GrantsOf(perms', S) <=>
                IF g.to # op.to THEN g \in G
                ELSE g.role = op.role /\ g.expires \in Renewed(op, G)
      <4>1. /\ S \in SUBSET PermIds /\ \A d \in S : perms[d] \in Permission
            /\ \A d, e \in S : perms[d].to = perms[e].to => d = e
            /\ op \in AccessOp /\ Adds(op, perms, S, p, m)
        BY <1>2, <1>5, <1>11, <2>1
      <4>2. S \cup {p} = S
        BY <1>11
      <4>3. /\ GrantsOf([perms EXCEPT ![p] = m], S \cup {p}) \subseteq AclGrant
            /\ \A g \in AclGrant : g \in GrantsOf([perms EXCEPT ![p] = m], S \cup {p}) <=>
                  IF g.to # op.to THEN g \in GrantsOf(perms, S)
                  ELSE g.role = op.role /\ g.expires \in Renewed(op, GrantsOf(perms, S))
        <5>. HIDE DEF S, op
        <5>. QED  BY <1>6, <4>1, GrantsAdded
      <4>. QED  BY <1>6, <4>2, <4>3
    <3>. HIDE DEF one, G
    <3>2. Patched(G, one, 0) = G /\ Patched(G, one, 1) \subseteq AclGrant
      <4>1. Patched(G, one, 0) = G
        BY <2>1, <2>2, PatchedNone
      <4>2. 1 \in 0..Len(one)
        BY <2>2
      <4>. QED  BY <2>1, <2>2, <4>1, <4>2, PatchedParts
    <3>3. ASSUME NEW g \in AclGrant
          PROVE  g \in Patched(G, one, 1) <=>
                    IF g.to # op.to THEN g \in G
                    ELSE g.role = op.role /\ g.expires \in Renewed(op, G)
      <4>1. g \in Patched(G, one, 0 + 1) <=>
               IF g.to # one[0 + 1].to THEN g \in Patched(G, one, 0)
               ELSE /\ one[0 + 1].op = "add" /\ g.role = one[0 + 1].role
                    /\ g.expires \in Renewed(one[0 + 1], Patched(G, one, 0))
        <5>1. 0 \in Nat /\ 0 + 1 \in 1..Len(one)
          BY <2>2
        <5>. QED  BY <2>1, <2>2, <5>1, PatchedOnce
      <4>2. 0 + 1 = 1
        OBVIOUS
      <4>. QED  BY <1>1, <2>2, <3>2, <4>1, <4>2
    <3>. QED  BY <3>1, <3>2, <3>3
  <2>4. \E g \in Tree[f].grants : g.to = op.to
    <3>1. GrantOf(perms[p]) \in G /\ GrantOf(perms[p]).to = op.to
      BY <1>5, <1>11 DEF GrantsOf, GrantOf
    <3>2. Tree[f].grants = G
      BY <1>2, <1>7, NodeOfFile
    <3>. QED  BY <3>1, <3>2
  <2>5. Tree' = [Tree EXCEPT ![f].grants = Patched(@, one, 1)]
    <3>1. AclOf(f)' = [AclOf(f) EXCEPT !.grants = Patched(@, one, 1)]
      <4>1. AclOf(f)' = [owner |-> files[f].owner, parent |-> files[f].parent,
                         grants |-> GrantsOf(perms', S),
                         deleted |-> files[f].deleted, by |-> files[f].by,
                         edits |-> files[f].edits]
        BY <1>1, <1>7 DEF AclOf, GrantsOf, GrantOf
      <4>2. AclOf(f) = [owner |-> files[f].owner, parent |-> files[f].parent,
                        grants |-> G,
                        deleted |-> files[f].deleted, by |-> files[f].by,
                        edits |-> files[f].edits]
        BY <1>7 DEF AclOf, GrantsOf, GrantOf
      <4>. HIDE DEF G, one
      <4>. QED  BY <2>3, <4>1, <4>2
    <3>. HIDE DEF one
    <3>2. Tree[f] = AclOf(f)
      BY <1>2 DEF Tree
    <3>. QED  BY <1>2, <1>9, <3>1, <3>2, OneNode
  <2>6. Abstract!Regrant(r)
    <3>. DEFINE i == n + 1
    <3>1. one = <<ops[i]>> /\ ops[i].op = "add" /\ ops[i].to = op.to
      BY <1>1, <1>2
    <3>2. i \in DOMAIN ops
      <4>1. i \in 1..Len(ops) /\ ops \in Seq(AccessOp)
        BY <1>2
      <4>. HIDE DEF i, ops
      <4>. QED  BY <4>1
    <3>3. /\ \E g \in Tree[f].grants : g.to = ops[i].to
          /\ Tree' = [Tree EXCEPT ![f].grants = Patched(@, <<ops[i]>>, 1)]
      BY <2>4, <2>5, <3>1
    <3>. HIDE DEF i, one
    <3>. QED
      BY <1>1, <1>8, <3>1, <3>2, <3>3 DEF Abstract!Regrant, Patched, Tree
  <2>. QED  BY <2>6 DEF Follows, Abstract!AcNext
<1>. QED  BY <1>10, <1>11

\* A node of the tree, and what the abstract writes make of it.
AsNode(owner, parent, grants, deleted, by, edits) ==
    [owner |-> owner, parent |-> parent, grants |-> grants, deleted |-> deleted,
     by |-> by, edits |-> edits]

Edited(n, r, user) == [n EXCEPT !.edits = @ \cup {r}, !.by = user]
Granted(n, ops, user) == [n EXCEPT !.grants = Patched(@, ops, Len(ops)), !.by = user]
Marked(n, mark) == [n EXCEPT !.deleted = mark]

LEMMA EditedNode ==
    ASSUME NEW o, NEW p, NEW g, NEW d, NEW b, NEW e, NEW r, NEW u
    PROVE  Edited(AsNode(o, p, g, d, b, e), r, u) = AsNode(o, p, g, d, u, e \cup {r})
<1>. DEFINE n == AsNode(o, p, g, d, b, e)
            m == [n EXCEPT !.edits = n.edits \cup {r}, !.by = u]
<1>1. /\ n \in [owner : {o}, parent : {p}, grants : {g}, deleted : {d}, by : {b},
          edits : {e}]
      /\ n.edits = e /\ n.grants = g
  BY DEF AsNode
<1>. HIDE DEF n
<1>2. m \in [owner : {o}, parent : {p}, grants : {g}, deleted : {d}, by : {u},
          edits : {e \cup {r}}]
  BY <1>1
<1>. HIDE DEF m
<1>3. m = AsNode(o, p, g, d, u, e \cup {r})
  BY <1>2 DEF AsNode
<1>. QED  BY <1>3 DEF m, n, Edited

LEMMA GrantedNode ==
    ASSUME NEW o, NEW p, NEW g, NEW d, NEW b, NEW e, NEW ops, NEW u
    PROVE  Granted(AsNode(o, p, g, d, b, e), ops, u) = AsNode(o, p, Patched(g, ops, Len(ops)), d, u, e)
<1>. DEFINE n == AsNode(o, p, g, d, b, e)
            m == [n EXCEPT !.grants = Patched(n.grants, ops, Len(ops)), !.by = u]
<1>1. /\ n \in [owner : {o}, parent : {p}, grants : {g}, deleted : {d}, by : {b},
          edits : {e}]
      /\ n.edits = e /\ n.grants = g
  BY DEF AsNode
<1>. HIDE DEF n
<1>2. m \in [owner : {o}, parent : {p}, grants : {Patched(g, ops, Len(ops))}, deleted : {d}, by : {u},
          edits : {e}]
  BY <1>1
<1>. HIDE DEF m
<1>3. m = AsNode(o, p, Patched(g, ops, Len(ops)), d, u, e)
  BY <1>2 DEF AsNode
<1>. QED  BY <1>3 DEF m, n, Granted

LEMMA MarkedNode ==
    ASSUME NEW o, NEW p, NEW g, NEW d, NEW b, NEW e, NEW t
    PROVE  Marked(AsNode(o, p, g, d, b, e), t) = AsNode(o, p, g, t, b, e)
<1>. DEFINE n == AsNode(o, p, g, d, b, e)
            m == [n EXCEPT !.deleted = t]
<1>1. /\ n \in [owner : {o}, parent : {p}, grants : {g}, deleted : {d}, by : {b},
          edits : {e}]
      /\ n.edits = e /\ n.grants = g
  BY DEF AsNode
<1>. HIDE DEF n
<1>2. m \in [owner : {o}, parent : {p}, grants : {g}, deleted : {t}, by : {b},
          edits : {e}]
  BY <1>1
<1>. HIDE DEF m
<1>3. m = AsNode(o, p, g, t, b, e)
  BY <1>2 DEF AsNode
<1>. QED  BY <1>3 DEF m, n, Marked

\* The write of a whole record is the act the request was let in for.
LEMMA PutFollows ==
    ASSUME Typed, Inv, Serial, NEW r \in Requests, Put(r)
    PROVE  Follows
<1>. DEFINE q == req[r]
            f == Call[r].file
            kind == Call[r].kind
            user == Call[r].user
            d == Document(r)
            x == [q EXCEPT !.pc = IF kind = "delete" THEN "scan" ELSE "audience",
                           !.at = f, !.doc = Absent, !.mem = NoMem, !.role = "none"]
            node == AsNode(d.owner, d.parent, GrantsOf(perms, d.ids), d.deleted,
                           d.by, d.edits)
            old == AsNode(files[f].owner, files[f].parent,
                          GrantsOf(perms, files[f].ids), files[f].deleted,
                          files[f].by, files[f].edits)
<1>1. q.pc = "put" /\ Become(r, x) /\ UNCHANGED <<perms, now>>
  BY DEF Put
<1>2. Only(r) /\ q \in RequestState /\ Attends(files, perms, r, q)
  BY <1>1, AtHand DEF Busy
<1>3. x.role = "none"
  BY <1>2 DEF RequestState
<1>. HIDE DEF x
<1>4. ActingNow' = Nobody
  BY <1>2, <1>1, <1>3, ActorMoves DEF ActingRole
<1>5. /\ f \in Files /\ d \in FileRecord /\ files' = [files EXCEPT ![f] = d]
      /\ kind \in {"create", "patch", "access", "delete"}
      /\ kind = "create" => files[f] = Absent
      /\ kind # "create" => files[f] \in FileRecord
      /\ kind = "patch" =>
            d = [files[f] EXCEPT !.edits = @ \cup {r}, !.by = user]
      /\ kind = "access" =>
            /\ Patching(files, perms, r, q)
            /\ d = [files[f] EXCEPT !.ids = q.doc.ids, !.by = user]
      /\ kind = "delete" =>
            /\ d = [files[f] EXCEPT !.deleted = TRUE, !.deletedBy = user]
            /\ q.role = "owner"
  BY Written
<1>6. kind = "create" =>
         d = [owner |-> user, parent |-> Call[r].parent, ids |-> {},
              deleted |-> FALSE, by |-> user, deletedBy |-> Nobody, edits |-> {}]
  BY DEF Document
<1>7. Target(r) # Root => Abstract!Acts(r, kind) /\ ActingNow.role = q.role
  <2>1. Target(r) # Root => q.role # "none" /\ q.pc \in Acting
    BY <1>1, <1>2 DEF Attends, Acting, May
  <2>. QED  BY <1>1, <1>2, <2>1, ActsNow
<1>8. kind # "create" => Target(r) # Root
  BY CallTypes, SentinelsDistinct DEF Target
<1>. HIDE DEF d
<1>9. files'[f] = d /\ d # Absent /\ \A g \in Files : g # f => files'[g] = files[g]
  BY <1>5, SentinelsDistinct DEF Typed, TypeOK
<1>10. Tree' = [Tree EXCEPT ![f] = node]
  <2>1. AclOf(f)' = node
    BY <1>1, <1>9 DEF AclOf, GrantsOf, GrantOf, AsNode
  <2>2. \A g \in Files : g # f => AclOf(g)' = AclOf(g)
    BY ZenonT(30), <1>1, <1>9 DEF AclOf
  <2>. HIDE DEF node
  <2>. QED  BY <1>5, <2>1, <2>2, OneNode
<1>11. kind # "create" => Tree[f] = old
  <2>1. kind # "create" => files[f] # Absent
    BY <1>5, SentinelsDistinct
  <2>. QED  BY <1>5, <2>1 DEF Tree, AclOf, GrantsOf, GrantOf, AsNode
<1>12. CASE kind = "create"
  <2>1. node = [owner |-> user, parent |-> Call[r].parent, grants |-> {},
                deleted |-> FALSE, by |-> user, edits |-> {}]
    <3>1. /\ d.owner = user /\ d.parent = Call[r].parent /\ d.ids = {}
          /\ d.deleted = FALSE /\ d.by = user /\ d.edits = {}
      BY <1>6, <1>12
    <3>2. GrantsOf(perms, d.ids) = {}
      BY <3>1 DEF GrantsOf
    <3>. QED  BY <3>1, <3>2 DEF AsNode
  <2>2. Tree[f] = Absent
    BY <1>5, <1>12 DEF Tree, AclOf
  <2>3. Abstract!Acts(r, "create") \/ Call[r].parent = Root
    BY <1>7, <1>12 DEF Target
  <2>. HIDE DEF node
  <2>4. Abstract!Create(r)
    BY <1>1, <1>4, <1>10, <1>12, <2>1, <2>2, <2>3 DEF Abstract!Create, Tree
  <2>. QED  BY <2>4 DEF Follows, Abstract!AcNext
<1>13. CASE kind = "patch"
  <2>1. node = Edited(old, r, user)
    <3>1. /\ d.owner = files[f].owner /\ d.parent = files[f].parent
          /\ d.ids = files[f].ids /\ d.deleted = files[f].deleted
          /\ d.edits = files[f].edits \cup {r} /\ d.by = user
      BY ZenonT(30), <1>5, <1>13 DEF FileRecord
    <3>. QED  BY <3>1, EditedNode
  <2>. HIDE DEF node, old
  <2>2. Tree' = [Tree EXCEPT ![f].edits = @ \cup {r}, ![f].by = user]
    BY <1>5, <1>10, <1>11, <1>13, <2>1 DEF Tree, Edited
  <2>3. Abstract!Edit(r)
    BY <1>1, <1>4, <1>7, <1>8, <1>13, <2>2 DEF Abstract!Edit, Tree
  <2>. QED  BY <2>3 DEF Follows, Abstract!AcNext
<1>14. CASE kind = "access"
  <2>. DEFINE ops == Call[r].ops
  <2>1. GrantsOf(perms, d.ids) = Patched(GrantsOf(perms, files[f].ids), ops, Len(ops))
    <3>1. d.ids = q.doc.ids
      BY <1>5, <1>14 DEF FileRecord
    <3>2. /\ GrantsOf(perms, q.doc.ids) =
                Patched(GrantsOf(perms, files[f].ids), ops, Len(ops) - Len(q.todo))
          /\ q.todo = <<>>
      BY <1>1, <1>5, <1>14 DEF Patching
    <3>3. Len(q.todo) = 0 /\ Len(ops) \in Nat
      BY <3>2, CallTypes
    <3>. HIDE DEF ops
    <3>4. Len(ops) - Len(q.todo) = Len(ops)
      BY <3>3
    <3>. QED  BY <3>1, <3>2, <3>4
  <2>2. node = Granted(old, ops, user)
    <3>1. /\ d.owner = files[f].owner /\ d.parent = files[f].parent
          /\ d.deleted = files[f].deleted /\ d.edits = files[f].edits /\ d.by = user
      BY ZenonT(30), <1>5, <1>14 DEF FileRecord
    <3>. HIDE DEF ops
    <3>. QED  BY <2>1, <3>1, GrantedNode
  <2>. HIDE DEF node, old
  <2>3. Tree' = [Tree EXCEPT ![f].grants = Patched(@, ops, Len(ops)), ![f].by = user]
    <3>. HIDE DEF ops
    <3>. QED  BY <1>5, <1>10, <1>11, <1>14, <2>2 DEF Tree, Granted
  <2>4. Abstract!Commit(r)
    BY <1>1, <1>4, <1>7, <1>8, <1>14, <2>3 DEF Abstract!Commit, Patched, Tree
  <2>. QED  BY <2>4 DEF Follows, Abstract!AcNext
<1>15. CASE kind = "delete"
  <2>. DEFINE mark == d.deleted
  <2>1. node = Marked(old, mark)
    <3>1. /\ d.owner = files[f].owner /\ d.parent = files[f].parent
          /\ d.ids = files[f].ids /\ d.edits = files[f].edits /\ d.by = files[f].by
      BY <1>5, <1>15 DEF FileRecord
    <3>. QED  BY <3>1, MarkedNode
  <2>. HIDE DEF node, old
  <2>2. Tree' = [Tree EXCEPT ![f].deleted = TRUE]
    <3>1. mark = TRUE
      BY <1>5, <1>15 DEF FileRecord
    <3>. HIDE DEF mark
    <3>. QED  BY <1>5, <1>10, <1>11, <1>15, <2>1, <3>1 DEF Tree, Marked
  <2>3. Abstract!Delete(r)
    BY <1>1, <1>4, <1>5, <1>7, <1>8, <1>15, <2>2 DEF Abstract!Delete, Tree
  <2>. QED  BY <2>3 DEF Follows, Abstract!AcNext
<1>. QED  BY <1>5, <1>12, <1>13, <1>14, <1>15

LEMMA TickFollows ==
    ASSUME Typed, Tick
    PROVE  Follows
<1>1. UNCHANGED <<files, perms, req>> /\ now' > now
  BY DEF Tick, store, Typed, TypeOK
<1>2. Tree' = Tree /\ ActingNow' = ActingNow
  BY <1>1 DEF Tree, AclOf, ActingNow, Admitted
<1>3. Abstract!Pass
  BY <1>1, <1>2 DEF Abstract!Pass, Tree
<1>. QED  BY <1>3 DEF Follows, Abstract!AcNext

LEMMA CrashFollows ==
    ASSUME Crash
    PROVE  Follows
<1>1. UNCHANGED <<files, perms, now>>
  BY DEF Crash, store
<1>2. \A r \in Requests : req'[r].pc \notin Busy
  BY DEF Crash, InFlight, Rest, Busy
<1>3. ActingNow' = Nobody
  <2>1. Actors(req') = {}
    BY <1>2 DEF Actors, ActingRole, Acting, Busy
  <2>. QED  BY <2>1, ActingIsActOf DEF ActOf
<1>4. Tree' = Tree
  BY <1>1 DEF Tree, AclOf
<1>5. CASE ActingNow = Nobody
  BY <1>1, <1>3, <1>4, <1>5 DEF Follows, Abstract!acVars, Tree
<1>6. CASE ActingNow # Nobody
  <2>1. Abstract!Leave
    BY <1>1, <1>3, <1>4, <1>6 DEF Abstract!Leave, Tree
  <2>. QED  BY <2>1 DEF Follows, Abstract!AcNext
<1>. QED  BY <1>5, <1>6

LEMMA StepFollows ==
    ASSUME MaxInFlight = 1, Typed, Inv, Serial, [Next]_vars
    PROVE  [Abstract!AcNext]_(Abstract!acVars)
<1>1. CASE UNCHANGED vars
  BY <1>1 DEF vars, Abstract!acVars, AclOf, ActingNow, Admitted
<1>2. CASE Finished
  BY <1>1, <1>2 DEF Finished
<1>3. ASSUME NEW r \in Requests, Begin(r) \/ Serve(r) PROVE Follows
  BY <1>3, BeginFollows, FetchFollows, CheckExistsFollows, CheckFollows, ReadFollows,
     GetFollows, AddPermissionFollows, RejectPermissionFollows, AddLinkFollows,
     RemovePermissionFollows, AddToBinFollows, PutFollows, ScanLinksFollows,
     UnlinkFollows, AudienceFollows
     DEF Serve
<1>4. Next => Finished \/ Follows
  BY <1>3, TickFollows, CrashFollows DEF Next
<1>. QED  BY <1>1, <1>2, <1>4 DEF Follows

LEMMA InitFollows == Init => Abstract!AcInit
<1>. SUFFICES ASSUME Init PROVE Abstract!AcInit
  OBVIOUS
<1>1. Typed /\ Inv /\ Serial
  BY InitTyped, InitInv, InitSerial
<1>2. Tree \in [Files -> Abstract!Node \cup {Absent}]
  <2>1. \A f \in Files : Tree[f] \in Abstract!Node \cup {Absent}
    BY <1>1, NodeOfFile
  <2>. QED  BY <2>1 DEF Tree
<1>3. ActingNow = Nobody
  BY DEF Init, Rest, ActingNow, Admitted
<1>. QED  BY <1>2, <1>3 DEF Init, Abstract!AcInit, Tree

\* When requests come one at a time the store is the access-control tree of
\* AccessControl, whatever its users, files, permissions and requests: a request
\* is let in only as the whole tree at that instant entitles its user
\* (Files.readFileAccess walks it record by record), it changes its own target
\* once, an access patch leaves the grants its operations in order make of those
\* it found (Files.patchAccess writes them one after the other), and what is
\* removed stays removed.
THEOREM StoreImplementsTree ==
    ASSUME MaxInFlight = 1
    PROVE  Spec => ImplementsAccessControl
<1>1. Typed /\ Inv /\ Serial /\ [Next]_vars => [Abstract!AcNext]_(Abstract!acVars)
  BY StepFollows
<1>. QED
  BY <1>1, InitFollows, SerialInvariant, PTL
     DEF Spec, ImplementsAccessControl, Abstract!AcSpec
=============================================================================
