----------------------------- MODULE MCFileStore -----------------------------
(***************************************************************************)
(* Small instances of FileStore.  alice owns the space `ws` and the file   *)
(* `doc` in it; bob is a writer of `ws` (permission p1); carol has nothing *)
(* yet.  A configuration picks the requests that are made, each once, at   *)
(* any moment, from the catalogue below.                                   *)
(***************************************************************************)
EXTENDS FileStoreRefinement, TLC

CONSTANTS
    alice, bob, carol, team, ws, doc, fresh, sub, p1, p2, p3, p4, p5,
    bobAddsCarol, aliceChurnsCarol, aliceRenewsCarol, aliceOpensDoc,
    aliceClosesDoc, aliceAddsTeam, aliceDropsTeam, aliceDropsBob,
    aliceEdits, bobEdits, carolEdits, carolReads, aliceDeletes, carolDeletes,
    bobCreates, aliceCreates, carolCreates, aliceNests, aliceTurnsBack,
    aliceReplacesCarol

Owned(user, in, ids) ==
    [owner |-> user, parent |-> in, ids |-> ids, deleted |-> FALSE,
     by |-> user, deletedBy |-> Nobody, edits |-> {}]
Grant(to, role, expires, by) ==
    [to |-> to, role |-> role, expires |-> expires, addedBy |-> by,
     deleted |-> FALSE]

Fill(f, S, other) == [x \in S |-> IF x \in DOMAIN f THEN f[x] ELSE other]

SpaceFiles == Fill(ws :> Owned(alice, Root, {p1}) @@ doc :> Owned(alice, ws, {}),
                   Files, Absent)
SpacePerms == Fill(p1 :> Grant(bob, "writer", 0, alice), PermIds, NoPerm)
SpaceShared == {<<bob, ws>>}
SpaceIssued == {<<alice, ws, "owner">>, <<alice, doc, "owner">>, <<bob, ws, "writer">>}
SpacePlaced == {<<ws, Root>>, <<doc, ws>>}

\* bob's permission lapses when the clock passes 1.
LapsingPerms == Fill(p1 :> Grant(bob, "writer", 1, alice), PermIds, NoPerm)

Asks(kind, user, file) ==
    [kind |-> kind, user |-> user, file |-> file, parent |-> Root, ops |-> <<>>]
Shares(user, file, ops) == [Asks("access", user, file) EXCEPT !.ops = ops]
Creates(user, file, in) == [Asks("create", user, file) EXCEPT !.parent = in]
Add(to, role, expires) ==
    [op |-> "add", to |-> to, role |-> role, expires |-> expires]
Remove(to) == [op |-> "remove", to |-> to, role |-> "reader", expires |-> 0]

Catalogue ==
    bobAddsCarol :> Shares(bob, doc, <<Add(carol, "writer", 0)>>)
    @@ aliceChurnsCarol :>
          Shares(alice, doc, <<Add(carol, "reader", 0), Remove(carol)>>)
    @@ aliceReplacesCarol :>
          Shares(alice, doc, <<Remove(carol), Add(carol, "reader", 0)>>)
    @@ aliceRenewsCarol :>
          Shares(alice, doc, <<Add(Anyone, "reader", 0), Add(carol, "owner", 1),
                               Remove(Anyone)>>)
    @@ aliceOpensDoc :> Shares(alice, doc, <<Add(Anyone, "reader", 0)>>)
    @@ aliceClosesDoc :> Shares(alice, doc, <<Remove(Anyone)>>)
    @@ aliceAddsTeam :> Shares(alice, doc, <<Add(team, "writer", 0)>>)
    @@ aliceDropsTeam :> Shares(alice, doc, <<Remove(team)>>)
    @@ aliceDropsBob :> Shares(alice, ws, <<Remove(bob)>>)
    @@ aliceEdits :> Asks("patch", alice, doc)
    @@ bobEdits :> Asks("patch", bob, doc)
    @@ carolEdits :> Asks("patch", carol, doc)
    @@ carolReads :> Asks("read", carol, doc)
    @@ aliceDeletes :> Asks("delete", alice, doc)
    @@ carolDeletes :> Asks("delete", carol, doc)
    @@ bobCreates :> Creates(bob, fresh, ws)
    @@ aliceCreates :> Creates(alice, fresh, Root)
    @@ carolCreates :> Creates(carol, fresh, doc)
    @@ aliceNests :> Creates(alice, sub, fresh)
    @@ aliceTurnsBack :> Creates(alice, fresh, sub)

Calls == [r \in Requests |-> Catalogue[r]]

\* Keys not taken yet are uuids: one is as good as another.
FreshKeys == Permutations(PermIds \ {p1})
=============================================================================
