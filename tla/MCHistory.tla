------------------------------ MODULE MCHistory ------------------------------
(***************************************************************************)
(* Small instances of History: ann's records are 1 to 4, ben's 5.  A       *)
(* configuration picks the requests that are made, each once, from the     *)
(* catalogue.                                                              *)
(***************************************************************************)
EXTENDS History, TLC

CONSTANTS ann, ben, team, shop, login, tool,
          addOwn, addBulk, addAgain, addBare, delete2, delete3, bulkDelete34,
          benDeletes, listOwn, listTeam, listLogin, listShop, benListsShop,
          searchShop

Owner == [k \in Keys |-> IF k = 5 THEN ben ELSE ann]
Kind == team :> "space" @@ shop :> "project" @@ login :> "request" @@ tool :> "app"

\* Both write in the space; only ann has the project, which is empty.
Access == {<<ann, team>>, <<ben, team>>, <<ann, shop>>}

Make(kind, user, keys, targets) ==
    [kind |-> kind, user |-> user, keys |-> keys, targets |-> targets, query |-> FALSE]

Search(user, targets) == [Make("list", user, {}, targets) EXCEPT !.query = TRUE]

Catalogue ==
    addOwn :> Make("add", ann, {4}, {tool})
    @@ addBulk :> Make("bulkAdd", ann, {1, 4}, {shop, login})
    @@ addAgain :> Make("add", ann, {2}, {tool})
    @@ addBare :> Make("add", ben, {5}, {login})
    @@ delete2 :> Make("delete", ann, {2}, {})
    @@ delete3 :> Make("delete", ann, {3}, {})
    @@ bulkDelete34 :> Make("bulkDelete", ann, {3, 4}, {})
    @@ benDeletes :> Make("delete", ben, {3}, {})
    @@ listOwn :> Make("list", ann, {}, {})
    @@ listTeam :> Make("list", ben, {}, {team})
    @@ listLogin :> Make("list", ann, {}, {shop, login})
    @@ listShop :> Make("list", ann, {}, {shop})
    @@ benListsShop :> Make("list", ben, {}, {shop})
    @@ searchShop :> Search(ann, {shop})

Calls == [r \in Requests |-> Catalogue[r]]

\* Records 1 to 3 are there, ben's as well.
Data == [k \in Keys |->
           IF k = 2 THEN [deleted |-> FALSE, targets |-> {shop, login}]
           ELSE IF k \in {3, 5} THEN [deleted |-> FALSE, targets |-> {team, shop}]
           ELSE Absent]
=============================================================================
