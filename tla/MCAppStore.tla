------------------------------ MODULE MCAppStore ------------------------------
(***************************************************************************)
(* Small instances of AppStore: two owners, three documents.  A            *)
(* configuration picks the requests that are made, each once, from the     *)
(* catalogue.  k1 and k2 are ann's alone; both owners use k3.             *)
(***************************************************************************)
EXTENDS AppStore, TLC

CONSTANTS ann, ben, k1, k2, k3, red, blue,
          find, findAgain, benPuts3, drop1, drop12, restore2, paint2

Doc(deleted, word) == [deleted |-> deleted, word |-> word]

Make(kind, owner, keys, word) ==
    [kind |-> kind, owner |-> owner, keys |-> keys, word |-> word]

Catalogue ==
    find :> Make("query", ann, {}, red)
    @@ findAgain :> Make("query", ann, {}, red)
    @@ benPuts3 :> Make("create", ben, {k3}, blue)
    @@ drop1 :> Make("erase", ann, {k1}, red)
    @@ drop12 :> Make("delete", ann, {k1, k2}, red)
    @@ restore2 :> Make("undelete", ann, {k2}, red)
    @@ paint2 :> Make("patch", ann, {k2}, blue)

Calls == [r \in Requests |-> Catalogue[r]]

\* The two queries ask the same.
SameQueries == Permutations({find, findAgain})

\* k1 and k2 are there, k3 is deleted.
Docs == [o \in Owners |-> [k \in Keys |->
            IF o # ann THEN Absent
            ELSE Doc(k = k3, red)]]
=============================================================================
