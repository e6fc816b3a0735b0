------------------------- MODULE FileStoreRefinement -------------------------
(***************************************************************************)
(* With one request in flight FileStore implements AccessControl.  A       *)
(* request acts from the moment its `writer` check succeeds until it       *)
(* writes the file or gives up.                                            *)
(***************************************************************************)
EXTENDS FileStore

AclOf(f) ==
    IF files[f] = Absent THEN Absent
    ELSE [owner |-> files[f].owner, parent |-> files[f].parent,
          grants |-> {[to |-> perms[p].to, role |-> perms[p].role,
                       expires |-> perms[p].expires] : p \in files[f].ids},
          deleted |-> files[f].deleted, by |-> files[f].by,
          edits |-> files[f].edits]

Admitted == {r \in Requests : /\ req[r].pc \in {"get", "op", "link", "bin", "put"}
                              /\ req[r].role # "none"}

ActingNow ==
    IF Admitted = {} THEN Nobody
    ELSE LET r == CHOOSE q \in Admitted : TRUE
         IN  [request |-> r, role |-> req[r].role]

Abstract == INSTANCE AccessControl
    WITH tree <- [f \in Files |-> AclOf(f)], clock <- now, acting <- ActingNow

ASSUME ActorsDistinct ==
    /\ Nobody \notin [request : Requests, role : Abstract!Role]
    /\ Absent \notin Abstract!Node

\* One request at a time, the store behaves as the atomic access-control list:
\* every check of a role gives what the tree says at the instant it succeeds,
\* an access patch is its operations in order, a removal is for good.
ImplementsAccessControl == Abstract!AcSpec
=============================================================================
