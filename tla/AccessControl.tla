---------------------------- MODULE AccessControl ----------------------------
(***************************************************************************)
(* What the file store promises when requests come one at a time: files in *)
(* a tree, each with an owner and a set of grants, and every change made   *)
(* by a request whose user the tree entitles to it.  Entitlement is stated *)
(* over the tree at one instant, and an access patch as a function of the  *)
(* grants; FileStore finds the one out record by record and carries the    *)
(* other out write by write.                                               *)
(***************************************************************************)
EXTENDS Naturals, Sequences

CONSTANTS Users, Grantees, Anyone, Files, Root, Absent, Nobody, Requests, Call,
          MaxTime

VARIABLES
    tree,    \* Files -> [owner, parent, grants, deleted, by, edits] or Absent
    clock,
    acting   \* the request let in to make a change, with its role, or Nobody

acVars == <<tree, clock, acting>>

Role == {"reader", "commenter", "writer", "owner"}
AclGrant == [to : Grantees, role : Role, expires : 0..MaxTime]
Node == [owner : Users, parent : Files \cup {Root}, grants : SUBSET AclGrant,
         deleted : BOOLEAN, by : Users, edits : SUBSET Requests]

-----------------------------------------------------------------------------
\* Entitlement

InForce(grant) == grant.expires = 0 \/ clock <= grant.expires

\* The smallest set that holds f and the parent of each of its members.
Ancestry(f) ==
    LET closed == {S \in SUBSET Files :
                     /\ f \in S
                     /\ \A g \in S :
                          (tree[g] # Absent /\ tree[g].parent # Root)
                              => tree[g].parent \in S}
    IN  {g \in Files : \A S \in closed : g \in S}

\* What one file says about a user: ownership, else the user's own grant, else
\* the grant to anyone.
Says(f, user) ==
    LET given(to) == {g.role : g \in {x \in tree[f].grants :
                                        x.to = to /\ InForce(x)}}
    IN  IF tree[f].owner = user THEN {"owner"}
        ELSE IF given(user) # {} THEN given(user)
        ELSE given(Anyone)

\* The files of the ancestry that settle the question, and of those the
\* nearest: all the others lie above it.  A removed file settles it with no.
Settles(f, user) ==
    {g \in Ancestry(f) :
        tree[g] = Absent \/ tree[g].deleted \/ Says(g, user) # {}}

RolesOf(user, f) ==
    UNION {Says(g, user) :
              g \in {n \in Settles(f, user) :
                        /\ Settles(f, user) \subseteq Ancestry(n)
                        /\ tree[n] # Absent /\ ~tree[n].deleted}}

-----------------------------------------------------------------------------
\* Access patches

\* The grants to one grantee after the first n operations: of those that name
\* him the last one decides, and the adds since he was last removed say when
\* the grant expires: the last time they bring, or else as before.
GrantsTo(to, grants, ops, n) ==
    LET mine  == {i \in 1..n : ops[i].to = to}
        since == {i \in mine : \A j \in mine : i <= j => ops[j].op = "add"}
        timed == {i \in since : ops[i].expires # 0}
        last(S) == {i \in S : \A j \in S : j <= i}
        old   == {g \in grants : g.to = to}
        times == IF timed # {} THEN {ops[i].expires : i \in last(timed)}
                 ELSE IF since = mine /\ old # {} THEN {g.expires : g \in old}
                 ELSE {0}
    IN  IF mine = {} THEN old
        ELSE [to : {to}, role : {ops[i].role : i \in last(since)}, expires : times]

Patched(grants, ops, n) == UNION {GrantsTo(to, grants, ops, n) : to \in Grantees}

-----------------------------------------------------------------------------
AcInit ==
    /\ tree \in [Files -> Node \cup {Absent}]
    /\ clock = 0
    /\ acting = Nobody

\* A file is made under a parent with access to the parent.
Target(r) == IF Call[r].kind = "create" THEN Call[r].parent ELSE Call[r].file

Acts(r, kind) == Call[r].kind = kind /\ acting # Nobody /\ acting.request = r

\* A request is let in to change its target: for writers and owners only.
Admit(r) ==
    /\ acting = Nobody
    /\ Target(r) # Root
    /\ \E role \in RolesOf(Call[r].user, Target(r)) \cap {"writer", "owner"} :
          acting' = [request |-> r, role |-> role]
    /\ UNCHANGED <<tree, clock>>

Leave == /\ acting # Nobody
         /\ acting' = Nobody
         /\ UNCHANGED <<tree, clock>>

\* A key is used once.
Create(r) ==
    /\ Acts(r, "create") \/ (Call[r].kind = "create" /\ Call[r].parent = Root)
    /\ tree[Call[r].file] = Absent
    /\ tree' = [tree EXCEPT ![Call[r].file] =
          [owner |-> Call[r].user, parent |-> Call[r].parent, grants |-> {},
           deleted |-> FALSE, by |-> Call[r].user, edits |-> {}]]
    /\ acting' = Nobody
    /\ UNCHANGED clock

Edit(r) ==
    /\ Acts(r, "patch")
    /\ tree' = [tree EXCEPT ![Call[r].file].edits = @ \cup {r},
                            ![Call[r].file].by = Call[r].user]
    /\ acting' = Nobody
    /\ UNCHANGED clock

\* A grant that exists may change ahead of the rest of the patch ...
Regrant(r) ==
    /\ Acts(r, "access")
    /\ \E i \in DOMAIN Call[r].ops :
          /\ Call[r].ops[i].op = "add"
          /\ \E g \in tree[Call[r].file].grants : g.to = Call[r].ops[i].to
          /\ tree' = [tree EXCEPT ![Call[r].file].grants =
                                      Patched(@, <<Call[r].ops[i]>>, 1)]
    /\ UNCHANGED <<clock, acting>>

\* ... and the patch as a whole is all its operations.
Commit(r) ==
    /\ Acts(r, "access")
    /\ LET ops == Call[r].ops
       IN  tree' = [tree EXCEPT ![Call[r].file].grants = Patched(@, ops, Len(ops)),
                                ![Call[r].file].by = Call[r].user]
    /\ acting' = Nobody
    /\ UNCHANGED clock

\* Removal is for owners, and for good: no action takes it back.
Delete(r) ==
    /\ Acts(r, "delete") /\ acting.role = "owner"
    /\ tree' = [tree EXCEPT ![Call[r].file].deleted = TRUE]
    /\ acting' = Nobody
    /\ UNCHANGED clock

Pass == /\ clock' > clock
        /\ UNCHANGED <<tree, acting>>

AcNext ==
    \/ \E r \in Requests :
          \/ Admit(r) \/ Create(r) \/ Edit(r) \/ Regrant(r) \/ Commit(r)
          \/ Delete(r)
    \/ Leave
    \/ Pass

AcSpec == AcInit /\ [][AcNext]_acVars
=============================================================================
