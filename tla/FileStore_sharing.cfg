SPECIFICATION Spec
CONSTANTS
    Users = {alice, bob, carol}
    Groups = {}
    Anyone = Anyone
    Files = {ws, doc}
    Root = Root
    PermIds = {p1, p2, p3}
    Absent = Absent
    Unread = Unread
    NoPerm = NoPerm
    Nobody = Nobody
    Requests = {bobAddsCarol, aliceReplacesCarol, carolEdits, aliceDeletes, aliceDropsBob}
    Call <- Calls
    MaxInFlight = 2
    MaxTime = 0
    CanCrash = TRUE
    InitFiles <- SpaceFiles
    InitPerms <- SpacePerms
    InitShared <- SpaceShared
    InitIssued <- SpaceIssued
    InitPlaced <- SpacePlaced
    alice = alice
    bob = bob
    carol = carol
    team = team
    ws = ws
    doc = doc
    fresh = fresh
    sub = sub
    p1 = p1
    p2 = p2
    p3 = p3
    p4 = p4
    p5 = p5
    bobAddsCarol = bobAddsCarol
    aliceChurnsCarol = aliceChurnsCarol
    aliceRenewsCarol = aliceRenewsCarol
    aliceOpensDoc = aliceOpensDoc
    aliceClosesDoc = aliceClosesDoc
    aliceAddsTeam = aliceAddsTeam
    aliceDropsTeam = aliceDropsTeam
    aliceDropsBob = aliceDropsBob
    aliceEdits = aliceEdits
    bobEdits = bobEdits
    carolEdits = carolEdits
    carolReads = carolReads
    aliceDeletes = aliceDeletes
    carolDeletes = carolDeletes
    bobCreates = bobCreates
    aliceCreates = aliceCreates
    carolCreates = carolCreates
    aliceNests = aliceNests
    aliceTurnsBack = aliceTurnsBack
    aliceReplacesCarol = aliceReplacesCarol
SYMMETRY FreshKeys
INVARIANTS
    TypeOK
    OneGrantPerGrantee
    BinBeforeDelete
    EventsStayInside
