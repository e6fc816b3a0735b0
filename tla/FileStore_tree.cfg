SPECIFICATION FairSpec
CONSTANTS
    Users = {alice, bob, carol}
    Groups = {}
    Anyone = Anyone
    Files = {ws, doc, fresh, sub}
    Root = Root
    PermIds = {p1, p2}
    Absent = Absent
    Unread = Unread
    NoPerm = NoPerm
    Nobody = Nobody
    Requests = {carolCreates, aliceTurnsBack, aliceNests, aliceDropsBob, bobAddsCarol}
    Call <- Calls
    MaxInFlight = 2
    MaxTime = 0
    CanCrash = TRUE
    InitFiles <- SpaceFiles
    InitPerms <- SpacePerms
    InitShared <- SpaceShared
    InitIssued <- SpaceIssued
    InitPlaced <- SpacePlaced
    alice = alice
    bob = bob
    carol = carol
    team = team
    ws = ws
    doc = doc
    fresh = fresh
    sub = sub
    p1 = p1
    p2 = p2
    p3 = p3
    p4 = p4
    p5 = p5
    bobAddsCarol = bobAddsCarol
    aliceChurnsCarol = aliceChurnsCarol
    aliceRenewsCarol = aliceRenewsCarol
    aliceOpensDoc = aliceOpensDoc
    aliceClosesDoc = aliceClosesDoc
    aliceAddsTeam = aliceAddsTeam
    aliceDropsTeam = aliceDropsTeam
    aliceDropsBob = aliceDropsBob
    aliceEdits = aliceEdits
    bobEdits = bobEdits
    carolEdits = carolEdits
    carolReads = carolReads
    aliceDeletes = aliceDeletes
    carolDeletes = carolDeletes
    bobCreates = bobCreates
    aliceCreates = aliceCreates
    carolCreates = carolCreates
    aliceNests = aliceNests
    aliceTurnsBack = aliceTurnsBack
    aliceReplacesCarol = aliceReplacesCarol
INVARIANTS
    RefsResolve
    PermissionsNotShared
    WritesAuthorised
    OnlyRacesMakeCircles
PROPERTIES
    EveryRequestAnswered
