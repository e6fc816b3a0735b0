SPECIFICATION Spec
CONSTANTS
    LastKey = 5
    Users = {ann, ben}
    UserOf <- Owner
    Targets = {team, shop, login, tool}
    KindOf <- Kind
    Writers <- Access
    Readers <- Access
    Filled = {}
    Absent = Absent
    Requests = {addBulk, delete2, bulkDelete34, listLogin, listShop, searchShop}
    Call <- Calls
    Limit = 1
    MaxInFlight = 2
    MaxRestarts = 1
    InitData <- Data
    ann = ann
    ben = ben
    team = team
    shop = shop
    login = login
    tool = tool
    addOwn = addOwn
    addBulk = addBulk
    addAgain = addAgain
    addBare = addBare
    delete2 = delete2
    delete3 = delete3
    bulkDelete34 = bulkDelete34
    benDeletes = benDeletes
    listOwn = listOwn
    listTeam = listTeam
    listLogin = listLogin
    listShop = listShop
    benListsShop = benListsShop
    searchShop = searchShop
INVARIANTS
    TypeOK
    IndexExact
PROPERTIES
    ListFailsForUnfinishedAdds
    NothingSkipped
