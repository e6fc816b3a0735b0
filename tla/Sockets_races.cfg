SPECIFICATION FairSpec
CONSTANTS
    Clients = {annFile, annFileAgain, benFile, anyFile, annFiles, benFiles, anyFiles, annLogin, benLogin, annNowhere, annHistory, anyHistory, noFile, annRing, benRing, eveFile}
    People = {ann, ben, eve}
    Urls = {file, ring, files, history, auth, nowhere}
    Anonymous = Anonymous
    NoSession = NoSession
    Kind <- MCKind
    User <- MCUser
    Url <- MCUrl
    Readers <- MCReaders
    Circles = {ring}
    Visitors = {tab}
    Gatherings <- MCGatherings
    ann = ann
    ben = ben
    eve = eve
    file = file
    ring = ring
    files = files
    history = history
    auth = auth
    nowhere = nowhere
    annFile = annFile
    annFileAgain = annFileAgain
    benFile = benFile
    annFiles = annFiles
    benFiles = benFiles
    anyFiles = anyFiles
    anyFile = anyFile
    noFile = noFile
    annHistory = annHistory
    anyHistory = anyHistory
    annLogin = annLogin
    benLogin = benLogin
    annNowhere = annNowhere
    annRing = annRing
    benRing = benRing
    eveFile = eveFile
    tab = tab
INVARIANTS
    TypeOK
    OpenClientsListed
    FileRoutesInUse
PROPERTIES
    LeavingDisturbsNobody
    EveryUpgradeAnswered
    OnlyClientsDelayTheEnd
