SPECIFICATION FairSpec
CONSTANTS
    Sids = {s1, s2}
    States = {x, y}
    People = {ann, ben}
    Nobody = Nobody
    NoSession = NoSession
    NoSid = NoSid
    NoState = NoState
    Requests = {start, use, login, loginAgain, open, openAgain, annReturns, annReloads, benReturns, renew, end}
    Call <- Calls
    Scripts <- Races
    s1 = s1
    s2 = s2
    x = x
    y = y
    ann = ann
    ben = ben
    start = start
    use = use
    login = login
    loginAgain = loginAgain
    open = open
    openAgain = openAgain
    annReturns = annReturns
    annReloads = annReloads
    benReturns = benReturns
    renew = renew
    end = end
INVARIANTS
    TypeOK
    SessionsBelongToSigners
    StateRedeemedOnce
    TokensDurable
    SignInDurable
PROPERTIES
    CacheInvisible
    EveryRequestAnswered
