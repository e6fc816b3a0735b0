SPECIFICATION Spec
CONSTANTS
    Owners = {ann, ben}
    Keys = {k1, k2, k3}
    Words = {red, blue}
    Absent = Absent
    NoEntry = NoEntry
    Requests = {find, findAgain, drop12, restore2, paint2, benPuts3}
    Call <- Calls
    MaxInFlight = 2
    MaxRestarts = 1
    InitDocs <- Docs
    ann = ann
    ben = ben
    k1 = k1
    k2 = k2
    k3 = k3
    red = red
    blue = blue
    find = find
    findAgain = findAgain
    benPuts3 = benPuts3
    drop1 = drop1
    drop12 = drop12
    restore2 = restore2
    paint2 = paint2
SYMMETRY SameQueries
INVARIANTS
    TypeOK
PROPERTIES
    QueryExact
