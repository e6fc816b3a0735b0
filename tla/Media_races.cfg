SPECIFICATION FairSpec
CONSTANTS
    Files = {doc, note, space}
    Spaces = {space}
    People = {ann, ben, cat}
    Access <- MCAccess
    Fields = {title}
    Values = {first, second, third}
    Absent = Absent
    NoContents = NoContents
    NoRevision = NoRevision
    Requests = {upload, uploadAgain, jot, jotAgain, patch, patchBack, suggest, retitle, delete, erase, fill, drop, read, log}
    Call <- Calls
    Scripts <- MCScripts
    MaxTime = 3
    MaxInFlight = 3
    doc = doc
    note = note
    space = space
    ann = ann
    ben = ben
    cat = cat
    title = title
    first = first
    second = second
    third = third
    upload = upload
    uploadAgain = uploadAgain
    jot = jot
    jotAgain = jotAgain
    patch = patch
    patchBack = patchBack
    suggest = suggest
    retitle = retitle
    delete = delete
    erase = erase
    fill = fill
    drop = drop
    read = read
    log = log
INVARIANTS
    TypeOK
    UndoRestores
    EveryChangeHasRevision
    ListingComplete
    RemovedTogether
PROPERTIES
    ReplacedByPatchOnly
    EveryRequestAnswered
