CONSTANTS
    text = text
    user = user
    reference = reference
    version = version
    blob = blob
    Entities <- MCEntities
    Values <- MCValues
    Links <- MCLinks
    MaxCrashes = 1
    Declared <- MCDeclared
    Deletable <- MCDeletable
    NoEntity = NoEntity
    BackupFails = TRUE
SPECIFICATION FairSpec
INVARIANT StoreWellFormed
PROPERTIES DeleteDecides ValuesStayWithOwner GarbageGoes
