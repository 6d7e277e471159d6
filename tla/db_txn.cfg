CONSTANTS
    t1 = t1
    t2 = t2
    page = page
    image = image
    pageFile = pageFile
    imageFile = imageFile
    NoThread = NoThread
    NoAnswer <- MCNoAnswer
    Threads <- MCThreads
    Entities <- MCEntities
    Blobs <- MCBlobs
    Parts <- MCParts
    MaxDepth = 2
SPECIFICATION FairSpec
INVARIANTS TypeOK ReadersSeeCommitted RepositoryMatchesDisk
PROPERTIES RepeatableRead CommittedBlobsMoved UnlinkOnlyRemoved WriterLeaves ImplementsStore
