CONSTANTS
    t1 = t1
    t2 = t2
    page = page
    image = image
    pageFile = pageFile
    imageFile = imageFile
    NoThread = NoThread
    NoAnswer <- MCNoAnswer
    Threads <- MCThreads
    Entities <- MCEntities
    Blobs <- MCBlobs
    Parts <- MCParts
    MaxDepth = 1
SPECIFICATION Spec
INVARIANT StoredBlobHasFile
