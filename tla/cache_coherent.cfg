CONSTANTS
    t1 = t1
    t2 = t2
    nodesByPath = nodesByPath
    redirects = redirects
    nodes = nodes
    users = users
    NoThread = NoThread
    None = None
    Threads <- MCThreads
    Suppliers <- MCSuppliers
    Topics <- MCTopics
    Reads <- MCReads
    Persisted <- MCPersisted
    Slots = 3
    MaxVersion = 2
SPECIFICATION CacheSpec
CONSTANT Home <- SameHome
INVARIANTS CacheTypeOK CacheCurrent AnswerCurrent MixUpsEnd
