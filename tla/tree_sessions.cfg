SPECIFICATION Spec
CONSTANTS
    Home = home
    NoNode = NoNode
    NoId = NoId
    Nodes = {home, n1, n2, n3, bin}
    Trashes = {bin}
    Ids = {a, b}
    Stale <- NothingStale
SYMMETRY Symmetry
INVARIANTS TypeOK ParentsMatchChildren Acyclic UniqueIds RepositoryIsTree DiskIsCurrent RootSurvives
PROPERTY OnlyDeletionLosesNodes
