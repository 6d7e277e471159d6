SPECIFICATION Spec
CONSTANTS
    Home = home
    NoNode = NoNode
    NoId = NoId
    Nodes = {home, n1, n2, n3, bin}
    Trashes = {bin}
    Ids = {a, b}
    Stale <- StaleCopy
SYMMETRY Symmetry
INVARIANT RepositoryIsTree

