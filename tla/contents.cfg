SPECIFICATION Spec
CONSTANTS
    NoNode = NoNode
    Home = home
    Nodes = {home, f, g, t, u, r, s}
    Folders = {home, f, g}
    Trashes = {t, u}
    References = {r, s}
    MaxNodes = 4
    MaxRoots = 2
SYMMETRY Symmetry
INVARIANTS TypeOK Acyclic
PROPERTIES RootsStay NoDanglingReference GuardedContentsStay
