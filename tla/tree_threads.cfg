SPECIFICATION Spec
CONSTANTS
    NoNode = NoNode
    NoThread = NoThread
    Home = home
    Nodes = {home, n1, n2, n3}
    Threads = {mover, other}
    Movers = {mover}
SYMMETRY Symmetry
INVARIANTS TypeOK DiskCurrentAtRest NoMarkAtRest Acyclic
