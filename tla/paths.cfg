CONSTANTS
    home = home
    folder = folder
    content = content
    copy = copy
    x = x
    y = y
    NoNode = NoNode
    NoId = NoId
    None = None
    Home = home
    Nodes <- MCNodes
    Ids <- MCIds
    Copies <- MCCopies
    Visitors = {v1, v2}
    Queries <- MCQueries
    FirstChildren <- MCFirstChildren
    FirstIds <- MCFirstIds
    MaxWrites = 2
SPECIFICATION Spec
SYMMETRY Symmetry
INVARIANTS TypeOK AnswerAtPath
