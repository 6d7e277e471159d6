-------------------------------- MODULE MCPaths --------------------------------
(* Paths with a folder and a content in it, and a copy for previews. *)
EXTENDS Paths

CONSTANTS home, folder, content, copy, x, y

MCNodes == {home, folder, content, copy}
MCIds == {x, y}
MCCopies == {copy}
MCQueries == {<<x, y>>}
MCFirstChildren == [n \in MCNodes |-> CASE n = home -> <<folder>> [] n = folder -> <<content>>
                                        [] OTHER -> <<>>]
MCFirstIds == [n \in MCNodes |-> CASE n = folder -> x [] n = content -> y [] OTHER -> NoId]
Symmetry == Permutations(Visitors)
=============================================================================
