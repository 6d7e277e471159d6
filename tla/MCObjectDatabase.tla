--------------------------- MODULE MCObjectDatabase ---------------------------
(* ObjectDatabase on two threads and two entities that enclose a blob each. *)
EXTENDS ObjectDatabase

CONSTANTS t1, t2, page, image, pageFile, imageFile

MCThreads == {t1, t2}
MCEntities == {page, image}
MCBlobs == {pageFile, imageFile}
MCNoAnswer == {NoThread}
MCParts == [e \in {page, image} |-> IF e = page THEN {pageFile} ELSE {imageFile}]
=============================================================================
