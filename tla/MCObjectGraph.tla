---------------------------- MODULE MCObjectGraph ----------------------------
(* ObjectGraph on a content with a version that holds a blob, the user who *)
(* edited it, and a reference to the content.                              *)
EXTENDS ObjectGraph

CONSTANTS text, user, reference, version, blob

MCEntities == {text, user, reference}
MCValues == {version, blob}
MCLinks == {<<text, user>>, <<reference, text>>, <<text, version>>, <<version, blob>>}

MCDeletable == {user}
(* Reference.content is declared as Content, and text is a Text. *)
MCDeclared == MCLinks \ {<<reference, text>>}
=============================================================================
