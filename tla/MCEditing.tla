------------------------------- MODULE MCEditing -------------------------------
(* Editing with an administrator and another user, and a text with two links, *)
(* of which the target of one moves.                                          *)
EXTENDS Editing

CONSTANTS admin, user, news, more

MCSessions == {admin, user}
MCAdmins == {admin}
OneTarget == {news}
TwoTargets == {news, more}

(* "/news2" begins with "/news"; and there is a path in the trash. *)
Trash == {<<9>>}
Prefixed == {<<1>>, <<1, 2>>, <<3>>} \cup Trash
StartPrefixed == [t \in TwoTargets |-> IF t = news THEN <<1>> ELSE <<1, 2>>]
=============================================================================
