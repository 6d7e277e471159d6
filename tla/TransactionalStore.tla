-------------------------- MODULE TransactionalStore --------------------------
(***************************************************************************)
(* What jfix.db4o.ObjectDatabase promises its callers: a set of objects    *)
(* that changes only as a whole, when the one transaction that is open     *)
(* publishes its draft, and that every answer to a query is.  A            *)
(* transaction that fails closes the store, so that nobody gets an answer  *)
(* with what it has not published; where that fails, too, the store is     *)
(* torn until it is closed: answers and drafts may hold anything.  A       *)
(* transaction may publish several times, once for each transaction nested *)
(* in it.                                                                  *)
(***************************************************************************)
CONSTANTS Threads, NoThread, Objects, NoAnswer

VARIABLES store,    \* the published objects: what survives a crash
          draft,    \* what the open transaction has made of them
          owner,    \* the thread whose transaction is open, or NoThread
          stage,    \* "none", "active", "committed" or "aborted"
          open,     \* the store answers
          torn,     \* a transaction has failed, and the store could not be closed
          answer    \* answer[t]: what t was answered within its read section

vars == <<store, draft, owner, stage, open, torn, answer>>

Init ==
    /\ store = {} /\ draft = {}
    /\ owner = NoThread /\ stage = "none"
    /\ open = TRUE /\ torn = FALSE
    /\ answer = [t \in Threads |-> NoAnswer]

(* Opens a transaction; nobody is left holding an answer it could outdate. *)
Begin(t) ==
    /\ stage = "none" /\ open
    /\ \A u \in Threads : answer[u] = NoAnswer
    /\ owner' = t /\ stage' = "active"
    /\ UNCHANGED <<store, draft, open, torn, answer>>

(* The transaction changes its draft, which nobody else sees. *)
Change ==
    /\ stage = "active" /\ open
    /\ draft' \in SUBSET Objects
    /\ UNCHANGED <<store, owner, stage, open, torn, answer>>

(* All of the draft is published in one step. *)
Publish ==
    /\ stage = "active" /\ open
    /\ store' = draft /\ stage' = "committed"
    /\ UNCHANGED <<draft, owner, open, torn, answer>>

(* The transaction that has ended was nested in another, which goes on: what *)
(* was published stays, even if the outer one is aborted.                    *)
Resume ==
    /\ stage \in {"committed", "aborted"} /\ open
    /\ stage' = "active"
    /\ UNCHANGED <<store, draft, owner, open, torn, answer>>

(* Nothing of the draft is published, and the store closes. *)
Abort ==
    /\ stage = "active"
    /\ draft' = store /\ stage' = "aborted" /\ open' = FALSE /\ torn' = FALSE
    /\ UNCHANGED <<store, owner, answer>>

(* The transaction fails, and the store cannot be closed. *)
Tear ==
    /\ stage = "active"
    /\ stage' = "aborted" /\ torn' = TRUE
    /\ UNCHANGED <<store, draft, owner, open, answer>>

(* The transaction returns, or throws, to its caller. *)
End ==
    /\ stage \in {"committed", "aborted"}
    /\ owner' = NoThread /\ stage' = "none"
    /\ UNCHANGED <<store, draft, open, torn, answer>>

(* A query between transactions is answered with the published objects. *)
Answer(t) ==
    /\ stage = "none" /\ open
    /\ \E a \in SUBSET Objects :
          /\ ~torn => a = store
          /\ answer' = [answer EXCEPT ![t] = a]
    /\ UNCHANGED <<store, draft, owner, stage, open, torn>>

Forget(t) ==
    /\ answer' = [answer EXCEPT ![t] = NoAnswer]
    /\ UNCHANGED <<store, draft, owner, stage, open, torn>>

(* A crash or an orderly close: only what is published is left, or, of a *)
(* store that is torn, its draft.                                        *)
Stop ==
    /\ owner' = NoThread /\ stage' = "none"
    /\ store' \in IF torn THEN {store, draft} ELSE {store}
    /\ draft' = store' /\ open' = FALSE /\ torn' = FALSE
    /\ answer' = [t \in Threads |-> NoAnswer]

Restart ==
    /\ ~open /\ stage = "none"
    /\ open' = TRUE
    /\ UNCHANGED <<store, draft, owner, stage, torn, answer>>

Next ==
    \/ \E t \in Threads : Begin(t) \/ Answer(t) \/ Forget(t)
    \/ Change \/ Publish \/ Resume \/ Abort \/ Tear \/ End \/ Stop \/ Restart

Spec == Init /\ [][Next]_vars
=============================================================================
