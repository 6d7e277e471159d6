------------------------------- MODULE Editing -------------------------------
(***************************************************************************)
(* One content that several sessions edit (ContentEditor, ObjectEditor),   *)
(* its revisions (Revisions), and the links in its text, which a move of   *)
(* their targets rewrites (Relocator).                                     *)
(*                                                                         *)
(* An editor loads, validates and saves, and deletes, while it holds the   *)
(* monitor of the content.  The choice of a revision, the purge of the     *)
(* administrator, the deletion of a container above, the replacement of a  *)
(* user and the relocation do without it, so the steps of a save are apart *)
(* here.  A transaction of the database is one step (see ObjectDatabase);  *)
(* one that fails closes the database, which is Crash here.  An exception  *)
(* before the transaction is Fail: it leaves what was assigned so far.     *)
(*                                                                         *)
(* Previews, copies and the container of a session are in NodeTree; what   *)
(* a deletion takes with it is in Contents.                                *)
(***************************************************************************)
EXTENDS Integers, Sequences, FiniteSets

CONSTANTS Sessions,
          Admins,       \* the sessions of administrators
          Count, Days,  \* jease.revision.count and jease.revision.days
          PurgeTo,      \* how many revisions a purge of the administrator may leave
          Targets,      \* what the text links to
          Moving,       \* those of them that move
          Paths,        \* the paths where these can be, sequences
          Trashed,      \* those of them in the trash
          Start,        \* Start[t]: the first path of target t
          FirstEditor,  \* its last editor at the start
          MaxEvents,    \* bound on the number of saves, deletions and moves
          Nobody, NoDate, Gone, None

ASSUME AdminsAssumption == Admins \subseteq Sessions
ASSUME MovingAssumption == Moving \subseteq Targets
ASSUME RevisionAssumption == Count \in Int /\ Days \in Int /\ Count >= -1 /\ Days >= -1
ASSUME StartAssumption == Start \in [Targets -> Paths]
ASSUME PathsAssumption == Paths \subseteq Seq(Int) /\ Trashed \subseteq Paths
ASSUME EventsAssumption == MaxEvents \in Nat
ASSUME NobodyAssumption == Nobody \notin Sessions
ASSUME EditorAssumption == FirstEditor \in Sessions \cup {Nobody}
ASSUME NoDateAssumption == NoDate \notin Nat

VARIABLES
    clock,      \* the number of Dates made so far; the saves are numbered by it
    moves,      \* the number of moves so far, for the bound
    text,       \* the fields of the content: the save they come from, the links
    editor,     \* its last editor
    stamp,      \* its lastModified: a Date is compared by its identity
    revisions,  \* its versions, newest first
    attached,   \* whether it has a parent
    disk,       \* what the database has of it
    monitor,    \* the session in invokeSave
    step,       \* where a session is
    fields,     \* the links in the text field of its editor
    seen,       \* its lastNodeModification
    listed,     \* how many revisions it shows
    keep,       \* the array of revisions the purge is about to set
    place,      \* where the targets are in memory,
    diskPlace,  \* and on disk
    mover       \* the session that moves a target

(* What happened, for the properties only.                                 *)
VARIABLES
    missed,     \* what happened to the content since a session loaded it
    lost,       \* whether a save that passed the stale check overwrote a date
    kept,       \* the versions that no purge was allowed to drop, or raced with
    pending,    \* the versions checked in since the content was stored
    failed,     \* whether a save has failed since then, and has left changes
    outdated,   \* the targets whose links may have been left behind
    mixed       \* those whose links the move of another target has rewritten

unsavedVars == <<pending, failed>>
contentVars == <<text, editor, stamp, revisions, attached, disk, unsavedVars>>
sessionVars == <<monitor, step, fields, seen, listed>>
moveVars == <<moves, place, diskPlace, mover>>
auxVars == <<missed, lost, kept, outdated, mixed>>
vars == <<clock, contentVars, sessionVars, keep, moveVars, auxVars>>

Links == [Targets -> Seq(Int)]
Texts == [version : 0..MaxEvents, links : Links]
Images == [text : Texts, editor : Sessions \cup {Nobody}, revisions : Seq(Texts)]
Kinds == {"dated", "moved"}
Steps == {"closed", "open", "valid", "unchecked", "written", "versioned"}

ASSUME GoneAssumption == Gone \notin Images
ASSUME NoneAssumption == None \notin [target : Targets, old : Paths, rewritten : BOOLEAN]

TypeOK ==
    /\ clock \in 0..MaxEvents /\ moves \in Nat
    /\ text \in Texts
    /\ editor \in Sessions \cup {Nobody}
    /\ stamp \in 0..MaxEvents
    /\ revisions \in Seq(Texts)
    /\ attached \in BOOLEAN
    /\ disk = Gone \/ disk \in Images
    /\ monitor \in Sessions \cup {Nobody}
    /\ step \in [Sessions -> Steps]
    /\ fields \in [Sessions -> Links]
    /\ seen \in [Sessions -> 0..MaxEvents \cup {NoDate}]
    /\ listed \in [Sessions -> Nat]
    /\ keep = None \/ keep \in Seq(Texts)
    /\ place \in [Targets -> Paths] /\ diskPlace \in [Targets -> Paths]
    /\ mover = None \/ mover \in [target : Targets, old : Paths, rewritten : BOOLEAN]
    /\ missed \in [Sessions -> SUBSET Kinds]
    /\ lost \in BOOLEAN
    /\ kept \subseteq 0..MaxEvents
    /\ pending \subseteq 0..MaxEvents
    /\ failed \in BOOLEAN
    /\ outdated \subseteq Targets /\ mixed \subseteq Targets

FirstText == [version |-> 0, links |-> Start]

(* The content was saved once and has one revision. *)
Init ==
    /\ clock = 0 /\ moves = 0
    /\ text = FirstText
    /\ editor = FirstEditor
    /\ stamp = 0
    /\ revisions = <<FirstText>>
    /\ attached = TRUE
    /\ disk = [text |-> FirstText, editor |-> editor, revisions |-> <<FirstText>>]
    /\ monitor = Nobody
    /\ step = [s \in Sessions |-> "closed"]
    /\ fields = [s \in Sessions |-> Start]
    /\ seen = [s \in Sessions |-> NoDate]
    /\ listed = [s \in Sessions |-> 0]
    /\ keep = None
    /\ place = Start /\ diskPlace = Start /\ mover = None
    /\ missed = [s \in Sessions |-> {}]
    /\ lost = FALSE
    /\ kept = {0} /\ pending = {} /\ failed = FALSE
    /\ outdated = {} /\ mixed = {}

Configured == Count # 0 \/ Days # 0

Versions(revs) == {revs[i].version : i \in 1..Len(revs)}

MoreEvents == clock + moves < MaxEvents

(* Nodes.save(content): rooted it is saved, otherwise it is deleted. *)
Save ==
    /\ disk' = IF attached' THEN [text |-> text', editor |-> editor', revisions |-> revisions']
                            ELSE Gone
    /\ pending' = {} /\ failed' = FALSE

(* A change of the content, for the sessions that have loaded it before.    *)
Note(s, kind) ==
    missed' = [r \in Sessions |-> IF r = s \/ step[r] = "closed" THEN missed[r]
                                                           ELSE missed[r] \cup {kind}]

(* The editors of the sessions in S are gone, and another one starts with  *)
(* empty fields.                                                           *)
CloseEditors(S) ==
    /\ step' = [s \in Sessions |-> IF s \in S THEN "closed" ELSE step[s]]
    /\ fields' = [s \in Sessions |-> IF s \in S THEN Start ELSE fields[s]]
    /\ seen' = [s \in Sessions |-> IF s \in S THEN NoDate ELSE seen[s]]
    /\ listed' = [s \in Sessions |-> IF s \in S THEN 0 ELSE listed[s]]

(***************************************************************************)
(* The editor of a session                                                 *)
(***************************************************************************)

(* invokeLoad: a content of the tree is opened, or the editor refreshed.   *)
Load(s) ==
    /\ step[s] = "open" \/ (step[s] = "closed" /\ attached)
    /\ monitor = Nobody
    /\ step' = [step EXCEPT ![s] = "open"]
    /\ fields' = [fields EXCEPT ![s] = text.links]
    /\ seen' = [seen EXCEPT ![s] = stamp]
    /\ listed' = [listed EXCEPT ![s] = Len(revisions)]
    /\ missed' = [missed EXCEPT ![s] = {}]
    /\ UNCHANGED <<clock, contentVars, monitor, keep, moveVars, lost, kept, outdated, mixed>>

(* Mutant: the version itself, with all it holds, is put into the field. *)
Choose_Version(s, i) ==
    /\ step[s] = "open" /\ i \in 1..listed[s] /\ i <= Len(revisions)
    /\ fields' = [fields EXCEPT ![s] = revisions[i]]
    /\ seen' = [seen EXCEPT ![s] = NoDate]
    /\ listed' = [listed EXCEPT ![s] = 0]
    /\ UNCHANGED <<clock, contentVars, monitor, step, keep, moveVars, auxVars>>

(* A revision is chosen by its place in the list that the editor shows.    *)
(* The peek at it empties the list (a stored version has no versions) and  *)
(* turns the stale check off.                                              *)
Choose(s, i) ==
    /\ step[s] = "open" /\ i \in 1..listed[s] /\ i <= Len(revisions)
    /\ fields' = [fields EXCEPT ![s] = revisions[i].links]
    /\ seen' = [seen EXCEPT ![s] = NoDate]
    /\ listed' = [listed EXCEPT ![s] = 0]
    /\ UNCHANGED <<clock, contentVars, monitor, step, keep, moveVars, auxVars>>

Close(s) ==
    /\ step[s] = "open"
    /\ CloseEditors({s})
    /\ missed' = [missed EXCEPT ![s] = {}]
    /\ UNCHANGED <<clock, contentVars, monitor, keep, moveVars, lost, kept, outdated, mixed>>

(* Mutant: the check and the save are not synchronized. *)
Validate_NoMonitor(s) ==
    /\ step[s] = "open"
    /\ seen[s] # NoDate => seen[s] = stamp
    /\ monitor' = s
    /\ step' = [step EXCEPT ![s] = "valid"]
    /\ UNCHANGED <<clock, contentVars, fields, seen, listed, keep, moveVars, auxVars>>

(* invokeSave takes the monitor, and doValidate compares the dates: the    *)
(* content is stale, and the editor stays open, if they differ,            *)
Validate(s) ==
    /\ step[s] = "open" /\ monitor = Nobody
    /\ seen[s] # NoDate => seen[s] = stamp
    /\ monitor' = s
    /\ step' = [step EXCEPT ![s] = "valid"]
    /\ UNCHANGED <<clock, contentVars, fields, seen, listed, keep, moveVars, auxVars>>

(* unless the container of the session is a factory: then it does not look.*)
ValidateInFactory(s) ==
    /\ step[s] = "open" /\ monitor = Nobody
    /\ monitor' = s
    /\ step' = [step EXCEPT ![s] = "unchecked"]
    /\ UNCHANGED <<clock, contentVars, fields, seen, listed, keep, moveVars, auxVars>>

(* saveLastModification: the changes of an administrator to the content of *)
(* somebody else leave no mark.                                            *)
Marks(s) == editor = Nobody \/ editor \in Admins \/ s \notin Admins

Mark(s) ==
    /\ MoreEvents /\ clock' = clock + 1
    /\ IF Marks(s) THEN editor' = s /\ stamp' = clock' /\ Note(s, "dated")
                   ELSE UNCHANGED <<editor, stamp, missed>>

(* saveEditorToObject: a content without a parent gets one (the container  *)
(* of the session), then the fields of the content are assigned.           *)
Write(s) ==
    /\ step[s] \in {"valid", "unchecked"}
    /\ attached' = TRUE
    /\ Mark(s)
    /\ text' = [version |-> clock', links |-> fields[s]]
    /\ step' = [step EXCEPT ![s] = "written"]
    /\ lost' = (lost \/ (step[s] = "valid" /\ seen[s] # NoDate /\ "dated" \in missed[s]))
    /\ outdated' = IF "moved" \in missed[s] \/ seen[s] = NoDate THEN Targets ELSE outdated
    /\ UNCHANGED <<revisions, disk, unsavedVars, monitor, fields, seen, listed, keep, moveVars,
                   kept, mixed>>

(* An exception in saveEditorToObject (the id, the path, the fields of a   *)
(* type) leaves what was assigned before: nothing, the parent, or also the *)
(* editor and the date.                                                    *)
FailToWrite(s) ==
    /\ step[s] \in {"valid", "unchecked"}
    /\ \/ attached' \in {attached, TRUE} /\ UNCHANGED <<clock, editor, stamp, missed>>
       \/ attached' = TRUE /\ Mark(s)
    /\ UNCHANGED <<text, revisions>>
    /\ failed' = (failed \/ attached' # attached)

(* One in the checkin or in customize leaves the fields and, if it comes   *)
(* after addRevision, the version.                                         *)
FailToStore(s) ==
    /\ step[s] \in {"written", "versioned"}
    /\ \/ UNCHANGED revisions
       \/ step[s] = "written" /\ Configured /\ revisions' = <<text>> \o revisions
    /\ UNCHANGED <<clock, text, editor, stamp, attached, missed>>
    /\ failed' = TRUE

(* invokeSave catches it: the monitor is free and the editor stays open.   *)
Fail(s) ==
    /\ FailToWrite(s) \/ FailToStore(s)
    /\ monitor' = Nobody
    /\ step' = [step EXCEPT ![s] = "open"]
    /\ UNCHANGED <<disk, pending, fields, seen, listed, keep, moveVars, lost, kept, outdated, mixed>>

(***************************************************************************)
(* Revisions                                                               *)
(***************************************************************************)

(* purge(content, count, days): the newest count revisions are kept, and   *)
(* those that are younger than days; the files of older ones are older, so *)
(* a prefix stays.  -1 keeps everything.                                   *)
Purged(revs) ==
    LET least == IF Count < Len(revs) THEN Count ELSE Len(revs)
    IN  IF Count = -1 \/ Days = -1 THEN {revs}
        ELSE {SubSeq(revs, 1, n) : n \in least..(IF Days = 0 THEN least ELSE Len(revs))}

(* "Minimum count of revisions to be kept": of the versions that are owed, *)
(* those that are still owed when the text becomes one, too.  It is not if *)
(* a purge is under way, which may overwrite it.                           *)
Owed ==
    LET all == Versions(revisions) \cup {text.version}
        owed == IF keep = None THEN kept \cup {text.version} ELSE kept
    IN  {v \in owed : \/ Count = -1 \/ Days = -1
                      \/ Cardinality({w \in all : w > v}) < Count}

(* Mutant: the new version is added at the end. *)
Checkin_AtTheEnd(s) ==
    /\ step[s] = "written"
    /\ step' = [step EXCEPT ![s] = "versioned"]
    /\ LET added == Append(revisions, text)
       IN  revisions' \in IF Configured THEN Purged(added) ELSE {revisions}
    /\ kept' = Owed /\ pending' = pending \cup {text.version}
    /\ UNCHANGED <<clock, text, editor, stamp, attached, disk, failed, monitor, fields, seen,
                   listed, keep, moveVars, missed, lost, outdated, mixed>>

(* persist(): checkin, if it is configured, adds a version and purges, *)
Checkin(s) ==
    /\ step[s] = "written"
    /\ step' = [step EXCEPT ![s] = "versioned"]
    /\ LET added == <<text>> \o revisions
       IN  revisions' \in IF Configured THEN Purged(added) ELSE {revisions}
    /\ kept' = Owed /\ pending' = pending \cup {text.version}
    /\ UNCHANGED <<clock, text, editor, stamp, attached, disk, failed, monitor, fields, seen,
                   listed, keep, moveVars, missed, lost, outdated, mixed>>

(* and the content is saved.  The monitor is given back; what the editor   *)
(* does then (load again, close) shows nobody anything new.                *)
Persist(s) ==
    /\ step[s] = "versioned"
    /\ UNCHANGED <<text, editor, stamp, revisions, attached>> /\ Save
    /\ monitor' = Nobody
    /\ CloseEditors({s})
    /\ missed' = [missed EXCEPT ![s] = {}]
    /\ UNCHANGED <<clock, keep, moveVars, lost, kept, outdated, mixed>>

(* The purge of the administrator, without the monitor: it goes over the   *)
(* versions of a content of the tree (bound: PurgeTo),                     *)
PurgeRead ==
    /\ keep = None /\ attached
    /\ \E n \in PurgeTo \cap 0..Len(revisions) :
          /\ keep' = SubSeq(revisions, 1, n)
          /\ kept' = kept \cap Versions(keep')
    /\ UNCHANGED <<clock, contentVars, sessionVars, moveVars, missed, lost, outdated, mixed>>

(* Mutant: the purged array is not saved. *)
PurgeWrite_NoSave ==
    /\ keep # None
    /\ revisions' = keep /\ keep' = None
    /\ UNCHANGED <<clock, text, editor, stamp, attached, disk, unsavedVars, sessionVars, moveVars,
                   auxVars>>

(* and then sets the array of those it keeps, and saves the content. *)
PurgeWrite ==
    /\ keep # None
    /\ revisions' = keep /\ keep' = None
    /\ UNCHANGED <<text, editor, stamp, attached>> /\ Save
    /\ UNCHANGED <<clock, sessionVars, moveVars, auxVars>>

(***************************************************************************)
(* Deletions and users                                                     *)
(***************************************************************************)

(* ContentEditor.delete marks the content in any case, and then it is      *)
(* moved to the trash, deleted, or refused by isDeletable.                 *)
Delete(s) ==
    /\ step[s] = "open" /\ monitor = Nobody /\ MoreEvents
    /\ clock' = clock + 1
    /\ editor' = s /\ stamp' = clock'
    /\ UNCHANGED <<text, revisions>>
    /\ \/ UNCHANGED <<attached, disk, unsavedVars>>
       \/ attached /\ attached' = TRUE /\ Save
       \/ attached' = FALSE /\ Save
    /\ CloseEditors({s})
    /\ missed' = [r \in Sessions |->
          IF r = s THEN {} ELSE IF step[r] = "closed" THEN missed[r] ELSE missed[r] \cup {"dated"}]
    /\ UNCHANGED <<monitor, keep, moveVars, lost, kept, outdated, mixed>>

(* A container above is deleted: the content goes with it, without a mark. *)
DeleteAbove ==
    /\ attached /\ attached' = FALSE
    /\ UNCHANGED <<text, editor, stamp, revisions>> /\ Save
    /\ UNCHANGED <<clock, sessionVars, keep, moveVars, auxVars>>

(* Users.replace(u, a): an administrator deletes the user of a session. *)
ReplaceUser(u, a) ==
    /\ disk # Gone /\ editor = u /\ a \in Admins \ {u}
    /\ editor' = a
    /\ UNCHANGED <<text, stamp, revisions, attached>> /\ Save
    /\ UNCHANGED <<clock, sessionVars, keep, moveVars, auxVars>>

(***************************************************************************)
(* Relocation                                                              *)
(***************************************************************************)

(* A session changes the id or the parent of target t in memory.  Only in  *)
(* the trash two may have the same path.                                   *)
Move(t, p) ==
    /\ mover = None /\ MoreEvents
    /\ p # place[t] /\ (p \in Trashed \/ p \notin {place[u] : u \in Targets})
    /\ place' = [place EXCEPT ![t] = p]
    /\ mover' = [target |-> t, old |-> place[t], rewritten |-> FALSE]
    /\ moves' = moves + 1
    /\ UNCHANGED <<clock, contentVars, sessionVars, keep, diskPlace, auxVars>>

(* replace(target, replacement): what begins with the old path. *)
Replaced(link, old, new) ==
    IF Len(old) <= Len(link) /\ SubSeq(link, 1, Len(old)) = old
    THEN new \o SubSeq(link, Len(old) + 1, Len(link))
    ELSE link

Rewritten == [t \in Targets |-> Replaced(text.links[t], mover.old, place[mover.target])]

(* The links to other targets that begin with the old path.                *)
Mixed == {t \in Targets \ {mover.target} : Rewritten[t] # text.links[t]}

(* Mutant: the contents are changed and not saved. *)
Relocate_NoSave ==
    /\ mover # None /\ ~mover.rewritten
    /\ mover' = [mover EXCEPT !.rewritten = TRUE]
    /\ IF disk # Gone /\ place[mover.target] \notin Trashed
       THEN /\ text' = [text EXCEPT !.links = Rewritten]
            /\ UNCHANGED <<editor, stamp, revisions, attached, disk, unsavedVars, outdated>>
            /\ Note(Nobody, "moved") /\ mixed' = mixed \cup Mixed
       ELSE outdated' = outdated \cup {mover.target} /\ UNCHANGED <<contentVars, missed, mixed>>
    /\ UNCHANGED <<clock, sessionVars, keep, moves, place, diskPlace, lost, kept>>

(* Relocator.process, in a transaction of its own: every stored content    *)
(* with a link is changed and saved, unless the new path is in the trash.  *)
Relocate ==
    /\ mover # None /\ ~mover.rewritten
    /\ mover' = [mover EXCEPT !.rewritten = TRUE]
    /\ IF disk # Gone /\ place[mover.target] \notin Trashed
       THEN /\ text' = [text EXCEPT !.links = Rewritten]
            /\ UNCHANGED <<editor, stamp, revisions, attached, outdated>> /\ Save
            /\ Note(Nobody, "moved") /\ mixed' = mixed \cup Mixed
       ELSE outdated' = outdated \cup {mover.target} /\ UNCHANGED <<contentVars, missed, mixed>>
    /\ UNCHANGED <<clock, sessionVars, keep, moves, place, diskPlace, lost, kept>>

(* The target is saved at its new place. *)
SaveMove ==
    /\ mover # None /\ mover.rewritten
    /\ diskPlace' = place /\ mover' = None
    /\ UNCHANGED <<clock, contentVars, sessionVars, keep, moves, place, auxVars>>

(* An exception ends the request that moves it (the relocation, or before  *)
(* the save): it stays there in memory.                                    *)
FailMove ==
    /\ mover # None /\ mover' = None
    /\ outdated' = outdated \cup {mover.target}
    /\ UNCHANGED <<clock, contentVars, sessionVars, keep, moves, place, diskPlace, missed, lost, kept, mixed>>

(* Somebody saves another node, and with it all that is marked: a target   *)
(* that got a new parent, or the content if a save that is under way, or   *)
(* has failed, put it back into the tree.                                  *)
SaveOther ==
    /\ \/ diskPlace # place /\ diskPlace' = place /\ UNCHANGED contentVars
       \/ /\ attached /\ disk = Gone /\ UNCHANGED diskPlace
          /\ UNCHANGED <<text, editor, stamp, revisions, attached>> /\ Save
    /\ UNCHANGED <<clock, sessionVars, keep, moves, place, mover, auxVars>>

(* The process dies: what is on disk is loaded again, and no session is    *)
(* left that has seen a date.                                              *)
Crash ==
    /\ attached' = (disk # Gone)
    /\ IF disk # Gone
       THEN text' = disk.text /\ editor' = disk.editor /\ revisions' = disk.revisions
       ELSE UNCHANGED <<text, editor, revisions>>
    /\ monitor' = Nobody
    /\ CloseEditors(Sessions)
    /\ keep' = None
    /\ place' = diskPlace /\ mover' = None
    /\ missed' = [s \in Sessions |-> {}]
    /\ kept' = IF disk = Gone THEN {} ELSE kept \ pending
    /\ pending' = {} /\ failed' = FALSE
    /\ outdated' = IF mover # None /\ mover.rewritten # (diskPlace[mover.target] = place[mover.target])
                   THEN outdated \cup {mover.target} ELSE outdated
    /\ UNCHANGED <<clock, moves, stamp, disk, diskPlace, lost, mixed>>

EditorStep(s) ==
    \/ Load(s) \/ Close(s) \/ Validate(s) \/ ValidateInFactory(s)
    \/ Write(s) \/ Checkin(s) \/ Persist(s) \/ Fail(s)
    \/ Delete(s)

Next ==
    \/ \E s \in Sessions : EditorStep(s)
    \/ \E s \in Sessions : \E i \in 1..listed[s] : Choose(s, i)
    \/ PurgeRead \/ PurgeWrite
    \/ DeleteAbove
    \/ \E u, a \in Sessions : ReplaceUser(u, a)
    \/ \E t \in Moving, p \in Paths : Move(t, p)
    \/ Relocate \/ SaveMove \/ FailMove \/ SaveOther
    \/ Crash

Spec == Init /\ [][Next]_vars

(***************************************************************************)
(* Properties                                                              *)
(***************************************************************************)

(* "Content is stale": no save that passes the check overwrites a save, or  *)
(* undoes a deletion, that its session has not seen, as long as that left  *)
(* a date.  (In a factory there is no check, and after the choice of a     *)
(* revision it passes.)                                                    *)
NoDatedChangeLost == ~lost

(* When nobody saves the database has the content as it is in memory, with *)
(* its revisions, although purges, relocations and replaced users store it *)
(* half-way through the save of an editor, unless a save has failed after  *)
(* it began to assign the fields and nothing was stored since; and it has  *)
(* nothing of a content that is not in the tree.                           *)
StoredAtRest ==
    monitor = Nobody =>
        IF attached THEN failed \/ (disk # Gone /\ disk.text = text /\ disk.revisions = revisions)
        ELSE disk = Gone

Ordered(revs) ==
    \A i, j \in 1..Len(revs) : i < j => revs[i].version > revs[j].version

(* Revisions are in order, newest first, and every save can be found among *)
(* them, also after a crash, unless Count allows to drop it, or a purge of *)
(* the administrator dropped it or was under way while it was checked in,  *)
(* or the save failed before the checkin.                                  *)
RevisionsKept == Ordered(revisions) /\ kept \subseteq Versions(revisions)

FollowExcept(T) ==
    mover = None =>
        \A t \in Targets \ T :
            /\ attached => text.links[t] = place[t]
            /\ disk # Gone => disk.text.links[t] = diskPlace[t]

(* "Automatically rewrites internal links": a link follows its target      *)
(* through moves and crashes, unless it was left behind: an editor saved a *)
(* text from before the move, or an old revision, the target was moved     *)
(* into the trash or while the content was not stored, the move failed, or *)
(* the process died when one of relocation and move was stored.            *)
LinksFollow == FollowExcept(outdated)

(* And that is so for all links that no other target, whose path the link  *)
(* begins with, has taken along.                                           *)
LinksStay == FollowExcept(outdated \cup mixed)
=============================================================================
