----------------------------- MODULE EditingProofs -----------------------------
(***************************************************************************)
(* Proofs about Editing, for any sessions, targets, paths and bounds.      *)
(***************************************************************************)
EXTENDS Editing, TLAPS, FiniteSetTheorems, SequenceTheorems

USE AdminsAssumption, NobodyAssumption, NoDateAssumption, EventsAssumption, MovingAssumption
USE DEF Steps

Saving == {"valid", "unchecked", "written", "versioned"}

(* Who saves has the monitor. *)
MonitorInv == \A s \in Sessions : step[s] \in Saving => monitor = s

(***************************************************************************)
(* Types                                                                   *)
(***************************************************************************)

LEMMA StartTyped == Start \in Links
  BY StartAssumption, PathsAssumption DEF Links

LEMMA ReplacedTyped ==
    ASSUME NEW link \in Seq(Int), NEW old \in Seq(Int), NEW new \in Seq(Int)
    PROVE  Replaced(link, old, new) \in Seq(Int)
  <1>1. CASE Len(old) <= Len(link) /\ SubSeq(link, 1, Len(old)) = old
    <2> DEFINE rest == SubSeq(link, Len(old) + 1, Len(link))
    <2>1. Len(old) + 1 \in Int /\ Len(link) \in Int /\ Len(old) \in Nat  BY LenProperties
    <2>2. \A i \in (Len(old) + 1)..Len(link) : link[i] \in Int
      BY <2>1, ElementOfSeq
    <2>3. rest \in Seq(Int)  BY <2>1, <2>2, SubSeqProperties
    <2>4. new \o rest \in Seq(Int)  BY <2>3, ConcatProperties
    <2>5. QED  BY <1>1, <2>4 DEF Replaced
  <1>2. CASE ~(Len(old) <= Len(link) /\ SubSeq(link, 1, Len(old)) = old)
    BY <1>2 DEF Replaced
  <1>3. QED  BY <1>1, <1>2

(* A prefix of the revisions. *)
LEMMA PrefixProperties ==
    ASSUME NEW revs \in Seq(Texts), NEW n \in 0..Len(revs)
    PROVE  /\ SubSeq(revs, 1, n) \in Seq(Texts)
           /\ Len(SubSeq(revs, 1, n)) = n
           /\ \A i \in 1..n : SubSeq(revs, 1, n)[i] = revs[i]
  <1>1. Len(revs) \in Nat  BY LenProperties
  <1>2. \A i \in 1..n : revs[i] \in Texts  BY <1>1, ElementOfSeq
  <1>3. n \in Int /\ 1 \in Int  BY <1>1
  <1>4. /\ SubSeq(revs, 1, n) \in Seq(Texts)
        /\ Len(SubSeq(revs, 1, n)) = IF 1 <= n THEN n - 1 + 1 ELSE 0
        /\ \A i \in 1..(n - 1 + 1) : SubSeq(revs, 1, n)[i] = revs[1 + i - 1]
    BY <1>2, <1>3, SubSeqProperties
  <1>5. QED  BY <1>1, <1>4

(* What a purge leaves is a prefix, of Count revisions or more. *)
LEMMA PurgedPrefix ==
    ASSUME NEW revs \in Seq(Texts), NEW result \in Purged(revs)
    PROVE  \E n \in 0..Len(revs) :
              /\ result = SubSeq(revs, 1, n)
              /\ Count = -1 \/ Days = -1 => n = Len(revs)
              /\ n < Len(revs) => Count <= n
  <1>1. Len(revs) \in Nat  BY LenProperties
  <1>2. CASE Count = -1 \/ Days = -1
    <2>1. result = revs  BY <1>2 DEF Purged
    <2> DEFINE all == SubSeq(revs, 1, Len(revs))
    <2>2. all \in Seq(Texts) /\ Len(all) = Len(revs) /\ \A i \in 1..Len(revs) : all[i] = revs[i]
      BY <1>1, PrefixProperties
    <2>3. all = revs  BY <2>2, SeqEqual
    <2>4. result = SubSeq(revs, 1, Len(revs))  BY <2>1, <2>3
    <2>5. Len(revs) \in 0..Len(revs) /\ ~(Len(revs) < Len(revs))  BY <1>1
    <2>6. QED  BY <2>4, <2>5
  <1>3. CASE ~(Count = -1 \/ Days = -1)
    <2>1. Count \in Nat  BY <1>3, RevisionAssumption
    <2>2. PICK n \in (IF Count < Len(revs) THEN Count ELSE Len(revs))
                      ..(IF Days = 0 THEN IF Count < Len(revs) THEN Count ELSE Len(revs) ELSE Len(revs)) :
              result = SubSeq(revs, 1, n)
      BY <1>3 DEF Purged
    <2>3. QED  BY <1>1, <1>3, <2>1, <2>2
  <1>4. QED  BY <1>2, <1>3

LEMMA AddedTyped ==
    ASSUME NEW revs \in Seq(Texts), NEW t \in Texts
    PROVE  /\ <<t>> \o revs \in Seq(Texts)
           /\ Len(<<t>> \o revs) = Len(revs) + 1
           /\ (<<t>> \o revs)[1] = t
           /\ \A i \in 1..Len(revs) : (<<t>> \o revs)[i + 1] = revs[i]
  <1>1. <<t>> \in Seq(Texts) /\ Len(<<t>>) = 1 /\ <<t>>[1] = t  OBVIOUS
  <1>2. Len(revs) \in Nat  BY LenProperties
  <1>3. QED  BY <1>1, <1>2, ConcatProperties

(* The revisions after a checkin are a prefix of the added ones, or the    *)
(* old ones.                                                               *)
LEMMA CheckinRevisions ==
    ASSUME TypeOK, NEW s \in Sessions, Checkin(s)
    PROVE  /\ revisions' \in Seq(Texts)
           /\ \/ Count = 0 /\ Days = 0 /\ revisions' = revisions
              \/ \E n \in 0..Len(<<text>> \o revisions) :
                    /\ revisions' = SubSeq(<<text>> \o revisions, 1, n)
                    /\ Count = -1 \/ Days = -1 => n = Len(<<text>> \o revisions)
                    /\ n < Len(<<text>> \o revisions) => Count <= n
  <1> DEFINE added == <<text>> \o revisions
  <1>1. added \in Seq(Texts)  BY AddedTyped DEF TypeOK
  <1>2. revisions' \in IF Configured THEN Purged(added) ELSE {revisions}  BY DEF Checkin
  <1> HIDE DEF added
  <1>3. CASE Configured
    <2>1. PICK n \in 0..Len(added) :
              /\ revisions' = SubSeq(added, 1, n)
              /\ Count = -1 \/ Days = -1 => n = Len(added)
              /\ n < Len(added) => Count <= n
      BY <1>1, <1>2, <1>3, PurgedPrefix
    <2>2. revisions' \in Seq(Texts)  BY <1>1, <2>1, PrefixProperties
    <2>3. QED  BY <2>1, <2>2 DEF added
  <1>4. CASE ~Configured
    BY <1>2, <1>4 DEF Configured, TypeOK
  <1>5. QED  BY <1>3, <1>4

(* What Save stores has the type of an image. *)
LEMMA SaveTyped ==
    ASSUME Save, text' \in Texts, editor' \in Sessions \cup {Nobody}, revisions' \in Seq(Texts)
    PROVE  /\ disk' = Gone \/ disk' \in Images
           /\ pending' = {} /\ failed' = FALSE
  BY DEF Save, Images

(* What Note adds to what the sessions missed. *)
LEMMA NoteTyped ==
    ASSUME missed \in [Sessions -> SUBSET Kinds], NEW s, NEW k \in Kinds, Note(s, k)
    PROVE  missed' \in [Sessions -> SUBSET Kinds]
  <1>1. \A r \in Sessions : missed[r] \cup {k} \in SUBSET Kinds  OBVIOUS
  <1>2. QED  BY <1>1 DEF Note

LEMMA InitTyped == Init => TypeOK /\ MonitorInv
  <1> SUFFICES ASSUME Init  PROVE TypeOK /\ MonitorInv
    OBVIOUS
  <1>1. Start \in Links  BY StartTyped
  <1>2. FirstText \in Texts  BY <1>1 DEF FirstText, Texts
  <1>3. <<FirstText>> \in Seq(Texts)  BY <1>2
  <1>4. disk \in Images  BY <1>2, <1>3, EditorAssumption DEF Init, Images
  <1>5. /\ clock \in 0..MaxEvents /\ stamp \in 0..MaxEvents /\ kept \subseteq 0..MaxEvents
        /\ seen \in [Sessions -> 0..MaxEvents \cup {NoDate}]
        /\ listed \in [Sessions -> Nat]
        /\ moves \in Nat /\ pending \subseteq 0..MaxEvents
        /\ outdated \subseteq Targets /\ mixed \subseteq Targets
    BY DEF Init
  <1>6. TypeOK
    BY <1>1, <1>2, <1>3, <1>4, <1>5, StartAssumption, EditorAssumption, Zenon DEF Init, TypeOK
  <1>7. MonitorInv  BY DEF Init, MonitorInv, Saving
  <1>8. QED  BY <1>6, <1>7

(* What a save leaves of itself before it assigns the text.                *)
LEMMA MarkTyped ==
    ASSUME TypeOK, NEW s \in Sessions, Mark(s)
    PROVE  /\ clock' = clock + 1 /\ clock' \in 0..MaxEvents
           /\ editor' \in Sessions \cup {Nobody} /\ stamp' \in 0..MaxEvents
           /\ missed' \in [Sessions -> SUBSET Kinds]
  <1>1. clock' = clock + 1 /\ clock' \in 0..MaxEvents
    BY DEF Mark, MoreEvents, TypeOK
  <1>2. missed' \in [Sessions -> SUBSET Kinds]
    BY NoteTyped DEF Mark, TypeOK, Kinds
  <1>3. QED  BY <1>1, <1>2 DEF Mark, TypeOK

(* Closing editors keeps the types of what the sessions have. *)
LEMMA CloseTyped ==
    ASSUME TypeOK, NEW S \in SUBSET Sessions, CloseEditors(S)
    PROVE  /\ step' \in [Sessions -> Steps]
           /\ fields' \in [Sessions -> Links]
           /\ seen' \in [Sessions -> 0..MaxEvents \cup {NoDate}]
           /\ listed' \in [Sessions -> Nat]
  BY StartTyped DEF CloseEditors, TypeOK

LEMMA NextTyped ==
    ASSUME TypeOK, MonitorInv, [Next]_vars
    PROVE  TypeOK'
  <1> USE DEF TypeOK
  <1>1. ASSUME NEW s \in Sessions, Load(s)  PROVE TypeOK'
    <2>1. Len(revisions) \in Nat  BY LenProperties
    <2>2. text.links \in Links  BY DEF Texts
    <2>3. QED  BY <1>1, <2>1, <2>2 DEF Load, contentVars, unsavedVars, moveVars
  <1>2. ASSUME NEW s \in Sessions, NEW i \in 1..listed[s], Choose(s, i)  PROVE TypeOK'
    <2>1. i \in 1..Len(revisions)  BY <1>2, LenProperties DEF Choose
    <2>2. revisions[i] \in Texts  BY <2>1, ElementOfSeq
    <2>3. revisions[i].links \in Links  BY <2>2 DEF Texts
    <2>4. QED  BY <1>2, <2>3 DEF Choose, contentVars, unsavedVars, moveVars, auxVars
  <1>3. ASSUME NEW s \in Sessions, Close(s)  PROVE TypeOK'
    BY <1>3, CloseTyped DEF Close, contentVars, unsavedVars, moveVars
  <1>4. ASSUME NEW s \in Sessions, Validate(s)  PROVE TypeOK'
    BY <1>4 DEF Validate, contentVars, unsavedVars, moveVars, auxVars
  <1>5. ASSUME NEW s \in Sessions, Write(s)  PROVE TypeOK'
    <2>1. /\ clock' \in 0..MaxEvents /\ editor' \in Sessions \cup {Nobody} /\ stamp' \in 0..MaxEvents
          /\ missed' \in [Sessions -> SUBSET Kinds]
      BY <1>5, MarkTyped DEF Write
    <2>2. text' \in Texts  BY <1>5, <2>1 DEF Write, Texts
    <2>3. lost' \in BOOLEAN /\ outdated' \subseteq Targets  BY <1>5 DEF Write
    <2>4. QED  BY <1>5, <2>1, <2>2, <2>3 DEF Write, moveVars, unsavedVars
  <1>6. ASSUME NEW s \in Sessions, Checkin(s)  PROVE TypeOK'
    <2>1. revisions' \in Seq(Texts)  BY <1>6, CheckinRevisions
    <2>2. text.version \in 0..MaxEvents  BY DEF Texts
    <2>3. Owed \subseteq 0..MaxEvents  BY <2>2 DEF Owed
    <2>4. QED  BY <1>6, <2>1, <2>2, <2>3 DEF Checkin, moveVars
  <1>7. ASSUME NEW s \in Sessions, Persist(s)  PROVE TypeOK'
    BY <1>7, CloseTyped, SaveTyped DEF Persist, moveVars
  <1>8. ASSUME NEW s \in Sessions, Delete(s)  PROVE TypeOK'
    <2>1. clock' \in 0..MaxEvents /\ stamp' \in 0..MaxEvents /\ editor' \in Sessions
      BY <1>8 DEF Delete, MoreEvents
    <2>2. text' \in Texts /\ revisions' \in Seq(Texts) /\ attached' \in BOOLEAN
      BY <1>8 DEF Delete
    <2>3. /\ disk' = Gone \/ disk' \in Images
          /\ pending' \subseteq 0..MaxEvents /\ failed' \in BOOLEAN
      BY <1>8, <2>1, <2>2, SaveTyped DEF Delete, unsavedVars
    <2>4. missed' \in [Sessions -> SUBSET Kinds]  BY <1>8 DEF Delete, Kinds
    <2>5. QED  BY <1>8, <2>1, <2>2, <2>3, <2>4, CloseTyped DEF Delete, moveVars
  <1>9. CASE PurgeRead
    <2>1. PICK n \in 0..Len(revisions) : keep' = SubSeq(revisions, 1, n)
      BY <1>9 DEF PurgeRead
    <2>2. keep' \in Seq(Texts)  BY <2>1, PrefixProperties
    <2>3. QED  BY <1>9, <2>2 DEF PurgeRead, contentVars, unsavedVars, sessionVars, moveVars
  <1>10. CASE PurgeWrite
    BY <1>10, SaveTyped DEF PurgeWrite, sessionVars, moveVars, auxVars
  <1>11. CASE DeleteAbove
    BY <1>11, SaveTyped DEF DeleteAbove, sessionVars, moveVars, auxVars
  <1>12. ASSUME NEW u \in Sessions, NEW a \in Sessions, ReplaceUser(u, a)  PROVE TypeOK'
    BY <1>12, SaveTyped DEF ReplaceUser, sessionVars, moveVars, auxVars
  <1>13. ASSUME NEW t \in Targets, NEW p \in Paths, Move(t, p)  PROVE TypeOK'
    BY <1>13 DEF Move, contentVars, unsavedVars, sessionVars, auxVars
  <1>14. CASE Relocate
    <2>1. mover \in [target : Targets, old : Paths, rewritten : BOOLEAN]
      BY <1>14 DEF Relocate
    <2>2. /\ mover.old \in Seq(Int) /\ place[mover.target] \in Seq(Int)
      BY <2>1, PathsAssumption
    <2>3. Rewritten \in Links  BY <2>2, ReplacedTyped DEF Texts, Links, Rewritten
    <2>4. CASE disk # Gone /\ place[mover.target] \notin Trashed
      <3>1. text' = [text EXCEPT !.links = Rewritten]  BY <1>14, <2>4 DEF Relocate
      <3>2. text' \in Texts  BY <2>3, <3>1 DEF Texts
      <3>3. missed' \in [Sessions -> SUBSET Kinds]  BY <1>14, <2>4, NoteTyped DEF Relocate, Kinds
      <3>4. mixed' \subseteq Targets  BY <1>14, <2>4 DEF Relocate, Mixed
      <3>5. QED  BY <1>14, <2>1, <2>4, <3>2, <3>3, <3>4, SaveTyped DEF Relocate, sessionVars
    <2>5. CASE ~(disk # Gone /\ place[mover.target] \notin Trashed)
      BY <1>14, <2>1, <2>5 DEF Relocate, contentVars, unsavedVars, sessionVars
    <2>6. QED  BY <2>4, <2>5
  <1>15. CASE SaveMove
    BY <1>15 DEF SaveMove, contentVars, unsavedVars, sessionVars, auxVars
  <1>16. CASE Crash
    <2>1. text' \in Texts /\ editor' \in Sessions \cup {Nobody} /\ revisions' \in Seq(Texts)
      BY <1>16 DEF Crash, Images
    <2>2. kept' \subseteq 0..MaxEvents  BY <1>16 DEF Crash
    <2>3. QED  BY <1>16, <2>1, <2>2, CloseTyped DEF Crash
  <1>17. CASE UNCHANGED vars
    BY <1>17 DEF vars, contentVars, unsavedVars, sessionVars, moveVars, auxVars
  <1>18. ASSUME NEW s \in Sessions, ValidateInFactory(s)  PROVE TypeOK'
    BY <1>18 DEF ValidateInFactory, contentVars, unsavedVars, moveVars, auxVars
  <1>19. ASSUME NEW s \in Sessions, Fail(s)  PROVE TypeOK'
    <2>1. CASE FailToWrite(s)
      <3>1. /\ clock' \in 0..MaxEvents /\ editor' \in Sessions \cup {Nobody}
            /\ stamp' \in 0..MaxEvents /\ missed' \in [Sessions -> SUBSET Kinds]
        BY <2>1, MarkTyped DEF FailToWrite
      <3>2. QED  BY <1>19, <2>1, <3>1 DEF Fail, FailToWrite, moveVars
    <2>2. CASE FailToStore(s)
      <3>1. <<text>> \o revisions \in Seq(Texts)  BY AddedTyped
      <3>2. revisions' = revisions \/ revisions' = <<text>> \o revisions
        BY <2>2 DEF FailToStore
      <3>3. revisions' \in Seq(Texts)  BY <3>1, <3>2, Zenon
      <3>4. QED  BY <1>19, <2>2, <3>3 DEF Fail, FailToStore, moveVars
    <2>3. QED  BY <1>19, <2>1, <2>2 DEF Fail
  <1>20. CASE FailMove
    BY <1>20 DEF FailMove, contentVars, unsavedVars, sessionVars
  <1>21. CASE SaveOther
    BY <1>21, SaveTyped DEF SaveOther, contentVars, unsavedVars, sessionVars, auxVars
  <1>22. QED
    BY <1>1, <1>2, <1>3, <1>4, <1>5, <1>6, <1>7, <1>8, <1>9, <1>10, <1>11, <1>12, <1>13,
       <1>14, <1>15, <1>16, <1>17, <1>18, <1>19, <1>20, <1>21 DEF Next, EditorStep

LEMMA NextMonitor ==
    ASSUME TypeOK, MonitorInv, [Next]_vars
    PROVE  MonitorInv'
  <1> USE DEF MonitorInv, Saving
  <1>0. step \in [Sessions -> Steps]
    BY DEF TypeOK
  <1>1. ASSUME NEW s \in Sessions, EditorStep(s)  PROVE MonitorInv'
    <2>1. CASE Load(s) \/ Close(s) \/ Delete(s)
      BY <1>0, <2>1 DEF Load, Close, Delete, CloseEditors
    <2>2. CASE Validate(s) \/ ValidateInFactory(s) \/ Write(s) \/ Checkin(s) \/ Persist(s)
      BY <1>0, <2>2 DEF Validate, ValidateInFactory, Write, Checkin, Persist, CloseEditors
    <2>3. CASE Fail(s)
      <3>1. /\ step[s] \in Saving /\ monitor' = Nobody
            /\ step' = [step EXCEPT ![s] = "open"]
        BY <2>3 DEF Fail, FailToWrite, FailToStore
      <3>2. QED  BY <1>0, <3>1
    <2>4. QED  BY <1>1, <2>1, <2>2, <2>3 DEF EditorStep
  <1>2. ASSUME NEW s \in Sessions, NEW i \in 1..listed[s], Choose(s, i)  PROVE MonitorInv'
    BY <1>2 DEF Choose
  <1>3. CASE PurgeRead \/ PurgeWrite \/ DeleteAbove \/ Relocate \/ SaveMove \/ FailMove \/ SaveOther
    BY <1>3 DEF PurgeRead, PurgeWrite, DeleteAbove, Relocate, SaveMove, FailMove, SaveOther, sessionVars
  <1>4. ASSUME NEW u \in Sessions, NEW a \in Sessions, ReplaceUser(u, a)  PROVE MonitorInv'
    BY <1>4 DEF ReplaceUser, sessionVars
  <1>5. ASSUME NEW t \in Targets, NEW p \in Paths, Move(t, p)  PROVE MonitorInv'
    BY <1>5 DEF Move, sessionVars
  <1>6. CASE Crash
    BY <1>6 DEF Crash, CloseEditors
  <1>7. CASE UNCHANGED vars
    BY <1>7 DEF vars, sessionVars
  <1>8. QED  BY <1>1, <1>2, <1>3, <1>4, <1>5, <1>6, <1>7 DEF Next

(***************************************************************************)
(* The stale check                                                         *)
(***************************************************************************)

(* A session that missed a dated change has no date or an old one, and a   *)
(* save goes on only while its date is still that of the content.          *)
StaleInv ==
    /\ stamp <= clock
    /\ \A s \in Sessions :
          /\ seen[s] # NoDate => seen[s] <= stamp
          /\ "dated" \in missed[s] => seen[s] # stamp
          /\ step[s] = "valid" => seen[s] = NoDate \/ seen[s] = stamp
    /\ ~lost

LEMMA InitStale == Init => StaleInv
  BY DEF Init, StaleInv

LEMMA NextStale ==
    ASSUME TypeOK, MonitorInv, StaleInv, [Next]_vars
    PROVE  StaleInv'
  <1> USE DEF StaleInv
  <1>0. /\ step \in [Sessions -> Steps]
        /\ seen \in [Sessions -> 0..MaxEvents \cup {NoDate}]
        /\ missed \in [Sessions -> SUBSET Kinds]
        /\ clock \in 0..MaxEvents /\ stamp \in 0..MaxEvents
        /\ \A s \in Sessions : step[s] \in Saving => monitor = s
    BY DEF TypeOK, MonitorInv
  <1>1. ASSUME NEW s \in Sessions, Load(s)  PROVE StaleInv'
    BY <1>0, <1>1 DEF Load, contentVars
  <1>2. ASSUME NEW s \in Sessions, NEW i \in 1..listed[s], Choose(s, i)  PROVE StaleInv'
    BY <1>0, <1>2 DEF Choose, contentVars, auxVars
  <1>3. ASSUME NEW s \in Sessions, Close(s)  PROVE StaleInv'
    BY <1>0, <1>3 DEF Close, CloseEditors, contentVars
  <1>4. ASSUME NEW s \in Sessions, Validate(s)  PROVE StaleInv'
    BY <1>0, <1>4 DEF Validate, contentVars, auxVars
  <1>5. ASSUME NEW s \in Sessions, step[s] \in {"valid", "unchecked"}, step'[s] # "valid", Mark(s),
               \A r \in Sessions \ {s} : step'[r] = step[r],
               seen' = seen, ~lost'
        PROVE  StaleInv'
    <2>1. \A r \in Sessions : step'[r] # "valid"
      BY <1>0, <1>5 DEF Saving
    <2>2. CASE Marks(s)
      <3>1. /\ stamp' = clock + 1 /\ clock' = clock + 1 /\ seen' = seen
            /\ Note(s, "dated")
        BY <1>5, <2>2 DEF Mark
      <3>2. \A r \in Sessions : seen[r] # stamp'  BY <1>0, <3>1
      <3>3. QED  BY <1>0, <1>5, <2>1, <3>1, <3>2
    <2>3. CASE ~Marks(s)
      <3>1. clock' = clock + 1 /\ UNCHANGED <<stamp, missed>>  BY <1>5, <2>3 DEF Mark
      <3>2. QED  BY <1>0, <1>5, <2>1, <3>1
    <2>4. QED  BY <2>2, <2>3
  <1>6. ASSUME NEW s \in Sessions, Checkin(s)  PROVE StaleInv'
    BY <1>0, <1>6 DEF Checkin
  <1>7. ASSUME NEW s \in Sessions, Persist(s)  PROVE StaleInv'
    BY <1>0, <1>7 DEF Persist, CloseEditors
  <1>8. ASSUME NEW s \in Sessions, Delete(s)  PROVE StaleInv'
    <2>1. \A r \in Sessions : step[r] \notin Saving  BY <1>0, <1>8 DEF Delete
    <2>2. stamp' = clock + 1 /\ clock' = clock + 1 /\ lost' = lost  BY <1>8 DEF Delete
    <2>3. \A r \in Sessions : seen'[r] \in {seen[r], NoDate} /\ step'[r] \in {step[r], "closed"}
      BY <1>0, <1>8 DEF Delete, CloseEditors
    <2>4. QED  BY <1>0, <2>1, <2>2, <2>3 DEF Saving
  <1>9. CASE PurgeRead \/ PurgeWrite \/ DeleteAbove \/ SaveMove \/ FailMove \/ SaveOther
    BY <1>9 DEF PurgeRead, PurgeWrite, DeleteAbove, SaveMove, FailMove, SaveOther, contentVars, sessionVars, auxVars
  <1>10. ASSUME NEW u \in Sessions, NEW a \in Sessions, ReplaceUser(u, a)  PROVE StaleInv'
    BY <1>10 DEF ReplaceUser, sessionVars, auxVars
  <1>11. ASSUME NEW t \in Targets, NEW p \in Paths, Move(t, p)  PROVE StaleInv'
    BY <1>11 DEF Move, contentVars, sessionVars, auxVars
  <1>12. CASE Relocate
    <2>1. \A r \in Sessions : "dated" \in missed'[r] => "dated" \in missed[r]
      BY <1>0, <1>12 DEF Relocate, Note
    <2>2. UNCHANGED <<clock, stamp, seen, step, lost>>
      BY <1>12 DEF Relocate, contentVars, sessionVars
    <2>3. QED  BY <2>1, <2>2
  <1>13. CASE Crash
    BY <1>0, <1>13 DEF Crash, CloseEditors
  <1>14. ASSUME NEW s \in Sessions, Write(s)  PROVE StaleInv'
    <2>1. step[s] = "valid" /\ seen[s] # NoDate => "dated" \notin missed[s]
      BY <1>0, <1>14 DEF Write
    <2>2. ~lost' /\ Mark(s) /\ step[s] \in {"valid", "unchecked"} /\ seen' = seen
      BY <1>14, <2>1 DEF Write
    <2>3. step'[s] # "valid" /\ \A r \in Sessions \ {s} : step'[r] = step[r]
      BY <1>0, <1>14 DEF Write
    <2>4. QED  BY <1>5, <2>2, <2>3
  <1>15. ASSUME NEW s \in Sessions, ValidateInFactory(s)  PROVE StaleInv'
    BY <1>0, <1>15 DEF ValidateInFactory, contentVars, auxVars
  <1>16. ASSUME NEW s \in Sessions, Fail(s)  PROVE StaleInv'
    <2>1. /\ step'[s] # "valid" /\ \A r \in Sessions \ {s} : step'[r] = step[r]
          /\ seen' = seen /\ ~lost'
      BY <1>0, <1>16 DEF Fail
    <2>2. CASE Mark(s) /\ FailToWrite(s)
      BY <1>5, <2>1, <2>2 DEF FailToWrite
    <2>3. CASE UNCHANGED <<clock, stamp, missed>>
      BY <1>0, <2>1, <2>3
    <2>4. QED  BY <1>16, <2>2, <2>3 DEF Fail, FailToWrite, FailToStore
  <1>17. CASE UNCHANGED vars
    BY <1>17 DEF vars, contentVars, sessionVars, auxVars
  <1>18. QED
    BY <1>1, <1>2, <1>3, <1>4, <1>6, <1>7, <1>8, <1>9, <1>10, <1>11, <1>12, <1>13, <1>14,
       <1>15, <1>16, <1>17
    DEF Next, EditorStep

(***************************************************************************)
(* Memory and database                                                     *)
(***************************************************************************)

(* The database differs from memory only between the assignments of a save *)
(* and its end, or after one that has failed.                              *)
StoreInv ==
    /\ ~attached => disk = Gone
    /\ attached /\ ~failed /\ (\A s \in Sessions : step[s] \notin {"written", "versioned"}) =>
          disk # Gone /\ disk.text = text /\ disk.revisions = revisions

LEMMA SaveStores ==
    ASSUME Save, text' \in Texts, editor' \in Sessions \cup {Nobody}, revisions' \in Seq(Texts)
    PROVE  IF attached' THEN disk' # Gone /\ disk'.text = text' /\ disk'.revisions = revisions'
                        ELSE disk' = Gone
  BY GoneAssumption DEF Save, Images

LEMMA InitStore == Init => StoreInv
  <1> SUFFICES ASSUME Init  PROVE StoreInv
    OBVIOUS
  <1>1. TypeOK  BY InitTyped
  <1>2. disk = [text |-> text, editor |-> editor, revisions |-> revisions]  BY DEF Init
  <1>3. disk \in Images  BY <1>1, <1>2 DEF TypeOK, Images
  <1>4. QED  BY <1>2, <1>3, GoneAssumption DEF StoreInv, Init

LEMMA NextStore ==
    ASSUME TypeOK, TypeOK', MonitorInv, StoreInv, [Next]_vars
    PROVE  StoreInv'
  <1> USE DEF StoreInv
  <1>0. /\ step \in [Sessions -> Steps]
        /\ \A s \in Sessions : step[s] \in Saving => monitor = s
    BY DEF TypeOK, MonitorInv
  <1>1. ASSUME Save  PROVE StoreInv'
    BY <1>1, SaveStores DEF TypeOK
  <1>2. ASSUME UNCHANGED <<text, revisions, attached, disk, failed>>,
               \A s \in Sessions : step[s] \in {"written", "versioned"} => step'[s] = step[s]
        PROVE  StoreInv'
    BY <1>2
  <1>3. ASSUME NEW s \in Sessions, EditorStep(s)  PROVE StoreInv'
    <2>1. CASE Load(s)
      BY <1>0, <1>2, <2>1 DEF Load, contentVars, unsavedVars
    <2>2. CASE Close(s)
      BY <1>0, <1>2, <2>2 DEF Close, CloseEditors, contentVars, unsavedVars
    <2>3. CASE Validate(s)
      BY <1>0, <1>2, <2>3 DEF Validate, contentVars, unsavedVars
    <2>4. CASE Write(s)
      BY <1>0, <2>4 DEF Write, unsavedVars
    <2>5. CASE Checkin(s)
      BY <1>0, <2>5 DEF Checkin
    <2>6. CASE Persist(s)
      BY <1>1, <2>6 DEF Persist
    <2>7. CASE Delete(s)
      <3>1. CASE UNCHANGED <<attached, disk, unsavedVars>>
        BY <1>0, <1>2, <2>7, <3>1 DEF Delete, CloseEditors, unsavedVars
      <3>2. CASE Save
        BY <1>1, <3>2
      <3>3. QED  BY <2>7, <3>1, <3>2 DEF Delete
    <2>8. CASE ValidateInFactory(s)
      BY <1>0, <1>2, <2>8 DEF ValidateInFactory, contentVars, unsavedVars
    <2>9. CASE Fail(s)
      <3>1. failed' \/ UNCHANGED <<text, revisions, attached, disk, failed>>
        BY <2>9 DEF Fail, FailToWrite, FailToStore, TypeOK
      <3>2. CASE failed'
        BY <2>9, <3>2 DEF Fail, FailToWrite, FailToStore, TypeOK
      <3>3. CASE UNCHANGED <<text, revisions, attached, disk, failed>> /\ ~failed'
        <4>1. \A r \in Sessions : step[r] \in {"written", "versioned"} => step'[r] = step[r]
          BY <1>0, <2>9, <3>3 DEF Fail, FailToWrite, FailToStore, Saving
        <4>2. QED  BY <1>2, <3>3, <4>1
      <3>4. QED  BY <3>1, <3>2, <3>3
    <2>10. QED  BY <1>3, <2>1, <2>2, <2>3, <2>4, <2>5, <2>6, <2>7, <2>8, <2>9 DEF EditorStep
  <1>4. ASSUME NEW s \in Sessions, NEW i \in 1..listed[s], Choose(s, i)  PROVE StoreInv'
    BY <1>2, <1>4 DEF Choose, contentVars, unsavedVars
  <1>5. CASE PurgeRead \/ SaveMove \/ FailMove
    BY <1>2, <1>5 DEF PurgeRead, SaveMove, FailMove, contentVars, unsavedVars, sessionVars
  <1>6. CASE PurgeWrite \/ DeleteAbove
    BY <1>1, <1>6 DEF PurgeWrite, DeleteAbove
  <1>7. ASSUME NEW u \in Sessions, NEW a \in Sessions, ReplaceUser(u, a)  PROVE StoreInv'
    BY <1>1, <1>7 DEF ReplaceUser
  <1>8. ASSUME NEW t \in Targets, NEW p \in Paths, Move(t, p)  PROVE StoreInv'
    BY <1>2, <1>8 DEF Move, contentVars, unsavedVars, sessionVars
  <1>9. CASE Relocate
    <2>1. CASE disk # Gone /\ place[mover.target] \notin Trashed
      BY <1>1, <1>9, <2>1 DEF Relocate
    <2>2. CASE ~(disk # Gone /\ place[mover.target] \notin Trashed)
      BY <1>2, <1>9, <2>2 DEF Relocate, contentVars, unsavedVars, sessionVars
    <2>3. QED  BY <2>1, <2>2
  <1>10. CASE Crash
    BY <1>10 DEF Crash
  <1>11. CASE UNCHANGED vars
    BY <1>2, <1>11 DEF vars, contentVars, unsavedVars, sessionVars
  <1>12. CASE SaveOther
    <2>1. CASE Save
      BY <1>1, <2>1
    <2>2. CASE UNCHANGED contentVars
      BY <1>2, <1>12, <2>2 DEF SaveOther, contentVars, unsavedVars, sessionVars
    <2>3. QED  BY <1>12, <2>1, <2>2 DEF SaveOther
  <1>13. QED
    BY <1>3, <1>4, <1>5, <1>6, <1>7, <1>8, <1>9, <1>10, <1>11, <1>12 DEF Next

(***************************************************************************)
(* Revisions                                                               *)
(***************************************************************************)

UpTo(revs, n) == \A i \in 1..Len(revs) : revs[i].version <= n
Older(revs) == \A i \in 1..Len(revs) : revs[i].version < text.version
Sound(revs) == Ordered(revs) /\ UpTo(revs, clock)

(* Revisions are in order wherever they are, and a text that waits to be   *)
(* checked in is newer than all of them.                                   *)
VersionInv ==
    /\ text.version <= clock
    /\ disk # Gone => disk.text.version <= clock /\ Sound(disk.revisions)
    /\ Sound(revisions)
    /\ keep # None => Sound(keep)
    /\ (\E s \in Sessions : step[s] = "written") =>
          Older(revisions) /\ (keep # None => Older(keep))

(* What is kept is so in every copy of the revisions. *)
KeptInv ==
    /\ kept \subseteq Versions(revisions)
    /\ keep # None => kept \subseteq Versions(keep)
    /\ disk # Gone => kept \ pending \subseteq Versions(disk.revisions)

(* A version is a number. *)
LEMMA VersionNumbers ==
    ASSUME NEW revs \in Seq(Texts)
    PROVE  \A i \in 1..Len(revs) : revs[i].version \in Nat
  <1> SUFFICES ASSUME NEW i \in 1..Len(revs)  PROVE revs[i].version \in Nat
    OBVIOUS
  <1>1. revs[i] \in Texts  BY ElementOfSeq
  <1>2. QED  BY <1>1 DEF Texts

(* In revisions that are in order, as many are newer than one as stand     *)
(* before it.                                                              *)
LEMMA NewerCount ==
    ASSUME NEW revs \in Seq(Texts), Ordered(revs), NEW i \in 1..Len(revs)
    PROVE  Cardinality({w \in Versions(revs) : w > revs[i].version}) = i - 1
  <1> DEFINE T == {w \in Versions(revs) : w > revs[i].version}
             f == [j \in 1..(i - 1) |-> revs[j].version]
  <1>1. Len(revs) \in Nat /\ i \in Nat  BY LenProperties
  <1>2. \A j \in 1..Len(revs) : revs[j].version \in Nat  BY VersionNumbers
  <1>3. \A j \in 1..(i - 1) : j \in 1..Len(revs) /\ f[j] \in T
    BY <1>1, <1>2 DEF Ordered, Versions
  <1>4. \A w \in T : \E j \in 1..(i - 1) : f[j] = w
    <2> SUFFICES ASSUME NEW w \in T  PROVE \E j \in 1..(i - 1) : f[j] = w
      OBVIOUS
    <2>1. PICK j \in 1..Len(revs) : w = revs[j].version  BY DEF Versions
    <2>2. ~(j = i) /\ ~(i < j)  BY <1>2, <2>1 DEF Ordered
    <2>3. j \in 1..(i - 1)  BY <1>1, <2>2
    <2>4. QED  BY <2>1, <2>3
  <1>5. \A j, k \in 1..(i - 1) : f[j] = f[k] => j = k
    BY <1>1, <1>2, <1>3 DEF Ordered
  <1> HIDE DEF T
  <1>6. f \in Bijection(1..(i - 1), T)
    <2>1. f \in [1..(i - 1) -> T]  BY <1>3
    <2> HIDE DEF f
    <2>2. f \in Injection(1..(i - 1), T)  BY <1>5, <2>1 DEF Injection, IsInjective
    <2>3. f \in Surjection(1..(i - 1), T)  BY <1>4, <2>1 DEF Surjection
    <2>4. QED  BY <2>2, <2>3 DEF Bijection
  <1>7. ExistsBijection(1..(i - 1), T)  BY <1>6 DEF ExistsBijection
  <1>8. /\ IsFiniteSet(1..(i - 1))
        /\ Cardinality(1..(i - 1)) = i - 1
    <2>1. 1 \in Int /\ i - 1 \in Int /\ i >= 1  BY <1>1
    <2> DEFINE k == i - 1
    <2>2. /\ IsFiniteSet(1..k)
          /\ Cardinality(1..k) = IF 1 > k THEN 0 ELSE k - 1 + 1
      BY <2>1, FS_Interval
    <2>3. QED  BY <2>1, <2>2
  <1>9. QED  BY <1>7, <1>8, FS_Bijection DEF T

(* A prefix is in order as the whole is, and no newer. *)
LEMMA PrefixSound ==
    ASSUME NEW revs \in Seq(Texts), NEW n \in 0..Len(revs)
    PROVE  /\ Sound(revs) => Sound(SubSeq(revs, 1, n))
           /\ Older(revs) => Older(SubSeq(revs, 1, n))
           /\ Versions(SubSeq(revs, 1, n)) = {revs[i].version : i \in 1..n}
  <1> DEFINE p == SubSeq(revs, 1, n)
  <1>1. Len(revs) \in Nat /\ Len(p) = n /\ \A i \in 1..n : p[i] = revs[i]
    BY PrefixProperties, LenProperties
  <1> HIDE DEF p
  <1>2. QED  BY <1>1 DEF p, Sound, Ordered, UpTo, Older, Versions

(* The text goes before the revisions. *)
LEMMA AddedSound ==
    ASSUME TypeOK, VersionInv, Older(revisions)
    PROVE  /\ Sound(<<text>> \o revisions)
           /\ Versions(<<text>> \o revisions) = Versions(revisions) \cup {text.version}
  <1> DEFINE a == <<text>> \o revisions
  <1>1. /\ Len(a) = Len(revisions) + 1 /\ a[1] = text
        /\ \A i \in 1..Len(revisions) : a[i + 1] = revisions[i]
    BY AddedTyped DEF TypeOK
  <1>2. Len(revisions) \in Nat  BY LenProperties DEF TypeOK
  <1> HIDE DEF a
  <1>3. \A i \in 1..Len(a) : i = 1 \/ (i - 1 \in 1..Len(revisions) /\ a[i] = revisions[i - 1])
    BY <1>1, <1>2
  <1>4. Ordered(a)
    <2> SUFFICES ASSUME NEW i \in 1..Len(a), NEW j \in 1..Len(a), i < j
                 PROVE  a[i].version > a[j].version
      BY DEF Ordered
    <2>1. j - 1 \in 1..Len(revisions) /\ a[j] = revisions[j - 1]  BY <1>3
    <2>2. CASE i = 1
      BY <1>1, <2>1, <2>2, AddedTyped, ElementOfSeq DEF Older, TypeOK, Texts
    <2>3. CASE i # 1
      <3>1. i - 1 \in 1..Len(revisions) /\ a[i] = revisions[i - 1] /\ i - 1 < j - 1
        BY <1>3, <2>3
      <3>2. QED  BY <2>1, <3>1 DEF VersionInv, Sound, Ordered
    <2>4. QED  BY <2>2, <2>3
  <1>5. UpTo(a, clock)  BY <1>1, <1>3 DEF UpTo, VersionInv, Sound
  <1>6. Versions(a) = Versions(revisions) \cup {text.version}
    <2>1. \A v \in Versions(a) : v \in Versions(revisions) \cup {text.version}
      BY <1>1, <1>3 DEF Versions
    <2>2. \A i \in 1..Len(revisions) : i + 1 \in 1..Len(a)  BY <1>1, <1>2
    <2>3. \A v \in Versions(revisions) : v \in Versions(a)  BY <1>1, <2>2 DEF Versions
    <2>4. text.version \in Versions(a)  BY <1>1, <1>2 DEF Versions
    <2>5. QED  BY <2>1, <2>3, <2>4
  <1>7. QED  BY <1>4, <1>5, <1>6 DEF a, Sound

(* A checkin drops nothing that is owed. *)
LEMMA OwedStays ==
    ASSUME TypeOK, VersionInv, KeptInv, NEW s \in Sessions, Checkin(s)
    PROVE  Owed \subseteq Versions(revisions')
  <1> DEFINE a == <<text>> \o revisions
  <1>1. Older(revisions)  BY DEF Checkin, VersionInv
  <1>2. a \in Seq(Texts) /\ Ordered(a) /\ Versions(a) = Versions(revisions) \cup {text.version}
    BY <1>1, AddedTyped, AddedSound DEF TypeOK, Sound
  <1>3. \/ Count = 0 /\ Days = 0
        \/ \E n \in 0..Len(a) :
              /\ revisions' = SubSeq(a, 1, n)
              /\ Count = -1 \/ Days = -1 => n = Len(a)
              /\ n < Len(a) => Count <= n
    BY CheckinRevisions
  <1>4. Owed \subseteq Versions(a)  BY <1>2 DEF Owed, KeptInv
  <1>5. \A v \in Owed : \/ Count = -1 \/ Days = -1
                        \/ Cardinality({w \in Versions(a) : w > v}) < Count
    BY <1>2 DEF Owed
  <1> HIDE DEF a
  <1>6. Len(a) \in Nat  BY <1>2, LenProperties
  <1> SUFFICES ASSUME NEW v \in Owed  PROVE v \in Versions(revisions')
    OBVIOUS
  <1>7. PICK i \in 1..Len(a) : v = a[i].version  BY <1>4 DEF Versions
  <1>8. Cardinality({w \in Versions(a) : w > v}) = i - 1  BY <1>2, <1>7, NewerCount
  <1>9. CASE Count = 0 /\ Days = 0
    BY <1>5, <1>6, <1>7, <1>8, <1>9
  <1>10. ASSUME NEW n \in 0..Len(a), revisions' = SubSeq(a, 1, n),
                Count = -1 \/ Days = -1 => n = Len(a),
                n < Len(a) => Count <= n
         PROVE  v \in Versions(revisions')
    <2>1. i \in 1..n  BY <1>5, <1>6, <1>8, <1>10, RevisionAssumption
    <2>2. Versions(revisions') = {a[j].version : j \in 1..n}  BY <1>2, <1>10, PrefixSound
    <2>3. QED  BY <1>7, <2>1, <2>2
  <1>11. QED  BY <1>3, <1>9, <1>10

LEMMA InitVersions == Init => VersionInv /\ KeptInv
  <1> SUFFICES ASSUME Init  PROVE VersionInv /\ KeptInv
    OBVIOUS
  <1>1. /\ text.version = 0 /\ clock = 0 /\ disk.text.version = 0
        /\ revisions = <<FirstText>> /\ disk.revisions = <<FirstText>>
        /\ FirstText.version = 0 /\ keep = None
        /\ \A s \in Sessions : step[s] = "closed"
    BY DEF Init, FirstText
  <1>2. Sound(revisions) /\ Sound(disk.revisions)
    BY <1>1 DEF Sound, Ordered, UpTo
  <1>3. Versions(revisions) = {0} /\ Versions(disk.revisions) = {0} /\ kept = {0}
    BY <1>1 DEF Init, Versions
  <1>4. QED  BY <1>1, <1>2, <1>3 DEF VersionInv, KeptInv

(* Time only goes on. *)
LEMMA SoundLater ==
    ASSUME TypeOK, NEW revs \in Seq(Texts), Sound(revs), clock' \in {clock, clock + 1}
    PROVE  Ordered(revs) /\ UpTo(revs, clock')
  <1>1. \A i \in 1..Len(revs) : revs[i].version \in Nat  BY VersionNumbers
  <1>2. clock \in Nat  BY DEF TypeOK
  <1>3. QED  BY <1>1, <1>2 DEF Sound, Ordered, UpTo

(* The steps that neither make a version nor read one.                     *)
LEMMA OthersKeepVersions ==
    ASSUME TypeOK, TypeOK', VersionInv,
           clock' \in {clock, clock + 1},
           text'.version = text.version,
           revisions' = revisions \/ (keep # None /\ revisions' = keep),
           keep' = keep \/ keep' = None,
           disk' = disk \/ Save,
           \A s \in Sessions : step'[s] = "written" => step[s] = "written"
    PROVE  VersionInv'
  <1>1. text.version \in Nat /\ clock \in Nat  BY DEF TypeOK, Texts
  <1>2. /\ Ordered(revisions) /\ UpTo(revisions, clock')
        /\ keep # None => Ordered(keep) /\ UpTo(keep, clock')
    BY SoundLater DEF VersionInv, TypeOK
  <1>3. Sound(revisions)' /\ (keep # None => Sound(keep))'
    BY <1>2 DEF Sound
  <1>4. (disk # Gone => disk.text.version <= clock /\ Sound(disk.revisions))'
    <2>1. CASE disk' = disk
      <3> SUFFICES ASSUME disk # Gone
                   PROVE  disk.text.version <= clock' /\ Ordered(disk.revisions)
                          /\ UpTo(disk.revisions, clock')
        BY <2>1 DEF Sound
      <3>4. disk \in Images  BY DEF TypeOK
      <3>1. disk.revisions \in Seq(Texts) /\ disk.text.version \in Nat
        BY <3>4 DEF Images, Texts
      <3>2. Sound(disk.revisions) /\ disk.text.version <= clock  BY DEF VersionInv
      <3>3. Ordered(disk.revisions) /\ UpTo(disk.revisions, clock')
        BY <3>1, <3>2, SoundLater
      <3>5. QED  BY <1>1, <3>1, <3>2, <3>3
    <2>2. CASE Save
      <3>1. disk' # Gone => disk'.text = text' /\ disk'.revisions = revisions'
        BY <2>2, SaveStores DEF TypeOK
      <3>2. text'.version <= clock'  BY <1>1 DEF VersionInv
      <3>3. QED  BY <1>3, <3>1, <3>2 DEF Sound
    <2>3. QED  BY <2>1, <2>2
  <1>5. ((\E s \in Sessions : step[s] = "written") =>
             Older(revisions) /\ (keep # None => Older(keep)))'
    BY DEF VersionInv, Older
  <1>6. QED  BY <1>1, <1>3, <1>4, <1>5 DEF VersionInv

LEMMA OthersKeepKept ==
    ASSUME TypeOK, TypeOK', KeptInv,
           kept' = kept,
           revisions' = revisions \/ (keep # None /\ revisions' = keep),
           keep' = keep \/ keep' = None,
           Save \/ UNCHANGED <<disk, pending>>
    PROVE  KeptInv'
  <1>1. kept \subseteq Versions(revisions')  BY DEF KeptInv
  <1>2. keep' # None => kept \subseteq Versions(keep')  BY DEF KeptInv
  <1>3. disk' # Gone => kept \ pending' \subseteq Versions(disk'.revisions)
    <2>1. CASE Save
      <3>1. disk' # Gone => disk'.revisions = revisions'  BY <2>1, SaveStores DEF TypeOK
      <3>2. QED  BY <1>1, <3>1
    <2>2. CASE UNCHANGED <<disk, pending>>
      BY <2>2 DEF KeptInv
    <2>3. QED  BY <2>1, <2>2
  <1>4. QED  BY <1>1, <1>2, <1>3 DEF KeptInv, Versions

VersionsHold == VersionInv' /\ KeptInv'

LEMMA NextVersions ==
    ASSUME TypeOK, TypeOK', MonitorInv, VersionInv, KeptInv, [Next]_vars
    PROVE  VersionsHold
  <1>0. /\ step \in [Sessions -> Steps]
        /\ \A s \in Sessions : step[s] \in Saving => monitor = s
        /\ revisions \in Seq(Texts) /\ text \in Texts /\ clock \in Nat
    BY DEF TypeOK, MonitorInv
  <1>1. ASSUME clock' \in {clock, clock + 1}, kept' = kept,
               text'.version = text.version,
               revisions' = revisions \/ (keep # None /\ revisions' = keep),
               keep' = keep \/ keep' = None,
               Save \/ UNCHANGED <<disk, pending>>,
               \A s \in Sessions : step'[s] = "written" => step[s] = "written"
        PROVE  VersionsHold
    BY <1>1, OthersKeepVersions, OthersKeepKept DEF VersionsHold
  <1>2. ASSUME UNCHANGED <<clock, text, revisions, keep, disk, kept, pending>>,
               \A s \in Sessions : step'[s] = "written" => step[s] = "written"
        PROVE  VersionsHold
    BY <1>1, <1>2
  <1>3. ASSUME NEW s \in Sessions, Load(s)  PROVE VersionsHold
    BY <1>0, <1>2, <1>3 DEF Load, contentVars, unsavedVars
  <1>4. ASSUME NEW s \in Sessions, NEW i \in 1..listed[s], Choose(s, i)  PROVE VersionsHold
    BY <1>2, <1>4 DEF Choose, contentVars, unsavedVars, auxVars
  <1>5. ASSUME NEW s \in Sessions, Close(s)  PROVE VersionsHold
    BY <1>0, <1>2, <1>5 DEF Close, CloseEditors, contentVars, unsavedVars, TypeOK
  <1>6. ASSUME NEW s \in Sessions, Validate(s)  PROVE VersionsHold
    BY <1>0, <1>2, <1>6 DEF Validate, contentVars, unsavedVars, auxVars
  <1>7. ASSUME NEW s \in Sessions, Write(s)  PROVE VersionsHold
    <2>1. /\ clock' = clock + 1 /\ text'.version = clock + 1 /\ monitor = s /\ monitor' = s
          /\ UNCHANGED <<revisions, keep, disk, kept, pending>>
      BY <1>0, <1>7 DEF Write, Mark, Saving, unsavedVars
    <2>2. /\ Ordered(revisions) /\ UpTo(revisions, clock) /\ UpTo(revisions, clock')
          /\ keep # None => Ordered(keep) /\ UpTo(keep, clock) /\ UpTo(keep, clock')
          /\ disk # Gone => Ordered(disk.revisions) /\ UpTo(disk.revisions, clock')
      BY <2>1, SoundLater DEF VersionInv, TypeOK, Sound, Images
    <2>3. disk # Gone => disk.text.version <= clock'
      BY <1>0, <2>1 DEF VersionInv, TypeOK, Images, Texts
    <2>4. /\ \A i \in 1..Len(revisions) : revisions[i].version \in Nat
          /\ keep # None => \A i \in 1..Len(keep) : keep[i].version \in Nat
      BY VersionNumbers DEF TypeOK
    <2>5. Older(revisions)' /\ (keep # None => Older(keep))'
      <3>1. \A i \in 1..Len(revisions) : revisions[i].version < clock + 1
        BY <1>0, <2>2, <2>4 DEF UpTo
      <3>2. keep # None => \A i \in 1..Len(keep) : keep[i].version < clock + 1
        BY <1>0, <2>2, <2>4 DEF UpTo
      <3>3. text'.version = clock + 1 /\ UNCHANGED <<revisions, keep>>  BY <2>1
      <3>4. Older(revisions)'  BY <3>1, <3>3 DEF Older
      <3>5. (keep # None => Older(keep))'  BY <3>2, <3>3 DEF Older
      <3>6. QED  BY <3>4, <3>5
    <2>6. VersionInv'  BY <1>0, <2>1, <2>2, <2>3, <2>5 DEF VersionInv, Sound
    <2>7. KeptInv'  BY <2>1 DEF KeptInv, Versions
    <2>8. QED  BY <2>6, <2>7 DEF VersionsHold
  <1>8. ASSUME NEW s \in Sessions, Checkin(s)  PROVE VersionsHold
    <2>1. /\ step[s] = "written" /\ monitor = s /\ monitor' = s /\ step'[s] = "versioned"
          /\ \A r \in Sessions : step'[r] # "written"
          /\ UNCHANGED <<clock, text, disk, keep>> /\ kept' = Owed
          /\ pending' = pending \cup {text.version}
      BY <1>0, <1>8 DEF Checkin, Saving
    <2>2. Older(revisions)  BY <2>1 DEF VersionInv
    <2> DEFINE a == <<text>> \o revisions
    <2>3. a \in Seq(Texts) /\ Sound(a)  BY <1>0, <2>2, AddedTyped, AddedSound
    <2>4. Sound(revisions')
      <3>1. \/ revisions' = revisions
            \/ \E n \in 0..Len(a) : revisions' = SubSeq(a, 1, n)
        BY <1>8, CheckinRevisions
      <3> HIDE DEF a
      <3>2. CASE revisions' = revisions
        BY <3>2 DEF VersionInv
      <3>3. CASE \E n \in 0..Len(a) : revisions' = SubSeq(a, 1, n)
        BY <2>3, <3>3, PrefixSound
      <3>4. QED  BY <3>1, <3>2, <3>3
    <2>5. VersionInv'  BY <2>1, <2>4 DEF VersionInv, Sound
    <2>6. Owed \subseteq Versions(revisions')  BY <1>8, OwedStays
    <2>7. keep # None => Owed \subseteq kept  BY DEF Owed
    <2>8. Owed \ {text.version} \subseteq kept  BY DEF Owed
    <2>9. disk # Gone => Owed \ (pending \cup {text.version}) \subseteq Versions(disk.revisions)
      BY <2>8 DEF KeptInv
    <2>10. KeptInv'
      BY <2>1, <2>6, <2>7, <2>9 DEF KeptInv, Versions
    <2>11. QED  BY <2>5, <2>10 DEF VersionsHold
  <1>9. ASSUME NEW s \in Sessions, Persist(s)  PROVE VersionsHold
    BY <1>0, <1>1, <1>9 DEF Persist, CloseEditors
  <1>10. ASSUME NEW s \in Sessions, Delete(s)  PROVE VersionsHold
    <2>1. \A r \in Sessions : step'[r] = "written" => step[r] = "written"
      BY <1>0, <1>10 DEF Delete, CloseEditors
    <2>2. Save \/ UNCHANGED <<disk, pending>>  BY <1>10 DEF Delete, unsavedVars
    <2>3. QED  BY <1>1, <1>10, <2>1, <2>2 DEF Delete
  <1>11. CASE PurgeRead
    <2>1. PICK n \in 0..Len(revisions) :
              keep' = SubSeq(revisions, 1, n) /\ kept' = kept \cap Versions(keep')
      BY <1>11 DEF PurgeRead
    <2>2. UNCHANGED <<clock, text, revisions, disk, step, monitor, pending>>
      BY <1>11 DEF PurgeRead, contentVars, unsavedVars, sessionVars
    <2>3. /\ Sound(keep')
          /\ Older(revisions) => Older(keep')
      BY <1>0, <2>1, PrefixSound DEF VersionInv
    <2>4. VersionInv'  BY <2>2, <2>3 DEF VersionInv, Sound, Older
    <2>5. KeptInv'  BY <2>1, <2>2 DEF KeptInv, Versions
    <2>6. QED  BY <2>4, <2>5 DEF VersionsHold
  <1>12. CASE PurgeWrite
    BY <1>0, <1>1, <1>12 DEF PurgeWrite, sessionVars, auxVars
  <1>13. CASE DeleteAbove
    BY <1>0, <1>1, <1>13 DEF DeleteAbove, sessionVars, auxVars
  <1>14. ASSUME NEW u \in Sessions, NEW a \in Sessions, ReplaceUser(u, a)  PROVE VersionsHold
    BY <1>0, <1>1, <1>14 DEF ReplaceUser, sessionVars, auxVars
  <1>15. ASSUME NEW t \in Targets, NEW p \in Paths, Move(t, p)  PROVE VersionsHold
    BY <1>0, <1>2, <1>15 DEF Move, contentVars, unsavedVars, sessionVars, auxVars
  <1>16. CASE Relocate
    <2>1. CASE disk # Gone /\ place[mover.target] \notin Trashed
      <3>1. text'.version = text.version  BY <1>0, <1>16, <2>1 DEF Relocate, Texts
      <3>2. QED  BY <1>0, <1>1, <1>16, <2>1, <3>1 DEF Relocate, sessionVars
    <2>2. CASE ~(disk # Gone /\ place[mover.target] \notin Trashed)
      BY <1>2, <1>16, <2>2 DEF Relocate, contentVars, unsavedVars, sessionVars
    <2>3. QED  BY <2>1, <2>2
  <1>17. CASE SaveMove
    BY <1>2, <1>17 DEF SaveMove, contentVars, unsavedVars, sessionVars, auxVars
  <1>18. CASE Crash
    <2>1. /\ UNCHANGED <<clock, disk>> /\ keep' = None /\ monitor' = Nobody
          /\ \A r \in Sessions : step'[r] = "closed"
      BY <1>18 DEF Crash, CloseEditors
    <2>2. CASE disk # Gone
      <3>1. text' = disk.text /\ revisions' = disk.revisions /\ kept' = kept \ pending
        BY <1>18, <2>2 DEF Crash
      <3>2. VersionInv'  BY <2>1, <2>2, <3>1 DEF VersionInv, Sound
      <3>3. KeptInv'  BY <2>1, <2>2, <3>1 DEF KeptInv, Versions
      <3>4. QED  BY <3>2, <3>3 DEF VersionsHold
    <2>3. CASE disk = Gone
      <3>1. UNCHANGED <<text, revisions>> /\ kept' = {}
        BY <1>18, <2>3 DEF Crash
      <3>2. VersionInv'  BY <2>1, <2>3, <3>1 DEF VersionInv, Sound
      <3>3. KeptInv'  BY <2>1, <2>3, <3>1 DEF KeptInv
      <3>4. QED  BY <3>2, <3>3 DEF VersionsHold
    <2>4. QED  BY <2>2, <2>3
  <1>19. ASSUME NEW s \in Sessions, ValidateInFactory(s)  PROVE VersionsHold
    BY <1>0, <1>2, <1>19 DEF ValidateInFactory, contentVars, unsavedVars, auxVars
  <1>20. ASSUME NEW s \in Sessions, Fail(s)  PROVE VersionsHold
    <2>1. /\ UNCHANGED <<text, keep, disk, kept, pending>> /\ clock' \in {clock, clock + 1}
          /\ \A r \in Sessions : step'[r] = "written" => step[r] = "written"
      BY <1>0, <1>20 DEF Fail, FailToWrite, FailToStore, Mark
    <2>2. CASE revisions' = revisions
      BY <1>1, <2>1, <2>2
    <2>3. CASE FailToStore(s) /\ step[s] = "written" /\ revisions' = <<text>> \o revisions
      <3>1. Older(revisions) /\ clock' = clock  BY <2>3 DEF VersionInv, FailToStore
      <3>2. /\ Sound(<<text>> \o revisions)
            /\ Versions(<<text>> \o revisions) = Versions(revisions) \cup {text.version}
        BY <3>1, AddedSound
      <3>3. /\ Sound(revisions')
            /\ Versions(revisions') = Versions(revisions) \cup {text.version}
        BY <2>3, <3>2, Zenon
      <3>4. \A r \in Sessions : step'[r] # "written"
        BY <1>0, <1>20, <2>3 DEF Fail, Saving
      <3>5. VersionInv'  BY <2>1, <3>1, <3>3, <3>4 DEF VersionInv, Sound
      <3>6. kept \subseteq Versions(revisions')  BY <3>3 DEF KeptInv
      <3>7. KeptInv'  BY <2>1, <3>6 DEF KeptInv, Versions
      <3>8. QED  BY <3>5, <3>7 DEF VersionsHold
    <2>4. QED  BY <1>20, <2>2, <2>3 DEF Fail, FailToWrite, FailToStore
  <1>21. CASE FailMove
    BY <1>2, <1>21 DEF FailMove, contentVars, unsavedVars, sessionVars
  <1>22. CASE SaveOther
    BY <1>0, <1>1, <1>22 DEF SaveOther, contentVars, unsavedVars, sessionVars, auxVars
  <1>23. CASE UNCHANGED vars
    BY <1>2, <1>23 DEF vars, contentVars, unsavedVars, sessionVars, auxVars
  <1>24. QED
    BY <1>3, <1>4, <1>5, <1>6, <1>7, <1>8, <1>9, <1>10, <1>11, <1>12, <1>13, <1>14, <1>15,
       <1>16, <1>17, <1>18, <1>19, <1>20, <1>21, <1>22, <1>23 DEF Next, EditorStep

(***************************************************************************)
(* Links                                                                   *)
(***************************************************************************)

Excused == outdated \cup mixed

(* Where links lead: a target that moves is still linked at its old path   *)
(* until the relocation.                                                   *)
Linked == IF mover # None /\ ~mover.rewritten
          THEN [place EXCEPT ![mover.target] = mover.old] ELSE place

(* Memory and disk differ about the place of the target that is moved, and *)
(* its links are the same in the text, in the database and in the editors  *)
(* that have not missed the relocation.                                    *)
LinkInv(t) ==
    /\ mover = None \/ mover.target # t => diskPlace[t] = place[t]
    /\ mover # None /\ mover.target = t => diskPlace[t] \in {mover.old, place[t]}
    /\ text.links[t] = Linked[t]
    /\ disk # Gone => disk.text.links[t] = Linked[t]
    /\ \A s \in Sessions :
          step[s] # "closed" /\ "moved" \notin missed[s] /\ seen[s] # NoDate => fields[s][t] = Linked[t]

LinksInv == \A t \in Targets \ Excused : LinkInv(t)

(* A link to the place that is left leads to the new one. *)
LEMMA ReplacedSame ==
    ASSUME NEW old \in Seq(Int), NEW new \in Seq(Int)
    PROVE  Replaced(old, old, new) = new
  <1>1. Len(old) \in Nat  BY LenProperties
  <1> DEFINE whole == SubSeq(old, 1, Len(old))
             rest == SubSeq(old, Len(old) + 1, Len(old))
  <1>2. \A i \in 1..Len(old) : old[i] \in Int  BY ElementOfSeq
  <1>3. /\ whole \in Seq(Int)
        /\ Len(whole) = IF 1 <= Len(old) THEN Len(old) - 1 + 1 ELSE 0
        /\ \A i \in 1..(Len(old) - 1 + 1) : whole[i] = old[1 + i - 1]
    BY <1>1, <1>2, SubSeqProperties
  <1>4. whole = old  BY <1>1, <1>2, <1>3, SeqEqual
  <1>5. rest = << >>  BY <1>1, SubSeqEmpty
  <1>6. new \o << >> = new  BY ConcatEmptySeq
  <1>7. QED  BY <1>1, <1>4, <1>5, <1>6 DEF Replaced

LEMMA InitLinks == Init => LinksInv
  <1> SUFFICES ASSUME Init  PROVE LinksInv
    OBVIOUS
  <1>1. place = Start /\ diskPlace = Start /\ mover = None /\ \A s \in Sessions : step[s] = "closed"
    BY DEF Init
  <1>2. text.links = Start /\ disk.text.links = Start  BY DEF Init, FirstText
  <1>3. QED  BY <1>1, <1>2 DEF LinksInv, LinkInv, Linked

(* Where a target is linked that does not move, or has been relocated. *)
LEMMA LinkedPlace ==
    ASSUME TypeOK, NEW t \in Targets
    PROVE  /\ mover = None => Linked[t] = place[t]
           /\ mover # None =>
                 Linked[t] = IF mover.target = t /\ ~mover.rewritten THEN mover.old ELSE place[t]
  BY DEF TypeOK, Linked

(* The steps that move nothing. *)
LEMMA OthersKeepLinks ==
    ASSUME TypeOK', LinksInv,
           UNCHANGED <<place, mover>>, diskPlace' = diskPlace \/ diskPlace' = place,
           Excused \subseteq Excused',
           \A t \in Targets \ Excused' : text'.links[t] = Linked[t],
           disk' = disk \/ Save,
           \A s \in Sessions :
              \/ step'[s] = "closed" \/ seen'[s] = NoDate \/ fields'[s] = text'.links
              \/ /\ step[s] # "closed" /\ fields'[s] = fields[s] /\ seen'[s] = seen[s]
                 /\ "moved" \in missed[s] => "moved" \in missed'[s]
    PROVE  LinksInv'
  <1> SUFFICES ASSUME NEW t \in Targets, t \notin Excused'  PROVE LinkInv(t)'
    BY DEF LinksInv
  <1>1. LinkInv(t)  BY DEF LinksInv
  <1>2. Linked' = Linked /\ text'.links[t] = Linked[t]  BY DEF Linked
  <1>3. (mover = None \/ mover.target # t => diskPlace[t] = place[t])'  BY <1>1 DEF LinkInv
  <1>4. (mover # None /\ mover.target = t => diskPlace[t] \in {mover.old, place[t]})'
    BY <1>1 DEF LinkInv
  <1>5. disk' # Gone => disk'.text.links[t] = Linked[t]
    <2>1. CASE disk' = disk
      BY <1>1, <2>1 DEF LinkInv
    <2>2. CASE Save
      BY <1>2, <2>2, SaveStores DEF TypeOK
    <2>3. QED  BY <2>1, <2>2
  <1>6. ASSUME NEW s \in Sessions, step'[s] # "closed", "moved" \notin missed'[s], seen'[s] # NoDate
        PROVE  fields'[s][t] = Linked[t]
    BY <1>1, <1>2, <1>6 DEF LinkInv
  <1>7. QED  BY <1>2, <1>3, <1>4, <1>5, <1>6 DEF LinkInv

LEMMA NextLinks ==
    ASSUME TypeOK, TypeOK', MonitorInv, LinksInv, [Next]_vars
    PROVE  LinksInv'
  <1>0. /\ step \in [Sessions -> Steps] /\ missed \in [Sessions -> SUBSET Kinds]
        /\ fields \in [Sessions -> Links] /\ text \in Texts
    BY DEF TypeOK
  <1>1. ASSUME UNCHANGED <<place, mover, outdated, mixed>>, diskPlace' = diskPlace \/ diskPlace' = place,
               text'.links = text.links, disk' = disk \/ Save,
               \A s \in Sessions :
                  \/ step'[s] = "closed" \/ seen'[s] = NoDate \/ fields'[s] = text.links
                  \/ /\ step[s] # "closed" /\ fields'[s] = fields[s] /\ seen'[s] = seen[s]
                     /\ "moved" \in missed[s] => "moved" \in missed'[s]
        PROVE  LinksInv'
    <2>1. Excused' = Excused  BY <1>1 DEF Excused
    <2>2. \A t \in Targets \ Excused' : text'.links[t] = Linked[t]
      BY <1>1, <2>1 DEF LinksInv, LinkInv
    <2>3. QED  BY <1>1, <2>1, <2>2, OthersKeepLinks
  <1>2. ASSUME NEW s \in Sessions, EditorStep(s)  PROVE LinksInv'
    <2>1. CASE Load(s)
      <3>1. \A r \in Sessions : \/ fields'[r] = text.links
                                \/ /\ step'[r] = step[r] /\ fields'[r] = fields[r]
                                   /\ seen'[r] = seen[r] /\ missed'[r] = missed[r]
        BY <1>0, <2>1 DEF Load
      <3>2. UNCHANGED <<moveVars, outdated, mixed, text, disk>>  BY <2>1 DEF Load, contentVars
      <3>3. QED  BY <1>1, <3>1, <3>2 DEF moveVars
    <2>2. CASE Close(s)
      <3>1. \A r \in Sessions : \/ step'[r] = "closed"
                                \/ /\ step'[r] = step[r] /\ fields'[r] = fields[r]
                                   /\ seen'[r] = seen[r] /\ missed'[r] = missed[r]
        BY <1>0, <2>2 DEF Close, CloseEditors
      <3>2. UNCHANGED <<moveVars, outdated, mixed, text, disk>>  BY <2>2 DEF Close, contentVars
      <3>3. QED  BY <1>1, <3>1, <3>2 DEF moveVars
    <2>3. CASE Validate(s) \/ ValidateInFactory(s)
      <3>1. \A r \in Sessions : step[r] # "closed" \/ step'[r] = "closed"
        BY <1>0, <2>3 DEF Validate, ValidateInFactory
      <3>2. UNCHANGED <<moveVars, outdated, mixed, text, disk, fields, seen, missed>>
        BY <2>3 DEF Validate, ValidateInFactory, contentVars, auxVars
      <3>3. QED  BY <1>1, <3>1, <3>2 DEF moveVars
    <2>4. CASE Write(s)
      <3>1. /\ text'.links = fields[s] /\ step[s] # "closed"
            /\ UNCHANGED <<place, diskPlace, mover, disk, fields, seen, mixed>>
            /\ outdated' = IF "moved" \in missed[s] \/ seen[s] = NoDate THEN Targets ELSE outdated
        BY <1>0, <2>4 DEF Write, moveVars
      <3>2. \A r \in Sessions : /\ step'[r] # "closed" => step[r] # "closed"
                                /\ "moved" \in missed[r] => "moved" \in missed'[r]
        BY <1>0, <2>4 DEF Write, Mark, Note
      <3>3. Excused \subseteq Excused'  BY <3>1 DEF Excused, TypeOK
      <3>4. \A t \in Targets \ Excused' : text'.links[t] = Linked[t]
        BY <3>1, <3>3 DEF LinksInv, LinkInv, Excused
      <3>5. QED  BY <3>1, <3>2, <3>3, <3>4, OthersKeepLinks
    <2>5. CASE Checkin(s)
      <3>1. \A r \in Sessions : step'[r] # "closed" => step[r] # "closed"
        BY <1>0, <2>5 DEF Checkin
      <3>2. UNCHANGED <<moveVars, outdated, mixed, text, disk, fields, seen, missed>>
        BY <2>5 DEF Checkin
      <3>3. QED  BY <1>1, <3>1, <3>2 DEF moveVars
    <2>6. CASE Persist(s)
      <3>1. \A r \in Sessions : \/ step'[r] = "closed"
                                \/ /\ step'[r] = step[r] /\ fields'[r] = fields[r]
                                   /\ seen'[r] = seen[r] /\ missed'[r] = missed[r]
        BY <1>0, <2>6 DEF Persist, CloseEditors
      <3>2. UNCHANGED <<moveVars, outdated, mixed, text>> /\ Save  BY <2>6 DEF Persist
      <3>3. QED  BY <1>1, <3>1, <3>2 DEF moveVars
    <2>7. CASE Delete(s)
      <3>1. \A r \in Sessions : \/ step'[r] = "closed"
                                \/ /\ step'[r] = step[r] /\ fields'[r] = fields[r]
                                   /\ seen'[r] = seen[r]
                                   /\ "moved" \in missed[r] => "moved" \in missed'[r]
        BY <1>0, <2>7 DEF Delete, CloseEditors
      <3>2. UNCHANGED <<moveVars, outdated, mixed, text>> /\ (disk' = disk \/ Save)
        BY <2>7 DEF Delete
      <3>3. QED  BY <1>1, <3>1, <3>2 DEF moveVars
    <2>8. CASE Fail(s)
      <3>0. step[s] # "closed" /\ step' = [step EXCEPT ![s] = "open"]
        BY <2>8 DEF Fail, FailToWrite, FailToStore
      <3>1. \A r \in Sessions : step'[r] # "closed" => step[r] # "closed"
        BY <1>0, <3>0
      <3>4. UNCHANGED missed \/ Note(s, "dated")
        BY <2>8 DEF Fail, FailToWrite, FailToStore, Mark
      <3>5. \A r \in Sessions : "moved" \in missed[r] => "moved" \in missed'[r]
        BY <1>0, <3>4 DEF Note
      <3>2. UNCHANGED <<moveVars, outdated, mixed, text, disk, fields, seen>>
        BY <2>8 DEF Fail, FailToWrite, FailToStore
      <3>3. QED  BY <1>1, <3>1, <3>5, <3>2 DEF moveVars
    <2>9. QED  BY <1>2, <2>1, <2>2, <2>3, <2>4, <2>5, <2>6, <2>7, <2>8 DEF EditorStep
  <1>3. ASSUME NEW s \in Sessions, NEW i \in 1..listed[s], Choose(s, i)  PROVE LinksInv'
    <2>1. \A r \in Sessions : seen'[r] = NoDate \/ (fields'[r] = fields[r] /\ seen'[r] = seen[r])
      BY <1>0, <1>3 DEF Choose, TypeOK
    <2>2. UNCHANGED <<moveVars, outdated, mixed, text, disk, step, missed>>
      BY <1>3 DEF Choose, contentVars, auxVars
    <2>3. QED  BY <1>1, <2>1, <2>2 DEF moveVars
  <1>4. ASSUME UNCHANGED <<place, mover, outdated, mixed, text, step, fields, seen, missed>>,
               diskPlace' = diskPlace \/ diskPlace' = place, disk' = disk \/ Save
        PROVE  LinksInv'
    BY <1>1, <1>4
  <1>5. CASE PurgeRead \/ PurgeWrite \/ DeleteAbove
    BY <1>4, <1>5 DEF PurgeRead, PurgeWrite, DeleteAbove, contentVars, sessionVars, auxVars, moveVars
  <1>6. ASSUME NEW u \in Sessions, NEW a \in Sessions, ReplaceUser(u, a)  PROVE LinksInv'
    BY <1>4, <1>6 DEF ReplaceUser, sessionVars, auxVars, moveVars
  <1>7. CASE UNCHANGED vars
    BY <1>4, <1>7 DEF vars, contentVars, sessionVars, auxVars, moveVars
  <1>8. CASE SaveOther
    BY <1>4, <1>8 DEF SaveOther, contentVars, sessionVars, auxVars
  <1>9. ASSUME NEW u \in Targets, NEW p \in Paths, Move(u, p)  PROVE LinksInv'
    <2>1. /\ mover = None /\ place' = [place EXCEPT ![u] = p]
          /\ mover' = [target |-> u, old |-> place[u], rewritten |-> FALSE]
          /\ UNCHANGED <<text, disk, step, fields, seen, missed, outdated, mixed, diskPlace>>
      BY <1>9 DEF Move, contentVars, sessionVars, auxVars
    <2>2. mover'.target = u /\ mover'.old = place[u] /\ ~mover'.rewritten  BY <2>1
    <2>3. mover' # None
      <3>1. place[u] \in Paths  BY DEF TypeOK
      <3>2. mover' \in [target : Targets, old : Paths, rewritten : BOOLEAN]  BY <2>1, <3>1
      <3>3. QED  BY <3>2, NoneAssumption
    <2> SUFFICES ASSUME NEW t \in Targets, t \notin Excused'  PROVE LinkInv(t)'
      BY DEF LinksInv
    <2>4. LinkInv(t)  BY <2>1 DEF LinksInv, Excused
    <2>5. Linked[t] = place[t] /\ diskPlace[t] = place[t]  BY <2>1, <2>4, LinkedPlace DEF LinkInv
    <2>6. t # u => place'[t] = place[t]  BY <2>1 DEF TypeOK
    <2>7. Linked'[t] = place[t]
      <3>1. Linked'[t] = IF mover'.target = t /\ ~mover'.rewritten THEN mover'.old ELSE place'[t]
        BY <2>2, <2>3 DEF TypeOK, Linked
      <3>2. QED  BY <2>2, <2>6, <3>1
    <2>8. QED  BY <2>1, <2>2, <2>3, <2>4, <2>5, <2>6, <2>7 DEF LinkInv
  <1>10. CASE Relocate
    <2>1. /\ mover # None /\ ~mover.rewritten
          /\ mover' = [mover EXCEPT !.rewritten = TRUE]
          /\ mover \in [target : Targets, old : Paths, rewritten : BOOLEAN]
          /\ UNCHANGED <<place, diskPlace, step, fields, seen>>
      BY <1>10 DEF Relocate, sessionVars, TypeOK
    <2>2. mover'.target = mover.target /\ mover'.old = mover.old /\ mover'.rewritten  BY <2>1
    <2>3. mover' # None  BY <2>1, <2>2, NoneAssumption
    <2> SUFFICES ASSUME NEW t \in Targets, t \notin Excused'  PROVE LinkInv(t)'
      BY DEF LinksInv
    <2>4. t \notin Excused  BY <1>10 DEF Relocate, Excused
    <2>5. LinkInv(t)  BY <2>4 DEF LinksInv
    <2>6. Linked'[t] = place[t]
      BY <2>1, <2>2 DEF Linked, TypeOK
    <2>7. Linked[t] = IF mover.target = t THEN mover.old ELSE place[t]
      BY <2>1, LinkedPlace
    <2>8. /\ (mover = None \/ mover.target # t => diskPlace[t] = place[t])'
          /\ (mover # None /\ mover.target = t => diskPlace[t] \in {mover.old, place[t]})'
      BY <2>1, <2>2, <2>3, <2>5 DEF LinkInv
    <2>9. CASE ~(disk # Gone /\ place[mover.target] \notin Trashed)
      <3>1. outdated' = outdated \cup {mover.target} /\ UNCHANGED <<text, disk, missed>>
        BY <1>10, <2>9 DEF Relocate, contentVars
      <3>2. mover.target # t  BY <3>1 DEF Excused
      <3>3. Linked'[t] = Linked[t]  BY <2>6, <2>7, <3>2
      <3>4. QED  BY <2>1, <2>5, <2>8, <3>1, <3>3 DEF LinkInv
    <2>10. CASE disk # Gone /\ place[mover.target] \notin Trashed
      <3>1. /\ text' = [text EXCEPT !.links = Rewritten] /\ Save
            /\ Note(Nobody, "moved") /\ mixed' = mixed \cup Mixed
        BY <1>10, <2>10 DEF Relocate
      <3>2. text'.links = Rewritten  BY <1>0, <3>1 DEF Texts
      <3>3. Rewritten[t] = Replaced(text.links[t], mover.old, place[mover.target])
        BY DEF Rewritten
      <3>4. Rewritten[t] = place[t]
        <4>1. CASE t = mover.target
          <5>1. mover.old \in Seq(Int) /\ place[t] \in Seq(Int)
            BY <2>1, PathsAssumption DEF TypeOK
          <5>2. text.links[t] = mover.old  BY <2>5, <2>7, <4>1 DEF LinkInv
          <5>3. QED  BY <3>3, <4>1, <5>1, <5>2, ReplacedSame
        <4>2. CASE t # mover.target
          <5>1. Rewritten[t] = text.links[t]  BY <3>1, <4>2 DEF Mixed, Excused
          <5>2. QED  BY <2>5, <2>7, <4>2, <5>1 DEF LinkInv
        <4>3. QED  BY <4>1, <4>2
      <3>5. disk' # Gone => disk'.text = text'  BY <3>1, SaveStores DEF TypeOK
      <3>6. \A s \in Sessions : step[s] # "closed" => "moved" \in missed'[s]
        BY <1>0, <3>1 DEF Note
      <3>7. text'.links[t] = Linked'[t]  BY <2>6, <3>2, <3>4
      <3>8. QED  BY <2>1, <2>8, <3>5, <3>6, <3>7 DEF LinkInv
    <2>11. QED  BY <2>9, <2>10
  <1>11. CASE SaveMove
    <2>1. /\ mover # None /\ mover.rewritten /\ diskPlace' = place /\ mover' = None
          /\ UNCHANGED <<place, text, disk, step, fields, seen, missed, outdated, mixed>>
      BY <1>11 DEF SaveMove, contentVars, sessionVars, auxVars
    <2>2. Linked' = Linked  BY <2>1 DEF Linked
    <2>3. QED  BY <2>1, <2>2 DEF LinksInv, LinkInv, Excused
  <1>12. CASE FailMove
    <2>1. /\ mover # None /\ mover' = None /\ outdated' = outdated \cup {mover.target}
          /\ UNCHANGED <<place, diskPlace, text, disk, step, fields, seen, missed, mixed>>
      BY <1>12 DEF FailMove, contentVars, sessionVars
    <2> SUFFICES ASSUME NEW t \in Targets, t \notin Excused'  PROVE LinkInv(t)'
      BY DEF LinksInv
    <2>2. t # mover.target /\ LinkInv(t)  BY <2>1 DEF LinksInv, Excused
    <2>3. Linked[t] = place[t]  BY <2>1, <2>2, LinkedPlace
    <2>4. Linked'[t] = place[t]  BY <2>1 DEF Linked
    <2>5. QED  BY <2>1, <2>2, <2>3, <2>4 DEF LinkInv
  <1>13. CASE Crash
    <2>1. /\ place' = diskPlace /\ mover' = None /\ UNCHANGED <<disk, diskPlace, mixed>>
          /\ \A s \in Sessions : step'[s] = "closed"
          /\ outdated' = IF mover # None
                            /\ mover.rewritten # (diskPlace[mover.target] = place[mover.target])
                         THEN outdated \cup {mover.target} ELSE outdated
          /\ text' = text \/ (disk # Gone /\ text' = disk.text)
      BY <1>13 DEF Crash, CloseEditors
    <2> SUFFICES ASSUME NEW t \in Targets, t \notin Excused'  PROVE LinkInv(t)'
      BY DEF LinksInv
    <2>2. LinkInv(t)  BY <2>1 DEF LinksInv, Excused
    <2>3. Linked'[t] = diskPlace[t]  BY <2>1 DEF Linked
    <2>4. Linked[t] = diskPlace[t]
      <3>1. CASE mover = None \/ mover.target # t
        BY <2>2, <3>1, LinkedPlace DEF LinkInv
      <3>2. CASE mover # None /\ mover.target = t
        <4>1. mover.rewritten <=> diskPlace[t] = place[t]
          <5>1. mover.rewritten \in BOOLEAN  BY <3>2 DEF TypeOK
          <5>2. mover.rewritten = (diskPlace[t] = place[t])  BY <2>1, <3>2 DEF Excused
          <5>3. QED  BY <5>1, <5>2
        <4>2. diskPlace[t] \in {mover.old, place[t]}  BY <2>2, <3>2 DEF LinkInv
        <4>3. QED  BY <3>2, <4>1, <4>2, LinkedPlace
      <3>3. QED  BY <3>1, <3>2
    <2>5. text'.links[t] = Linked[t]  BY <2>1, <2>2 DEF LinkInv
    <2>6. QED  BY <2>1, <2>2, <2>3, <2>4, <2>5 DEF LinkInv
  <1>14. QED
    BY <1>2, <1>3, <1>5, <1>6, <1>7, <1>8, <1>9, <1>10, <1>11, <1>12, <1>13 DEF Next

(***************************************************************************)
(* The theorems                                                            *)
(***************************************************************************)

EditingInv == TypeOK /\ MonitorInv /\ StaleInv /\ StoreInv /\ VersionInv /\ KeptInv

(* The invariant holds of every step. *)
THEOREM Invariance == Spec => []EditingInv
  <1>1. Init => EditingInv
    BY InitTyped, InitStale, InitStore, InitVersions DEF EditingInv
  <1>2. EditingInv /\ [Next]_vars => EditingInv'
    BY NextTyped, NextMonitor, NextStale, NextStore, NextVersions DEF EditingInv, VersionsHold
  <1>3. QED  BY <1>1, <1>2, PTL DEF Spec

(* The variables have their types. *)
THEOREM EditingTyping == Spec => []TypeOK
  <1>1. EditingInv => TypeOK  BY DEF EditingInv
  <1>2. QED  BY <1>1, Invariance, PTL

(* "Content is stale": whatever the sessions, and however their saves,     *)
(* deletions and chosen revisions come in between, no save that passes the *)
(* check overwrites a dated change that its session has not seen.          *)
THEOREM StaleCheckSuffices == Spec => []NoDatedChangeLost
  <1>1. EditingInv => NoDatedChangeLost  BY DEF EditingInv, StaleInv, NoDatedChangeLost
  <1>2. QED  BY <1>1, Invariance, PTL

(* Whenever no editor saves, the database has the content of the tree with *)
(* its revisions, and nothing of a content outside of it.                  *)
THEOREM StoredWhenNobodySaves == Spec => []StoredAtRest
  <1>1. EditingInv => StoredAtRest
    <2> SUFFICES ASSUME EditingInv, monitor = Nobody
                 PROVE  IF attached
                        THEN failed \/ (disk # Gone /\ disk.text = text /\ disk.revisions = revisions)
                        ELSE disk = Gone
      BY DEF StoredAtRest
    <2>1. \A s \in Sessions : step[s] \notin {"written", "versioned"}
      BY DEF EditingInv, MonitorInv, Saving
    <2>2. QED  BY <2>1 DEF EditingInv, StoreInv
  <1>2. QED  BY <1>1, Invariance, PTL

(* Revisions stay in order, and the versions that neither Count nor a      *)
(* purge of the administrator lets go are there, for every Count and Days, *)
(* whatever editors, purges and crashes come together.                     *)
THEOREM RevisionsStay == Spec => []RevisionsKept
  <1>1. EditingInv => RevisionsKept
    BY DEF EditingInv, VersionInv, KeptInv, Sound, RevisionsKept
  <1>2. QED  BY <1>1, Invariance, PTL

(* However targets move, into the trash and out of it, with failures and   *)
(* crashes in between, and whatever their paths have in common: a link     *)
(* follows its target, but for the reasons that the property names.        *)
THEOREM LinksKept == Spec => []LinksStay
  <1>1. Init => EditingInv /\ LinksInv
    BY InitTyped, InitStale, InitStore, InitVersions, InitLinks DEF EditingInv
  <1>2. EditingInv /\ LinksInv /\ [Next]_vars => (EditingInv /\ LinksInv)'
    BY NextTyped, NextMonitor, NextStale, NextStore, NextVersions, NextLinks
    DEF EditingInv, VersionsHold
  <1>3. EditingInv /\ LinksInv => LinksStay
    <2> SUFFICES ASSUME EditingInv, LinksInv, mover = None, NEW t \in Targets \ Excused
                 PROVE  /\ attached => text.links[t] = place[t]
                        /\ disk # Gone => disk.text.links[t] = diskPlace[t]
      BY DEF LinksStay, FollowExcept, Excused
    <2>1. LinkInv(t) /\ Linked[t] = place[t]
      BY LinkedPlace DEF LinksInv, EditingInv
    <2>2. QED  BY <2>1 DEF LinkInv
  <1>4. QED  BY <1>1, <1>2, <1>3, PTL DEF Spec
===============================================================================
