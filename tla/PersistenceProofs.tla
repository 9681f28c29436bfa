--------------------------- MODULE PersistenceProofs ---------------------------
(***************************************************************************)
(* Theorems about Persistence, for any number of stores and changes.       *)
(*                                                                         *)
(* What is loaded was held at one instant, although the document that is   *)
(* written may be a mixture: the items that get into it through the shared *)
(* map carry numbers beyond the sequence of the snapshot, and such a       *)
(* document is refused.  The invariant HeldInv says so of every document   *)
(* in the making.                                                          *)
(***************************************************************************)
EXTENDS Persistence, TLAPS

\* Nothing is numbered beyond the newest change.
PastBounded == \A c \in past : c.seq <= change

\* A store whose goroutine lives holds one of the contents of the past.
ContentHeld(p) ==
    /\ store[p].content.seq <= change
    /\ writer[p].at # "none" => store[p].content \in past

\* The snapshot d of a store that holds c by now: what the shared map has gained came
\* after the snapshot.
SnapshotOf(d, c) ==
    /\ d \in past
    /\ d.retired \subseteq c.retired
    /\ \A n \in c.retired \ d.retired : n > d.seq

\* A document that will be accepted when it is loaded is a snapshot.
Sound(d) == Valid(d) => d.body \in past

WriterSound(p) ==
    /\ writer[p].at \in {"tag", "encode"} =>
        SnapshotOf(writer[p].doc.body, store[p].content)
    /\ writer[p].at = "save" => Sound(writer[p].doc)

HeldInv ==
    /\ PersistenceTypeOK
    /\ PastBounded
    /\ \A p \in Stores : ContentHeld(p) /\ WriterSound(p)
    /\ LoadsOneInstant

-----------------------------------------------------------------------------
(* Types.                                                                  *)

\* The empty content is a content, and blank documents and records have their types.
LEMMA BlankTypes ==
    /\ Empty \in Content
    /\ NoDocument \in Document
    /\ NoStore \in StoreRec
    /\ NoWriter \in WriterRec
<1>1. Empty \in Content
  BY PersistenceAssumption DEF Empty, Content, Body, SeenBy
<1>2. Empty \in Body
  BY <1>1 DEF Content
<1>3. NoDocument \in Document
  BY <1>2 DEF NoDocument, Document
<1>4. NoStore \in StoreRec
  BY <1>1 DEF NoStore, StoreRec
<1>5. NoWriter \in WriterRec
  BY <1>3 DEF NoWriter, WriterRec
<1> QED
  BY <1>1, <1>3, <1>4, <1>5

\* What a store loads (newPersistentRouteStateStoreWithRoot) is a content of the past, or
\* nothing.
LEMMA LoadedHeld ==
  ASSUME HeldInv
  PROVE  Loaded \in Content /\ Loaded.seq <= change
<1>1. CASE Loadable
  <2>1. Loaded = file.body /\ file.body \in past
    BY <1>1 DEF HeldInv, LoadsOneInstant, Loaded
  <2> QED
    BY <2>1 DEF HeldInv, PersistenceTypeOK, PastBounded
<1>2. CASE ~Loadable
  <2>1. Loaded = Empty
    BY <1>2 DEF Loaded
  <2>2. Empty.seq <= change
    BY DEF Empty, HeldInv, PersistenceTypeOK
  <2> QED
    BY <2>1, <2>2, BlankTypes
<1> QED
  BY <1>1, <1>2

\* A change, a Commit or a Retire, is numbered by the sequence of its store.
LEMMA ChangeTypes ==
  ASSUME HeldInv, NEW p \in Stores, change < MaxChanges
  PROVE  LET c == store[p].content
             committed == [c EXCEPT !.seq = change + 1, !.commits = @ \cup {change + 1}]
             retired == [c EXCEPT !.seq = change + 1, !.retired = @ \cup {change + 1}]
         IN /\ committed \in Content /\ committed.seq = change + 1
            /\ committed.retired = c.retired
            /\ retired \in Content /\ retired.seq = change + 1
            /\ retired.retired = c.retired \cup {change + 1}
<1> DEFINE c == store[p].content
           committed == [c EXCEPT !.seq = change + 1, !.commits = @ \cup {change + 1}]
           retired == [c EXCEPT !.seq = change + 1, !.retired = @ \cup {change + 1}]
<1>1. c \in Content /\ c.seq <= change /\ change \in 0..MaxChanges
  BY DEF HeldInv, PersistenceTypeOK, StoreRec, ContentHeld
<1>2. /\ c \in Body /\ change + 1 \in 1..MaxChanges /\ MaxChanges \in Nat /\ change \in Nat
      /\ \A n \in c.commits \cup c.retired : n \in 1..MaxChanges /\ n <= change
  BY <1>1, PersistenceAssumption DEF Content, Body, SeenBy, Changes
<1> HIDE DEF c
<1>3. committed \in Body /\ retired \in Body
  <2>1. /\ change + 1 \in 0..MaxChanges
        /\ c.commits \cup {change + 1} \in SUBSET Changes
        /\ c.retired \cup {change + 1} \in SUBSET Changes
    BY <1>2 DEF Body, Changes
  <2> QED
    BY <1>2, <2>1 DEF Body
<1>4. /\ committed.seq = change + 1 /\ committed.commits = c.commits \cup {change + 1}
      /\ committed.retired = c.retired
  BY <1>2 DEF Body
<1>5. /\ retired.seq = change + 1 /\ retired.retired = c.retired \cup {change + 1}
      /\ retired.commits = c.commits
  BY <1>2 DEF Body
<1> HIDE DEF committed, retired
<1>6. committed \in Content
  <2>1. \A n \in committed.commits \cup committed.retired : n <= committed.seq
    BY <1>2, <1>4
  <2> QED
    BY <1>3, <2>1 DEF Content, SeenBy
<1>7. retired \in Content
  <2>1. \A n \in retired.commits \cup retired.retired : n <= retired.seq
    BY <1>2, <1>5
  <2> QED
    BY <1>3, <2>1 DEF Content, SeenBy
<1> QED
  BY <1>4, <1>5, <1>6, <1>7 DEF committed, retired, c

\* What marshalling finds in the shared maps is a set of changes (persistNow).
LEMMA FoundType ==
  ASSUME HeldInv, NEW p \in Stores
  PROVE  Found(p) \subseteq SUBSET Changes
<1>1. store[p].content \in Body /\ writer[p].doc.body \in Body
  BY DEF HeldInv, PersistenceTypeOK, StoreRec, Content, WriterRec, Document
<1> QED
  BY <1>1 DEF Found, Body

-----------------------------------------------------------------------------
(* The steps.                                                              *)

\* A step of the goroutine that leaves the rest alone keeps the invariant if the new
\* document in the making is sound.
LEMMA WriterMove ==
  ASSUME HeldInv, NEW p \in Stores, NEW w \in WriterRec,
         writer' = [writer EXCEPT ![p] = w],
         UNCHANGED <<store, file, change, past>>,
         w.at # "none" => store[p].content \in past,
         w.at \in {"tag", "encode"} => SnapshotOf(w.doc.body, store[p].content),
         w.at = "save" => Sound(w.doc)
  PROVE  HeldInv'
<1>1. PersistenceTypeOK'
  BY DEF HeldInv, PersistenceTypeOK
<1>2. PastBounded' /\ LoadsOneInstant'
  BY DEF HeldInv, PastBounded, LoadsOneInstant, Loadable, Valid
<1>3. ASSUME NEW q \in Stores PROVE ContentHeld(q)' /\ WriterSound(q)'
  <2>1. ContentHeld(q) /\ WriterSound(q)
    BY DEF HeldInv
  <2>2. writer'[p] = w /\ (q # p => writer'[q] = writer[q])
    BY DEF HeldInv, PersistenceTypeOK
  <2>3. CASE q = p
    BY <2>1, <2>2, <2>3 DEF ContentHeld, WriterSound, SnapshotOf, Sound, Valid
  <2>4. CASE q # p
    BY <2>1, <2>2, <2>4 DEF ContentHeld, WriterSound, SnapshotOf, Sound, Valid
  <2> QED
    BY <2>3, <2>4
<1> QED
  BY <1>1, <1>2, <1>3 DEF HeldInv

\* A document whose retired items are replaced is a document.
LEMMA RetiredReplaced ==
  ASSUME NEW d \in Document, NEW retired \in SUBSET Changes
  PROVE  [d EXCEPT !.body.retired = retired] \in Document
<1>1. [d.body EXCEPT !.retired = retired] \in Body
  BY DEF Document, Body
<1> QED
  BY <1>1 DEF Document

\* case <-wake of startPersistenceWriter.
LEMMA WakeHeld ==
  ASSUME HeldInv, NEW p \in Stores, Wake(p)
  PROVE  HeldInv'
<1> DEFINE w == [writer[p] EXCEPT !.at = "debounce", !.wake = FALSE, !.elapsed = FALSE]
<1>1. writer[p] \in WriterRec
  BY DEF HeldInv, PersistenceTypeOK
<1>2. w \in WriterRec /\ w.at = "debounce"
  BY <1>1 DEF WriterRec
<1>3. writer' = [writer EXCEPT ![p] = w] /\ UNCHANGED <<store, file, change, past>>
  BY DEF Wake
<1>4. store[p].content \in past
  BY DEF Wake, HeldInv, ContentHeld
<1> HIDE DEF w
<1> QED
  BY <1>2, <1>3, <1>4, WriterMove

\* case <-wake of waitForPersistenceDebounce.
LEMMA CoalesceHeld ==
  ASSUME HeldInv, NEW p \in Stores, Coalesce(p)
  PROVE  HeldInv'
<1> DEFINE w == [writer[p] EXCEPT !.wake = FALSE, !.elapsed = FALSE]
<1>1. writer[p] \in WriterRec /\ writer[p].at = "debounce"
  BY DEF HeldInv, PersistenceTypeOK, Coalesce
<1>2. w \in WriterRec /\ w.at = "debounce"
  BY <1>1 DEF WriterRec
<1>3. writer' = [writer EXCEPT ![p] = w] /\ UNCHANGED <<store, file, change, past>>
  BY DEF Coalesce
<1>4. store[p].content \in past
  BY DEF Coalesce, HeldInv, ContentHeld
<1> HIDE DEF w
<1> QED
  BY <1>2, <1>3, <1>4, WriterMove

\* The debounce passes.
LEMMA ElapseHeld ==
  ASSUME HeldInv, NEW p \in Stores, Elapse(p)
  PROVE  HeldInv'
<1> DEFINE w == [writer[p] EXCEPT !.elapsed = TRUE]
<1>1. writer[p] \in WriterRec /\ writer[p].at = "debounce"
  BY DEF HeldInv, PersistenceTypeOK, Elapse
<1>2. w \in WriterRec /\ w.at = "debounce"
  BY <1>1 DEF WriterRec
<1>3. writer' = [writer EXCEPT ![p] = w] /\ UNCHANGED <<store, file, change, past>>
  BY DEF Elapse
<1>4. store[p].content \in past
  BY DEF Elapse, HeldInv, ContentHeld
<1> HIDE DEF w
<1> QED
  BY <1>2, <1>3, <1>4, WriterMove

\* The locked part of persistNow: what is copied is what the store holds.
LEMMA SnapshotHeld ==
  ASSUME HeldInv, NEW p \in Stores, NEW final \in BOOLEAN,
         writer[p].at # "none", Snapshot(p, final)
  PROVE  HeldInv'
<1> DEFINE d == [writer[p].doc EXCEPT !.body = store[p].content]
           w == [writer[p] EXCEPT !.at = "tag", !.elapsed = FALSE, !.final = final,
                                  !.doc.body = store[p].content]
<1>1. writer[p] \in WriterRec /\ writer[p].doc \in Document /\ store[p].content \in Body
  BY DEF HeldInv, PersistenceTypeOK, WriterRec, StoreRec, Content
<1>2. d \in Document /\ d.body = store[p].content
  BY <1>1 DEF Document
<1>3. w.at = "tag" /\ w.doc = d
  BY <1>1 DEF WriterRec
<1> HIDE DEF d
<1>4. w \in WriterRec
  BY <1>1, <1>2, <1>3 DEF WriterRec
<1>5. writer' = [writer EXCEPT ![p] = w] /\ UNCHANGED <<store, file, change, past>>
  BY DEF Snapshot
<1>6. store[p].content \in past
  BY DEF HeldInv, ContentHeld
<1> HIDE DEF w
<1>7. SnapshotOf(w.doc.body, store[p].content)
  BY <1>2, <1>3, <1>6 DEF SnapshotOf
<1> QED
  BY <1>3, <1>4, <1>5, <1>6, <1>7, WriterMove

\* The first marshalling only computes the tag.
LEMMA TagHeld ==
  ASSUME HeldInv, NEW p \in Stores, Tag(p)
  PROVE  HeldInv'
<1>1. PICK found \in Found(p) :
        writer' = [writer EXCEPT ![p] = [@ EXCEPT !.at = "encode", !.doc.tag = found]]
  BY DEF Tag
<1> DEFINE d == [writer[p].doc EXCEPT !.tag = found]
           w == [writer[p] EXCEPT !.at = "encode", !.doc.tag = found]
<1>2. writer[p] \in WriterRec /\ writer[p].doc \in Document /\ writer[p].at = "tag"
  BY DEF HeldInv, PersistenceTypeOK, WriterRec, Tag
<1>3. d \in Document /\ d.body = writer[p].doc.body
  BY <1>2, FoundType DEF Document
<1>4. w.at = "encode" /\ w.doc = d
  BY <1>2 DEF WriterRec
<1> HIDE DEF d
<1>5. w \in WriterRec
  BY <1>2, <1>3, <1>4 DEF WriterRec
<1>6. writer' = [writer EXCEPT ![p] = w] /\ UNCHANGED <<store, file, change, past>>
  BY <1>1 DEF Tag
<1>7. store[p].content \in past /\ SnapshotOf(writer[p].doc.body, store[p].content)
  BY <1>2 DEF HeldInv, ContentHeld, WriterSound
<1> HIDE DEF w
<1>8. SnapshotOf(w.doc.body, store[p].content)
  BY <1>3, <1>4, <1>7
<1> QED
  BY <1>4, <1>5, <1>6, <1>7, <1>8, WriterMove

\* The second marshalling may put into the document what came after the snapshot, and
\* then it is not valid.
LEMMA EncodeHeld ==
  ASSUME HeldInv, NEW p \in Stores, Encode(p)
  PROVE  HeldInv'
<1>1. PICK found \in Found(p) :
        writer' = [writer EXCEPT ![p] = [@ EXCEPT !.at = "save", !.doc.body.retired = found]]
  BY DEF Encode
<1> DEFINE old == writer[p].doc.body
           c == store[p].content
           d == [writer[p].doc EXCEPT !.body.retired = found]
           w == [writer[p] EXCEPT !.at = "save", !.doc.body.retired = found]
<1>2. writer[p] \in WriterRec /\ writer[p].doc \in Document /\ writer[p].at = "encode"
  BY DEF HeldInv, PersistenceTypeOK, WriterRec, Encode
<1>3. c \in past /\ SnapshotOf(old, c)
  BY <1>2 DEF HeldInv, ContentHeld, WriterSound
<1>4. old \in Body
  BY <1>2 DEF Document
<1>5. d \in Document
  BY <1>2, FoundType, RetiredReplaced
<1>6. d.body = [old EXCEPT !.retired = found]
  BY <1>2 DEF Document
<1>7. /\ d.body.retired = found /\ d.body.seq = old.seq
      /\ found = old.retired => d.body = old
  BY <1>4, <1>6 DEF Body
<1>8. w.at = "save" /\ w.doc = d
  BY <1>2 DEF WriterRec
<1>9. writer' = [writer EXCEPT ![p] = w] /\ UNCHANGED <<store, file, change, past>>
  BY <1>1 DEF Encode
<1> HIDE DEF d
<1>10. w \in WriterRec
  BY <1>2, <1>5, <1>8 DEF WriterRec
<1> HIDE DEF w
<1>11. Sound(d)
  <2> SUFFICES ASSUME Valid(d) PROVE d.body \in past
    BY DEF Sound
  <2>1. \A n \in found : n <= old.seq
    BY <1>7 DEF Valid
  <2>2. \A n \in c.retired \ old.retired : n > old.seq /\ n \in Int
    BY <1>3 DEF SnapshotOf, HeldInv, PersistenceTypeOK, StoreRec, Content, Body, Changes
  <2>3. old.seq \in Int
    BY <1>4 DEF Body
  <2>4. found = old.retired
    <3>1. old.retired \subseteq found /\ found \subseteq old.retired \cup (c.retired \ old.retired)
      BY DEF Found
    <3>2. ASSUME NEW n \in found, n \in c.retired \ old.retired PROVE FALSE
      <4>1. n <= old.seq /\ n > old.seq /\ n \in Int
        BY <2>1, <2>2, <3>2
      <4> QED
        BY <2>3, <4>1
    <3> QED
      BY <3>1, <3>2
  <2> QED
    BY <2>4, <1>3, <1>7 DEF SnapshotOf
<1> QED
  BY <1>3, <1>8, <1>9, <1>10, <1>11, WriterMove

\* The end of a save: the file stays or is replaced by a sound document, whatever the
\* outcome, and the goroutine goes on or ends (atomicWriteFile, recordPersistenceError).
LEMMA SaveHeld ==
  ASSUME HeldInv, NEW p \in Stores, NEW b \in BOOLEAN,
         writer[p].at = "save",
         file' \in {file, writer[p].doc},
         store' = [store EXCEPT ![p].failed = b],
         AfterSave(p),
         UNCHANGED <<change, past>>
  PROVE  HeldInv'
<1> DEFINE at == IF writer[p].final THEN "done" ELSE "select"
           w == [writer[p] EXCEPT !.at = at, !.final = FALSE, !.doc = NoDocument]
<1>1. writer[p] \in WriterRec /\ writer[p].doc \in Document /\ store[p] \in StoreRec
  BY DEF HeldInv, PersistenceTypeOK, WriterRec
<1>2. w \in WriterRec /\ w.at \in {"select", "done"}
  BY <1>1, BlankTypes DEF WriterRec
<1>3. writer' = [writer EXCEPT ![p] = w]
  BY DEF AfterSave
<1> HIDE DEF w
<1>4. [store[p] EXCEPT !.failed = b] \in StoreRec
  BY <1>1 DEF StoreRec
<1>5. PersistenceTypeOK'
  BY <1>1, <1>2, <1>3, <1>4 DEF HeldInv, PersistenceTypeOK
<1>6. ASSUME NEW q \in Stores PROVE ContentHeld(q)' /\ WriterSound(q)'
  <2>1. ContentHeld(q) /\ WriterSound(q)
    BY DEF HeldInv
  <2>2. store'[q].content = store[q].content
    BY DEF HeldInv, PersistenceTypeOK, StoreRec
  <2>3. CASE q = p
    <3>1. writer'[q] = w
      BY <1>3, <2>3 DEF HeldInv, PersistenceTypeOK
    <3> QED
      BY <1>2, <2>1, <2>2, <2>3, <3>1 DEF ContentHeld, WriterSound
  <2>4. CASE q # p
    <3>1. writer'[q] = writer[q]
      BY <1>3, <2>4 DEF HeldInv, PersistenceTypeOK
    <3> QED
      BY <2>1, <2>2, <3>1 DEF ContentHeld, WriterSound, SnapshotOf, Sound, Valid
  <2> QED
    BY <2>3, <2>4
<1>7. LoadsOneInstant'
  <2>1. Sound(writer[p].doc)
    BY DEF HeldInv, WriterSound
  <2> QED
    BY <2>1 DEF HeldInv, LoadsOneInstant, Loadable, Sound, Valid
<1>8. PastBounded'
  BY DEF HeldInv, PastBounded
<1> QED
  BY <1>5, <1>6, <1>7, <1>8 DEF HeldInv

\* markPersistenceDirtyLocked only sets a wake.
LEMMA DirtyKeeps ==
  ASSUME HeldInv, NEW p \in Stores, Dirty(p)
  PROVE  /\ writer' \in [Stores -> WriterRec]
         /\ \A q \in Stores : writer'[q].at = writer[q].at /\ writer'[q].doc = writer[q].doc
<1>1. writer \in [Stores -> WriterRec] /\ store[p] \in StoreRec
  BY DEF HeldInv, PersistenceTypeOK
<1> DEFINE b == writer[p].wake \/ ~store[p].stopped
<1>2. writer' = [writer EXCEPT ![p].wake = b] /\ b \in BOOLEAN
  BY DEF Dirty
<1> HIDE DEF b
<1> QED
  BY <1>1, <1>2 DEF WriterRec

\* A method that changes nothing.
LEMMA TouchHeld ==
  ASSUME HeldInv, NEW p \in Stores, Touch(p)
  PROVE  HeldInv'
<1>1. /\ writer' \in [Stores -> WriterRec]
      /\ \A q \in Stores : writer'[q].at = writer[q].at /\ writer'[q].doc = writer[q].doc
  BY DirtyKeeps DEF Touch
<1>2. UNCHANGED <<store, file, change, past>>
  BY DEF Touch
<1>3. ASSUME NEW q \in Stores PROVE ContentHeld(q)' /\ WriterSound(q)'
  <2>1. ContentHeld(q) /\ WriterSound(q)
    BY DEF HeldInv
  <2> QED
    BY <1>1, <1>2, <2>1 DEF ContentHeld, WriterSound, SnapshotOf, Sound, Valid
<1> QED
  BY <1>1, <1>2, <1>3
     DEF HeldInv, PersistenceTypeOK, PastBounded, LoadsOneInstant, Loadable, Valid

\* A change becomes a content of the past; snapshots of the same store stay snapshots,
\* since the number of the change is new.
LEMMA ChangeHeld ==
  ASSUME HeldInv, NEW p \in Stores, NEW content \in Content, Change(p, content),
         content.seq = change + 1,
         store[p].content.retired \subseteq content.retired,
         content.retired \subseteq store[p].content.retired \cup {change + 1}
  PROVE  HeldInv'
<1>1. /\ change < MaxChanges /\ change' = change + 1 /\ file' = file
      /\ store' = [store EXCEPT ![p].content = content]
      /\ past' = past \cup {content}
  BY DEF Change
<1>2. /\ writer' \in [Stores -> WriterRec]
      /\ \A q \in Stores : writer'[q].at = writer[q].at /\ writer'[q].doc = writer[q].doc
  BY DirtyKeeps DEF Change
<1>3. change \in Nat /\ change' \in 0..MaxChanges
  BY <1>1, PersistenceAssumption DEF HeldInv, PersistenceTypeOK
<1>4. [store[p] EXCEPT !.content = content] \in StoreRec
  BY DEF HeldInv, PersistenceTypeOK, StoreRec
<1>5. PersistenceTypeOK'
  BY <1>1, <1>2, <1>3, <1>4 DEF HeldInv, PersistenceTypeOK
<1>6. \A c \in past : c.seq \in Int /\ c.seq <= change
  BY DEF HeldInv, PersistenceTypeOK, PastBounded, Content, Body
<1>7. PastBounded'
  BY <1>1, <1>3, <1>6 DEF PastBounded
<1>8. ASSUME NEW q \in Stores PROVE ContentHeld(q)' /\ WriterSound(q)'
  <2>1. ContentHeld(q) /\ WriterSound(q)
    BY DEF HeldInv
  <2>2. store[q].content.seq \in Int
    BY DEF HeldInv, PersistenceTypeOK, StoreRec, Content, Body
  <2>3. store'[q].content = IF q = p THEN content ELSE store[q].content
    BY <1>1 DEF HeldInv, PersistenceTypeOK, StoreRec
  <2>4. ContentHeld(q)'
    BY <1>1, <1>2, <1>3, <2>1, <2>2, <2>3 DEF ContentHeld
  <2>5. writer'[q].at = "save" => Sound(writer[q].doc)'
    BY <1>1, <1>2, <2>1 DEF WriterSound, Sound, Valid
  <2>6. ASSUME writer'[q].at \in {"tag", "encode"}
        PROVE  SnapshotOf(writer[q].doc.body, store[q].content)'
    <3>1. SnapshotOf(writer[q].doc.body, store[q].content)
      BY <1>2, <2>1, <2>6 DEF WriterSound
    <3>2. CASE q = p
      <4>1. writer[q].doc.body.seq \in Int /\ writer[q].doc.body.seq <= change
        BY <1>6, <3>1 DEF SnapshotOf
      <4> QED
        BY <1>1, <1>2, <1>3, <2>3, <3>1, <3>2, <4>1 DEF SnapshotOf
    <3>3. CASE q # p
      BY <1>1, <1>2, <2>3, <3>1, <3>3 DEF SnapshotOf
    <3> QED
      BY <3>2, <3>3
  <2> QED
    BY <2>4, <2>5, <2>6 DEF WriterSound
<1>9. LoadsOneInstant'
  BY <1>1 DEF HeldInv, LoadsOneInstant, Loadable, Valid
<1> QED
  BY <1>5, <1>7, <1>8, <1>9 DEF HeldInv

\* complete() and the other commits.
LEMMA CommitHeld ==
  ASSUME HeldInv, NEW p \in Stores, Commit(p)
  PROVE  HeldInv'
<1> DEFINE c == store[p].content
           content == [c EXCEPT !.seq = change + 1, !.commits = @ \cup {change + 1}]
<1>1. Change(p, content) /\ change < MaxChanges
  BY DEF Commit, Change
<1>2. content \in Content /\ content.seq = change + 1 /\ content.retired = c.retired
  BY <1>1, ChangeTypes
<1> HIDE DEF content
<1> QED
  BY <1>1, <1>2, ChangeHeld

\* retireItemsLocked: the only change that reaches a snapshot already taken.
LEMMA RetireHeld ==
  ASSUME HeldInv, NEW p \in Stores, Retire(p)
  PROVE  HeldInv'
<1> DEFINE c == store[p].content
           content == [c EXCEPT !.seq = change + 1, !.retired = @ \cup {change + 1}]
<1>1. Change(p, content) /\ change < MaxChanges
  BY DEF Retire, Change
<1>2. /\ content \in Content /\ content.seq = change + 1
      /\ content.retired = c.retired \cup {change + 1}
  BY <1>1, ChangeTypes
<1> HIDE DEF content
<1> QED
  BY <1>1, <1>2, ChangeHeld

\* stopPersistence.
LEMMA StopHeld ==
  ASSUME HeldInv, NEW p \in Stores, Stop(p)
  PROVE  HeldInv'
<1>1. store' = [store EXCEPT ![p].stopped = TRUE] /\ UNCHANGED <<writer, file, change, past>>
  BY DEF Stop
<1>2. store' \in [Stores -> StoreRec] /\ \A q \in Stores : store'[q].content = store[q].content
  BY <1>1 DEF HeldInv, PersistenceTypeOK, StoreRec
<1>3. ASSUME NEW q \in Stores PROVE ContentHeld(q)' /\ WriterSound(q)'
  <2>1. ContentHeld(q) /\ WriterSound(q)
    BY DEF HeldInv
  <2> QED
    BY <1>1, <1>2, <2>1 DEF ContentHeld, WriterSound, SnapshotOf, Sound, Valid
<1> QED
  BY <1>1, <1>2, <1>3
     DEF HeldInv, PersistenceTypeOK, PastBounded, LoadsOneInstant, Loadable, Valid

\* newPersistentRouteStateStoreWithRoot: what it loads was held before, or is empty.
LEMMA OpenHeld ==
  ASSUME HeldInv, NEW p \in Stores, Open(p)
  PROVE  HeldInv'
<1> DEFINE b == file # NoFile /\ ~Loadable
           s == [NoStore EXCEPT !.built = TRUE, !.content = Loaded, !.warning = b]
           w == [writer[p] EXCEPT !.at = "select"]
<1>1. Loaded \in Content /\ Loaded.seq <= change
  BY LoadedHeld
<1>2. s \in StoreRec /\ s.content = Loaded
  <2>1. b \in BOOLEAN
    OBVIOUS
  <2> HIDE DEF b
  <2> QED
    BY <1>1, <2>1, BlankTypes DEF StoreRec
<1>3. w \in WriterRec /\ w.at = "select"
  BY DEF HeldInv, PersistenceTypeOK, WriterRec
<1>4. /\ store' = [store EXCEPT ![p] = s] /\ writer' = [writer EXCEPT ![p] = w]
      /\ past' = past \cup {Loaded} /\ UNCHANGED <<file, change>>
  BY DEF Open
<1> HIDE DEF s, w
<1>5. PersistenceTypeOK'
  BY <1>1, <1>2, <1>3, <1>4 DEF HeldInv, PersistenceTypeOK
<1>6. PastBounded'
  BY <1>1, <1>4 DEF HeldInv, PastBounded
<1>7. ASSUME NEW q \in Stores PROVE ContentHeld(q)' /\ WriterSound(q)'
  <2>1. ContentHeld(q) /\ WriterSound(q)
    BY DEF HeldInv
  <2>2. CASE q = p
    <3>1. store'[q] = s /\ writer'[q] = w
      BY <1>4, <2>2 DEF HeldInv, PersistenceTypeOK
    <3> QED
      BY <1>1, <1>2, <1>3, <1>4, <3>1 DEF ContentHeld, WriterSound
  <2>3. CASE q # p
    <3>1. store'[q] = store[q] /\ writer'[q] = writer[q]
      BY <1>4, <2>3 DEF HeldInv, PersistenceTypeOK
    <3> QED
      BY <1>4, <2>1, <3>1 DEF ContentHeld, WriterSound, SnapshotOf, Sound, Valid
  <2> QED
    BY <2>2, <2>3
<1>8. LoadsOneInstant'
  BY <1>4 DEF HeldInv, LoadsOneInstant, Loadable, Valid
<1> QED
  BY <1>5, <1>6, <1>7, <1>8 DEF HeldInv

\* The process ends: nothing is in the making any more.
LEMMA KillHeld ==
  ASSUME HeldInv, Kill
  PROVE  HeldInv'
<1> DEFINE s(p) == [store[p] EXCEPT !.built = FALSE]
           w(p) == IF writer[p].at = "none" THEN NoWriter ELSE [NoWriter EXCEPT !.at = "done"]
<1>1. ASSUME NEW p \in Stores
      PROVE  /\ s(p) \in StoreRec /\ s(p).content = store[p].content
             /\ w(p) \in WriterRec
             /\ w(p).at \in {"none", "done"} /\ (w(p).at # "none" => writer[p].at # "none")
  <2>1. store[p] \in StoreRec /\ writer[p] \in WriterRec
    BY DEF HeldInv, PersistenceTypeOK
  <2>2. s(p) \in StoreRec /\ s(p).content = store[p].content
    BY <2>1 DEF StoreRec
  <2>3. NoWriter \in WriterRec /\ NoWriter.at = "none"
    BY BlankTypes DEF NoWriter
  <2>4. [NoWriter EXCEPT !.at = "done"] \in WriterRec /\ [NoWriter EXCEPT !.at = "done"].at = "done"
    BY <2>3 DEF WriterRec
  <2> QED
    BY <2>2, <2>3, <2>4
<1>2. /\ store' = [p \in Stores |-> s(p)] /\ writer' = [p \in Stores |-> w(p)]
      /\ UNCHANGED <<file, change, past>>
  BY DEF Kill
<1> HIDE DEF s, w
<1>3. PersistenceTypeOK'
  BY <1>1, <1>2 DEF HeldInv, PersistenceTypeOK
<1>4. ASSUME NEW q \in Stores PROVE ContentHeld(q)' /\ WriterSound(q)'
  <2>1. ContentHeld(q) /\ WriterSound(q)
    BY DEF HeldInv
  <2> QED
    BY <1>1, <1>2, <2>1 DEF ContentHeld, WriterSound
<1> QED
  BY <1>2, <1>3, <1>4 DEF HeldInv, PastBounded, LoadsOneInstant, Loadable, Valid

-----------------------------------------------------------------------------
(* The theorems.                                                           *)

\* Nothing is in the making, and nothing can be loaded, on a machine without a state file.
LEMMA InitHeld == PersistenceInit => HeldInv
<1> SUFFICES ASSUME PersistenceInit PROVE HeldInv
  OBVIOUS
<1>1. PersistenceTypeOK
  BY BlankTypes, PersistenceAssumption DEF PersistenceInit, PersistenceTypeOK
<1>2. ASSUME NEW p \in Stores PROVE ContentHeld(p) /\ WriterSound(p)
  BY DEF PersistenceInit, ContentHeld, WriterSound, NoStore, NoWriter, Empty
<1> QED
  BY <1>1, <1>2 DEF PersistenceInit, HeldInv, PastBounded, LoadsOneInstant, Loadable

\* Every step of a goroutine keeps the invariant.
LEMMA WriteHeld ==
  ASSUME HeldInv, NEW p \in Stores, Write(p)
  PROVE  HeldInv'
<1>1. CASE TimerFires(p)
  BY <1>1, SnapshotHeld DEF TimerFires
<1>2. CASE SeeStop(p)
  BY <1>2, SnapshotHeld DEF SeeStop
<1>3. CASE Save(p)
  BY <1>3, SaveHeld DEF Save
<1>4. CASE SaveFails(p)
  BY <1>4, SaveHeld DEF SaveFails
<1> QED
  BY <1>1, <1>2, <1>3, <1>4, WakeHeld, CoalesceHeld, ElapseHeld, TagHeld, EncodeHeld DEF Write

\* Every step keeps the invariant.
LEMMA NextHeld == HeldInv /\ [PersistenceNext]_persistenceVars => HeldInv'
<1> SUFFICES ASSUME HeldInv, [PersistenceNext]_persistenceVars PROVE HeldInv'
  OBVIOUS
<1>1. ASSUME NEW p \in Stores,
             Open(p) \/ Commit(p) \/ Retire(p) \/ Touch(p) \/ Stop(p) \/ Write(p)
      PROVE  HeldInv'
  BY <1>1, OpenHeld, CommitHeld, RetireHeld, TouchHeld, StopHeld, WriteHeld
<1>2. CASE Kill
  BY <1>2, KillHeld
<1>3. CASE UNCHANGED persistenceVars
  BY <1>3 DEF persistenceVars, HeldInv, PersistenceTypeOK, PastBounded, ContentHeld,
              WriterSound, SnapshotOf, Sound, LoadsOneInstant, Loadable, Valid
<1> QED
  BY <1>1, <1>2, <1>3 DEF PersistenceNext

\* Every variable has its type, and the sequence of a store is never behind the changes it
\* holds, after a load too (newPersistentRouteStateStoreWithRoot).
THEOREM PersistenceTypes == PersistenceSpec => []PersistenceTypeOK
<1>1. HeldInv => PersistenceTypeOK
  BY DEF HeldInv
<1> QED
  BY <1>1, InitHeld, NextHeld, PTL DEF PersistenceSpec

\* What a store loads, a store held at one instant (persistNow, load): whatever changes
\* come during a save, wherever it fails, and whenever the process dies.
THEOREM LoadedIsHeld == PersistenceSpec => []LoadsOneInstant
<1>1. HeldInv => LoadsOneInstant
  BY DEF HeldInv
<1> QED
  BY <1>1, InitHeld, NextHeld, PTL DEF PersistenceSpec
=============================================================================
