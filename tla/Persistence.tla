----------------------------- MODULE Persistence -----------------------------
(***************************************************************************)
(* How route state reaches the state file and comes back (persistence.go): *)
(* the writer goroutine of a store with its debounce, the save that        *)
(* persistNow makes in several steps, most of them without the mutex, and  *)
(* the load of the next store.                                             *)
(*                                                                         *)
(* What the store holds is abstracted to the changes it has seen, numbered *)
(* in the order they were made: commits (changes to the session records,   *)
(* which a snapshot copies) and retired (insertions into the RetiredItems  *)
(* maps, which a snapshot shares with the store).  RouteState has the      *)
(* store itself.  All stores of the model use the same state file.         *)
(*                                                                         *)
(* As in RouteState, a definition with a suffix is the one after it with a *)
(* mistake in it, and is not used.                                         *)
(***************************************************************************)
EXTENDS Integers, FiniteSets

CONSTANTS
    Stores,         \* the stores that are built one after the other
    NoFile,         \* there is no state file
    SavesFail,      \* whether a save may fail
    MaxChanges      \* bound of the model on change

ASSUME PersistenceAssumption ==
    /\ SavesFail \in BOOLEAN
    /\ MaxChanges \in Nat

VARIABLES
    store,      \* store -> what it holds
    writer,     \* store -> its writer goroutine
    file,       \* the state file
    change,     \* the number of the newest change
    past        \* history: every content a store ever had

persistenceVars == <<store, writer, file, change, past>>

Changes == 1..MaxChanges

Body == [seq : 0..MaxChanges, commits : SUBSET Changes, retired : SUBSET Changes]

SeenBy(c) == c.commits \cup c.retired

\* What a store holds was numbered by its own sequence.
Content == {c \in Body : \A n \in SeenBy(c) : n <= c.seq}

Empty == [seq |-> 0, commits |-> {}, retired |-> {}]

\* tag is the retired part of what the integrity tag was computed over; the rest of a
\* document cannot differ from it.
Document == [body : Body, tag : SUBSET Changes]

\* The state file is a document, or there is none.
ASSUME NoFileAssumption == NoFile \notin Document

NoDocument == [body |-> Empty, tag |-> {}]

\* built: newPersistentRouteStateStoreWithRoot has returned it and its process lives.
\* warning and failed are persistenceWarning # nil and lastPersistenceError # nil.
StoreRec == [built : BOOLEAN, stopped : BOOLEAN, warning : BOOLEAN, failed : BOOLEAN,
             content : Content]

\* at: the statement the goroutine is about to execute.  elapsed: the debounce timer has
\* run out.  final: persistNow is followed by close(done).  doc: the document in the
\* making.
WriterRec == [at : {"none", "select", "debounce", "tag", "encode", "save", "done"},
              wake : BOOLEAN, elapsed : BOOLEAN, final : BOOLEAN, doc : Document]

NoStore == [built |-> FALSE, stopped |-> FALSE, warning |-> FALSE, failed |-> FALSE,
            content |-> Empty]

NoWriter == [at |-> "none", wake |-> FALSE, elapsed |-> FALSE, final |-> FALSE,
             doc |-> NoDocument]

-----------------------------------------------------------------------------
(* Load.                                                                   *)

\* validatePersistentState ("retired item sequence exceeds state sequence") and
\* verifyIntegrity, as far as this abstraction goes.
Valid_TagOnly(d) == d.tag = d.body.retired
Valid(d) ==
    /\ \A c \in d.body.retired : c <= d.body.seq
    /\ d.tag = d.body.retired

Loadable == file # NoFile /\ Valid(file)

Loaded_NoSequence == IF Loadable THEN [file.body EXCEPT !.seq = 0] ELSE Empty
Loaded == IF Loadable THEN file.body ELSE Empty

\* A file that is refused leaves a warning for as long as the store lives; a missing
\* one does not.
Open(p) ==
    /\ ~store[p].built /\ writer[p].at = "none"
    /\ store' = [store EXCEPT ![p] = [NoStore EXCEPT !.built = TRUE, !.content = Loaded,
                                             !.warning = file # NoFile /\ ~Loadable]]
    /\ writer' = [writer EXCEPT ![p].at = "select"]
    /\ past' = past \cup {Loaded}
    /\ UNCHANGED <<file, change>>

-----------------------------------------------------------------------------
(* Changes, by a method that holds the mutex.                              *)

\* markPersistenceDirtyLocked: a send that does not block, on a channel of one.
Dirty_Unbuffered(p) ==
    writer' = [writer EXCEPT ![p].wake =
                 @ \/ (~store[p].stopped /\ writer[p].at \in {"select", "debounce"})]
Dirty(p) == writer' = [writer EXCEPT ![p].wake = @ \/ ~store[p].stopped]

Change(p, content) ==
    /\ store[p].built
    /\ change < MaxChanges
    /\ change' = change + 1
    /\ store' = [store EXCEPT ![p].content = content]
    /\ past' = past \cup {content}
    /\ Dirty(p)
    /\ UNCHANGED file

Commit(p) ==
    LET c == store[p].content
    IN  Change(p, [c EXCEPT !.seq = change + 1, !.commits = @ \cup {change + 1}])

\* retireItemsLocked: sequence++ and an insertion into the map of the session.
Retire(p) ==
    LET c == store[p].content
    IN  Change(p, [c EXCEPT !.seq = change + 1, !.retired = @ \cup {change + 1}])

\* A method that changes nothing, snapshot() for one, marks the store dirty too.
Touch(p) ==
    /\ store[p].built
    /\ Dirty(p)
    /\ UNCHANGED <<store, file, change, past>>

\* stopPersistence up to close(stop); its <-done is for writer[p].at = "done".
Stop(p) ==
    /\ store[p].built /\ ~store[p].stopped
    /\ store' = [store EXCEPT ![p].stopped = TRUE]
    /\ UNCHANGED <<writer, file, change, past>>

-----------------------------------------------------------------------------
(* The writer goroutine.                                                   *)

\* The retired items that marshalling the snapshot of p may find.  A session that had a map
\* at the moment of the snapshot shares it with the store, and what is inserted while the
\* map is read may be seen or missed; a session that had none gets one of its own.
Found(p) ==
    LET taken == writer[p].doc.body.retired
        later == store[p].content.retired \ taken
    IN  IF taken = {} THEN {{}} ELSE {taken \cup seen : seen \in SUBSET later}

\* startPersistenceWriter: case <-wake
Wake(p) ==
    /\ writer[p].at = "select" /\ writer[p].wake
    /\ writer' = [writer EXCEPT ![p] = [@ EXCEPT !.at = "debounce", !.wake = FALSE,
                                                 !.elapsed = FALSE]]
    /\ UNCHANGED <<store, file, change, past>>

\* waitForPersistenceDebounce: case <-wake starts the timer again.
Coalesce(p) ==
    /\ writer[p].at = "debounce" /\ writer[p].wake
    /\ writer' = [writer EXCEPT ![p] = [@ EXCEPT !.wake = FALSE, !.elapsed = FALSE]]
    /\ UNCHANGED <<store, file, change, past>>

\* A whole debounce passes without a wake.
Elapse(p) ==
    /\ writer[p].at = "debounce" /\ ~writer[p].wake /\ ~writer[p].elapsed
    /\ writer' = [writer EXCEPT ![p].elapsed = TRUE]
    /\ UNCHANGED <<store, file, change, past>>

\* The locked part of persistNow.
Snapshot(p, final) ==
    /\ writer' = [writer EXCEPT ![p] =
                    [@ EXCEPT !.at = "tag", !.elapsed = FALSE, !.final = final,
                              !.doc.body = store[p].content]]
    /\ UNCHANGED <<store, file, change, past>>

TimerFires(p) ==
    /\ writer[p].at = "debounce" /\ writer[p].elapsed
    /\ Snapshot(p, FALSE)

SeeStop(p) ==
    /\ writer[p].at \in {"select", "debounce"} /\ store[p].stopped
    /\ Snapshot(p, TRUE)

\* json.Marshal(body), over which the integrity tag is computed.
Tag(p) ==
    /\ writer[p].at = "tag"
    /\ \E found \in Found(p) :
        writer' = [writer EXCEPT ![p] = [@ EXCEPT !.at = "encode", !.doc.tag = found]]
    /\ UNCHANGED <<store, file, change, past>>

\* json.Marshal(document) marshals the body again.
Encode(p) ==
    /\ writer[p].at = "encode"
    /\ \E found \in Found(p) :
        writer' = [writer EXCEPT ![p] = [@ EXCEPT !.at = "save",
                                                  !.doc.body.retired = found]]
    /\ UNCHANGED <<store, file, change, past>>

AfterSave_NoClose(p) ==
    writer' = [writer EXCEPT ![p] =
                 [@ EXCEPT !.at = IF writer[p].final THEN "none" ELSE "select",
                           !.final = FALSE, !.doc = NoDocument]]
AfterSave(p) ==
    writer' = [writer EXCEPT ![p] =
                 [@ EXCEPT !.at = IF writer[p].final THEN "done" ELSE "select",
                           !.final = FALSE, !.doc = NoDocument]]

\* atomicWriteFile renames a complete temporary file.
Save(p) ==
    /\ writer[p].at = "save"
    /\ file' = writer[p].doc
    /\ store' = [store EXCEPT ![p].failed = FALSE]
    /\ AfterSave(p)
    /\ UNCHANGED <<change, past>>

\* Some step of it fails, the sync of the directory after the rename included.  Nothing
\* marks the store dirty again.
SaveFails(p) ==
    /\ SavesFail
    /\ writer[p].at = "save"
    /\ file' \in {file, writer[p].doc}
    /\ store' = [store EXCEPT ![p].failed = TRUE]
    /\ AfterSave(p)
    /\ UNCHANGED <<change, past>>

\* The goroutine's own steps.
Write(p) ==
    \/ Wake(p) \/ Coalesce(p) \/ Elapse(p) \/ TimerFires(p) \/ SeeStop(p)
    \/ Tag(p) \/ Encode(p) \/ Save(p) \/ SaveFails(p)

\* The process ends without a word: a crash, or the runtime's reaction to a map that is
\* written while it is marshalled.
Kill ==
    /\ store' = [p \in Stores |-> [store[p] EXCEPT !.built = FALSE]]
    /\ writer' = [p \in Stores |->
                    IF writer[p].at = "none" THEN NoWriter ELSE [NoWriter EXCEPT !.at = "done"]]
    /\ UNCHANGED <<file, change, past>>

-----------------------------------------------------------------------------
PersistenceInit ==
    /\ store = [p \in Stores |-> NoStore]
    /\ writer = [p \in Stores |-> NoWriter]
    /\ file = NoFile
    /\ change = 0
    /\ past = {}

PersistenceNext ==
    \/ \E p \in Stores :
        Open(p) \/ Commit(p) \/ Retire(p) \/ Touch(p) \/ Stop(p) \/ Write(p)
    \/ Kill

PersistenceSpec == PersistenceInit /\ [][PersistenceNext]_persistenceVars

-----------------------------------------------------------------------------
\* Every variable has its type; in particular the sequence number of a store, after a load
\* too, is never behind the changes it holds (newPersistentRouteStateStoreWithRoot).
PersistenceTypeOK ==
    /\ store \in [Stores -> StoreRec]
    /\ writer \in [Stores -> WriterRec]
    /\ file \in Document \cup {NoFile}
    /\ change \in 0..MaxChanges
    /\ past \subseteq Content

\* What a store loads, a store held at one instant: never a mixture of two, although the
\* save copies only half of what it writes under the mutex and marshals it twice
\* (persistNow), stores replaced by a reload still write, and processes die in between.
LoadsOneInstant == Loadable => file.body \in past
=============================================================================
