--------------------------- MODULE LifecycleProofs ---------------------------
(***************************************************************************)
(* Theorems about PluginLifecycle.  A plugin in its host is one of the     *)
(* systems that PersistenceProofs is about, so what is proved there holds  *)
(* of it; and when the host does not reconfigure a plugin that runs, a     *)
(* shutdown loses nothing, whatever calls and saves it meets.              *)
(***************************************************************************)
EXTENDS PluginLifecycle, PersistenceProofs

-----------------------------------------------------------------------------
(* Types.                                                                  *)

\* The records of setup and shutdown, by the statement they are about to execute.
LEMMA AbiRecords ==
  /\ Idle \in SetupRec
  /\ \A s \in SetupRec :
       /\ s.at \in {"idle", "built", "stopping", "waiting"}
       /\ s.at = "idle" => s = Idle
       /\ s.at # "idle" => s.new \in Stores
       /\ s.at \in {"stopping", "waiting"} => s.old \in Stores
       /\ s.at = "built" => s.old = None
  /\ Running \in DownRec
  /\ \A d \in DownRec :
       /\ d.at \in {"running", "draining", "waiting", "done"}
       /\ d.at = "running" => d = Running
       /\ d.old \in Stores \cup {None}
       /\ d.at = "waiting" => d.old \in Stores
  BY DEF Idle, SetupRec, Running, DownRec

\* Building a plugin loads changes (buildPlugin).
LEMMA BuildTypes ==
  ASSUME HeldInv, LifecycleTypeOK, NEW p \in Stores, Build(p)
  PROVE  LifecycleTypeOK'
<1>1. Loaded \in Content
  BY LoadedHeld
<1>2. SeenBy(Loaded) \subseteq Changes
  BY <1>1 DEF Content, Body, SeenBy
<1>3. setup' \in SetupRec
  BY DEF Build, SetupRec
<1> QED
  BY <1>2, <1>3 DEF Build, LifecycleTypeOK

\* Registration, reconfiguration, and the calls of the host.
LEMMA SetupTypes ==
  ASSUME LifecycleTypeOK, SetupStep
  PROVE  LifecycleTypeOK'
<1>1. setup \in SetupRec /\ plugin \in Stores \cup {None}
  BY DEF LifecycleTypeOK
<1>2. CASE Swap
  <2>1. PICK new \in Stores : setup = [at |-> "built", new |-> new, old |-> None]
    BY <1>1, <1>2 DEF Swap, SetupRec, Idle
  <2>2. setup.new = new
    BY <2>1
  <2>3. plugin # None => Replaced(plugin) \in SetupRec
    <3> DEFINE stop == [setup EXCEPT !.at = "stopping"]
               s == [stop EXCEPT !.old = plugin]
    <3>1. Replaced(plugin) = IF plugin = None THEN Idle ELSE s
      BY DEF Replaced
    <3>2. stop = [at |-> "stopping", new |-> new, old |-> None]
      BY <2>1
    <3> HIDE DEF stop
    <3>3. s = [at |-> "stopping", new |-> new, old |-> plugin]
      BY <3>2
    <3> HIDE DEF s
    <3> QED
      BY <1>1, <3>1, <3>3 DEF SetupRec
  <2>4. plugin = None => Replaced(plugin) \in SetupRec
    BY AbiRecords DEF Replaced
  <2> QED
    BY <1>1, <1>2, <2>2, <2>3, <2>4, AbiRecords DEF Swap, LifecycleTypeOK
<1>3. CASE StopPrevious
  <2>1. setup.new \in Stores /\ setup.old \in Stores
    BY <1>1, <1>3, AbiRecords DEF StopPrevious
  <2>2. [setup EXCEPT !.at = "waiting"] \in SetupRec
    <3>1. setup = [at |-> "stopping", new |-> setup.new, old |-> setup.old]
      BY <1>1, <1>3 DEF StopPrevious, SetupRec, Idle
    <3>2. [setup EXCEPT !.at = "waiting"]
            = [at |-> "waiting", new |-> setup.new, old |-> setup.old]
      BY <3>1
    <3> QED
      BY <2>1, <3>2 DEF SetupRec
  <2> QED
    BY <1>3, <2>2, AbiRecords DEF StopPrevious, LifecycleTypeOK
<1>4. CASE PreviousStopped
  BY <1>4, AbiRecords DEF PreviousStopped, LifecycleTypeOK
<1> QED
  BY <1>2, <1>3, <1>4 DEF SetupStep

\* Calls that begin, work and end, and what they come to owe (beginPluginCall).
LEMMA CallTypes ==
  ASSUME HeldInv, LifecycleTypeOK, NEW c \in Calls, Begin(c) \/ Work(c) \/ End(c)
  PROVE  LifecycleTypeOK'
<1>1. CASE Begin(c)
  BY <1>1 DEF Begin, LifecycleTypeOK
<1>2. CASE Work(c)
  <2>1. owed' = owed \/ (owed' = owed \cup {change'} /\ change < MaxChanges /\ change' = change + 1)
    BY <1>2 DEF Work, Commit, Retire, Change
  <2>2. owed \subseteq Changes /\ change \in 0..MaxChanges /\ MaxChanges \in Nat
    BY PersistenceAssumption DEF HeldInv, PersistenceTypeOK, LifecycleTypeOK
  <2>3. change < MaxChanges => change + 1 \in Changes
    BY <2>2 DEF Changes
  <2>4. owed' \subseteq Changes
    BY <2>1, <2>2, <2>3
  <2> QED
    BY <1>2, <2>4 DEF Work, LifecycleTypeOK
<1>3. CASE End(c)
  BY <1>3 DEF End, LifecycleTypeOK
<1> QED
  BY <1>1, <1>2, <1>3

\* Shutdown and the end of the process.
LEMMA ShutdownTypes ==
  ASSUME LifecycleTypeOK, BeginShutdown \/ ShutdownStep \/ Exit
  PROVE  LifecycleTypeOK'
<1>1. down \in DownRec /\ plugin \in Stores \cup {None}
  BY DEF LifecycleTypeOK
<1>2. CASE BeginShutdown
  <2>1. [at |-> "draining", old |-> plugin] \in DownRec
    BY <1>1 DEF DownRec
  <2> QED
    BY <1>2, <2>1 DEF BeginShutdown, LifecycleTypeOK
<1>3. CASE StopLast
  <2>1. down = [at |-> "draining", old |-> down.old] /\ down.old \in Stores \cup {None}
    BY <1>1, <1>3 DEF StopLast, Drained, DownRec, Running
  <2>2. \A at : [down EXCEPT !.at = at] = [at |-> at, old |-> down.old]
    BY <2>1
  <2>3. [down EXCEPT !.at = "done"] \in DownRec
    BY <2>1, <2>2 DEF DownRec
  <2>4. down.old # None => [down EXCEPT !.at = "waiting"] \in DownRec
    BY <2>1, <2>2 DEF DownRec
  <2> QED
    BY <1>3, <2>3, <2>4 DEF StopLast, LifecycleTypeOK
<1>4. CASE LastStopped
  <2>1. down = [at |-> "waiting", old |-> down.old] /\ down.old \in Stores
    BY <1>1, <1>4 DEF LastStopped, DownRec, Running
  <2>2. [down EXCEPT !.at = "done"] \in DownRec
    <3>1. [down EXCEPT !.at = "done"] = [at |-> "done", old |-> down.old]
      BY <2>1
    <3> QED
      BY <2>1, <3>1 DEF DownRec
  <2> QED
    BY <1>4, <2>2 DEF LastStopped, LifecycleTypeOK
<1>5. CASE Exit
  BY <1>5, AbiRecords DEF Exit, LifecycleTypeOK
<1> QED
  BY <1>2, <1>3, <1>4, <1>5 DEF ShutdownStep

-----------------------------------------------------------------------------
(* A plugin in its host is a system of stores, writers and one file.       *)

\* Every step of the plugin is a step of its stores or leaves them alone; stopPersistence
\* is only ever called on a store.
LEMMA StoreStep ==
  LifecycleTypeOK /\ [LifecycleNext]_lifecycleVars => [PersistenceNext]_persistenceVars
<1> SUFFICES ASSUME LifecycleTypeOK, [LifecycleNext]_lifecycleVars
             PROVE  [PersistenceNext]_persistenceVars
  OBVIOUS
<1>1. ASSUME NEW p \in Stores, Build(p) \/ WriterStep(p)
      PROVE  PersistenceNext
  BY <1>1 DEF Build, WriterStep, PersistenceNext
<1>2. ASSUME SetupStep
      PROVE  [PersistenceNext]_persistenceVars
  <2>1. setup.at = "stopping" => setup.old \in Stores
    BY AbiRecords DEF LifecycleTypeOK
  <2> QED
    BY <1>2, <2>1 DEF SetupStep, Swap, StopPrevious, PreviousStopped, PersistenceNext
<1>3. ASSUME NEW c \in Calls, Begin(c) \/ Work(c) \/ End(c)
      PROVE  [PersistenceNext]_persistenceVars
  <2>1. call[c] # None => call[c] \in Stores
    BY DEF LifecycleTypeOK
  <2> QED
    BY <1>3, <2>1 DEF Begin, Work, End, PersistenceNext
<1>4. ASSUME BeginShutdown \/ Exit
      PROVE  [PersistenceNext]_persistenceVars
  BY <1>4 DEF BeginShutdown, Exit, PersistenceNext
<1>5. ASSUME ShutdownStep
      PROVE  [PersistenceNext]_persistenceVars
  <2>1. down.old # None => down.old \in Stores
    BY AbiRecords DEF LifecycleTypeOK
  <2> QED
    BY <1>5, <2>1 DEF ShutdownStep, StopLast, LastStopped, PersistenceNext
<1>6. ASSUME UNCHANGED lifecycleVars
      PROVE  [PersistenceNext]_persistenceVars
  BY <1>6 DEF lifecycleVars
<1> QED
  BY <1>1, <1>2, <1>3, <1>4, <1>5, <1>6 DEF LifecycleNext

\* What a store loads was held by one, and every variable has its type: the types need it,
\* since what is loaded is what a shutdown owes.
TypedInv == HeldInv /\ LifecycleTypeOK

\* No process has run yet.
LEMMA InitTyped == LifecycleInit => TypedInv
<1> SUFFICES ASSUME LifecycleInit PROVE TypedInv
  OBVIOUS
<1>1. HeldInv
  BY InitHeld DEF LifecycleInit
<1>2. LifecycleTypeOK
  BY AbiRecords DEF LifecycleInit, LifecycleTypeOK
<1> QED
  BY <1>1, <1>2 DEF TypedInv

\* Every step keeps the types.
LEMMA NextTyped == TypedInv /\ [LifecycleNext]_lifecycleVars => TypedInv'
<1> SUFFICES ASSUME TypedInv, [LifecycleNext]_lifecycleVars PROVE TypedInv'
  OBVIOUS
<1>1. HeldInv /\ LifecycleTypeOK
  BY DEF TypedInv
<1>2. HeldInv'
  BY <1>1, StoreStep, NextHeld
<1>3. ASSUME LifecycleNext PROVE LifecycleTypeOK'
  <2>1. ASSUME NEW p \in Stores, WriterStep(p) PROVE LifecycleTypeOK'
    BY <1>1, <2>1 DEF WriterStep, abiVars, LifecycleTypeOK
  <2> QED
    BY <1>1, <1>3, <2>1, BuildTypes, SetupTypes, CallTypes, ShutdownTypes DEF LifecycleNext
<1>4. ASSUME UNCHANGED lifecycleVars PROVE LifecycleTypeOK'
  BY <1>1, <1>4 DEF lifecycleVars, abiVars, LifecycleTypeOK
<1> QED
  BY <1>2, <1>3, <1>4 DEF TypedInv

\* Every variable of the plugin has its type (abi.go): no call works on a store that was
\* never built, and no reconfiguration or shutdown waits for one.
THEOREM LifecycleTypes == LifecycleSpec => []LifecycleTypeOK
<1>1. TypedInv => LifecycleTypeOK
  BY DEF TypedInv
<1> QED
  BY <1>1, InitTyped, NextTyped, PTL DEF LifecycleSpec

\* A plugin in its host implements the stores and writers of Persistence: registration,
\* calls, reconfigurations, shutdowns and crashes do to them what Persistence allows, and
\* nothing else (abi.go).
THEOREM LifecycleImplements == LifecycleSpec => PersistenceSpec
<1>1. LifecycleInit => PersistenceInit
  BY DEF LifecycleInit
<1>2. TypedInv => LifecycleTypeOK
  BY DEF TypedInv
<1> QED
  BY <1>1, <1>2, InitTyped, NextTyped, StoreStep, PTL DEF LifecycleSpec, PersistenceSpec

\* In particular, what a plugin loads when it is registered or reconfigured, a store held
\* at one instant (buildPlugin, persistNow).
THEOREM LifecycleLoadsHeld == LifecycleSpec => []LoadsOneInstant
  BY LifecycleImplements, LoadedIsHeld, PTL

-----------------------------------------------------------------------------
(* What a shutdown saves, when the host does not reconfigure a plugin that *)
(* runs.                                                                   *)

\* A process builds one store, and the goroutines of those before are gone.
OneStore ==
  /\ \A p, q \in Stores : store[p].built /\ store[q].built => p = q
  /\ \A p \in Stores : ~store[p].built => writer[p].at \in {"none", "done"} /\ ~writer[p].final

\* Whatever holds a store, holds the one that this process built; a shutdown takes the
\* plugin away for good.
Owned ==
  /\ plugin # None => store[plugin].built /\ setup = Idle
  /\ \A c \in Calls : call[c] # None => store[call[c]].built
  /\ setup # Idle => setup.at = "built" /\ store[setup.new].built
  /\ down.old # None => store[down.old].built
  /\ IF down.at = "running"
     THEN ~shuttingDown
     ELSE shuttingDown /\ plugin = None /\ \E p \in Stores : store[p].built

\* Only a shutdown stops a store, after the last call, and only a stopped writer ends.
StopsLast ==
  /\ \A p \in Stores : store[p].built /\ store[p].stopped =>
       /\ down.at \in {"waiting", "done"} /\ down.old = p
       /\ \A c \in Calls : call[c] = None
  /\ \A p \in Stores :
       store[p].built /\ (writer[p].final \/ writer[p].at = "done") => store[p].stopped
  /\ down.at = "done" /\ down.old # None => writer[down.old].at = "done"

\* What the writer is about to save is all that the store holds, or a wake is pending, and
\* the last save is never made for a wake that is pending.
AllTaken(p) ==
  writer[p].at \in {"tag", "encode", "save"} /\ (~writer[p].wake \/ writer[p].final) =>
    /\ writer[p].doc.body = store[p].content
    /\ writer[p].at # "tag" => writer[p].doc.tag = store[p].content.retired

\* A writer that has nothing to do has saved what the store holds.
AllSaved(p) ==
  /\ ~store[p].failed
  /\ \/ writer[p].at = "done"
     \/ writer[p].at = "select" /\ ~writer[p].wake /\ store[p].content # Empty
  => ~Unsaved(p)

Complete(p) == owed \subseteq SeenBy(store[p].content) /\ AllTaken(p) /\ AllSaved(p)

SavedInv ==
  OneStore /\ Owned /\ StopsLast /\ \A p \in Stores : store[p].built => Complete(p)

-----------------------------------------------------------------------------
(* The goroutine of a store.                                               *)

\* What a step of the goroutine leaves alone, and when it may end: only the goroutine of a
\* process that lives moves, it ends after its last save, and that one only a stop brings on
\* (startPersistenceWriter).
LEMMA WriterSteps ==
  ASSUME HeldInv, NEW p \in Stores, Write(p)
  PROVE  /\ \A q \in Stores :
              /\ store'[q].built = store[q].built /\ store'[q].stopped = store[q].stopped
              /\ store'[q].content = store[q].content
              /\ q # p => writer'[q] = writer[q]
         /\ writer[p].at \notin {"none", "done"}
         /\ writer'[p].final => writer[p].final \/ store[p].stopped
         /\ writer'[p].at = "done" => writer[p].final
<1>1. store \in [Stores -> StoreRec] /\ writer \in [Stores -> WriterRec]
  BY DEF HeldInv, PersistenceTypeOK
<1>2. writer[p] \in WriterRec /\ store[p] \in StoreRec
  BY <1>1
<1>3. ASSUME store' = store \/ \E b \in BOOLEAN : store' = [store EXCEPT ![p].failed = b]
      PROVE  \A q \in Stores :
              /\ store'[q].built = store[q].built /\ store'[q].stopped = store[q].stopped
              /\ store'[q].content = store[q].content
  BY <1>1, <1>3 DEF StoreRec
<1>4. CASE Wake(p) \/ Coalesce(p) \/ Elapse(p)
  BY <1>1, <1>2, <1>4, ZenonT(60) DEF Wake, Coalesce, Elapse, WriterRec
<1>5. CASE TimerFires(p) \/ SeeStop(p)
  <2>1. PICK final \in BOOLEAN :
          Snapshot(p, final) /\ writer[p].at \in {"debounce", "select"} /\ (final => store[p].stopped)
    BY <1>5 DEF TimerFires, SeeStop
  <2>2. store' = store /\ \A q \in Stores : q # p => writer'[q] = writer[q]
    BY <1>1, <2>1 DEF Snapshot
  <2>3. writer'[p] = [writer[p] EXCEPT !.at = "tag", !.elapsed = FALSE, !.final = final,
                                       !.doc.body = store[p].content]
    BY <1>1, <2>1 DEF Snapshot
  <2>4. writer'[p].at = "tag" /\ writer'[p].final = final
    BY <1>2, <2>3 DEF WriterRec
  <2> QED
    BY <2>1, <2>2, <2>4
<1>6. CASE Tag(p) \/ Encode(p)
  BY <1>1, <1>2, <1>6, ZenonT(60) DEF Tag, Encode, WriterRec
<1>7. CASE Save(p) \/ SaveFails(p)
  <2>1. \E b \in BOOLEAN : store' = [store EXCEPT ![p].failed = b]
    BY <1>7 DEF Save, SaveFails
  <2>2. writer[p].at = "save" /\ AfterSave(p)
    BY <1>7 DEF Save, SaveFails
  <2>3. /\ \A q \in Stores : q # p => writer'[q] = writer[q]
        /\ ~writer'[p].final
        /\ writer'[p].at = IF writer[p].final THEN "done" ELSE "select"
    BY <1>1, <1>2, <2>2 DEF AfterSave, WriterRec
  <2> QED
    BY <1>3, <2>1, <2>2, <2>3
<1> QED
  BY <1>4, <1>5, <1>6, <1>7 DEF Write

\* Marshalling finds what the store holds if that was copied (persistNow).
LEMMA FindsAll ==
  ASSUME NEW p \in Stores, writer[p].doc.body = store[p].content, NEW found \in Found(p)
  PROVE  found = store[p].content.retired
<1>1. store[p].content.retired \ writer[p].doc.body.retired = {}
  OBVIOUS
<1> QED
  BY <1>1 DEF Found

\* A document that was marshalled twice from the same content is accepted, whatever else is
\* in the making (validatePersistentState, verifyIntegrity).
LEMMA SavedLoads ==
  ASSUME HeldInv, NEW p \in Stores, NEW d \in Document,
         d.body = store[p].content, d.tag = store[p].content.retired
  PROVE  Valid(d) /\ d # NoFile
<1>1. store[p].content \in Content
  BY DEF HeldInv, PersistenceTypeOK, StoreRec
<1>2. \A n \in d.body.retired : n <= d.body.seq
  BY <1>1 DEF Content, SeenBy
<1> QED
  BY <1>2, NoFileAssumption DEF Valid

\* No step of the goroutine loses anything: it copies all, writes what it copied, and comes
\* to rest after a save that failed, or of all that there is.
LEMMA WriterCompletes ==
  ASSUME HeldInv, NEW p \in Stores, Write(p), Complete(p), owed' = owed
  PROVE  Complete(p)'
<1>1. store \in [Stores -> StoreRec] /\ writer \in [Stores -> WriterRec]
  BY DEF HeldInv, PersistenceTypeOK
<1>2. writer[p] \in WriterRec /\ store[p] \in StoreRec /\ writer[p].doc \in Document
  BY <1>1 DEF WriterRec
<1>3. owed' \subseteq SeenBy(store'[p].content) /\ store'[p].content = store[p].content
  BY WriterSteps DEF Complete
<1>4. CASE Wake(p) \/ Coalesce(p) \/ Elapse(p)
  <2>1. Wake(p) => writer'[p].at = "debounce"
    BY <1>1, <1>2 DEF Wake, WriterRec
  <2>2. Coalesce(p) => writer'[p].at = "debounce"
    BY <1>1, <1>2 DEF Coalesce, WriterRec
  <2>3. Elapse(p) => writer'[p].at = "debounce"
    BY <1>1, <1>2 DEF Elapse, WriterRec
  <2> QED
    BY <1>3, <1>4, <2>1, <2>2, <2>3 DEF Complete, AllTaken, AllSaved
<1>5. CASE TimerFires(p) \/ SeeStop(p)
  <2>1. PICK final \in BOOLEAN : Snapshot(p, final)
    BY <1>5 DEF TimerFires, SeeStop
  <2>2. writer'[p] = [writer[p] EXCEPT !.at = "tag", !.elapsed = FALSE, !.final = final,
                                       !.doc.body = store[p].content]
    BY <1>1, <2>1 DEF Snapshot
  <2>3. writer'[p].at = "tag" /\ writer'[p].doc.body = store[p].content
    BY <1>2, <2>2 DEF WriterRec, Document
  <2> QED
    BY <1>3, <2>3 DEF Complete, AllTaken, AllSaved
<1>6. CASE Tag(p)
  <2>1. PICK found \in Found(p) :
          writer' = [writer EXCEPT ![p] = [@ EXCEPT !.at = "encode", !.doc.tag = found]]
    BY <1>6 DEF Tag
  <2>2. /\ writer'[p].at = "encode" /\ writer'[p].doc.tag = found
        /\ writer'[p].doc.body = writer[p].doc.body
        /\ writer'[p].wake = writer[p].wake /\ writer'[p].final = writer[p].final
    BY <1>1, <1>2, <2>1 DEF WriterRec, Document
  <2>3. ~writer[p].wake \/ writer[p].final => writer[p].doc.body = store[p].content
    BY <1>6 DEF Complete, AllTaken, Tag
  <2> QED
    BY <1>3, <2>2, <2>3, FindsAll DEF Complete, AllTaken, AllSaved
<1>7. CASE Encode(p)
  <2>1. PICK found \in Found(p) :
          writer' = [writer EXCEPT ![p] = [@ EXCEPT !.at = "save", !.doc.body.retired = found]]
    BY <1>7 DEF Encode
  <2>2. /\ writer'[p].at = "save" /\ writer'[p].doc.tag = writer[p].doc.tag
        /\ writer'[p].doc.body = [writer[p].doc.body EXCEPT !.retired = found]
        /\ writer'[p].wake = writer[p].wake /\ writer'[p].final = writer[p].final
    BY <1>1, <1>2, <2>1 DEF WriterRec, Document
  <2>3. ~writer[p].wake \/ writer[p].final =>
          /\ writer[p].doc.body = store[p].content
          /\ writer[p].doc.tag = store[p].content.retired
    BY <1>7 DEF Complete, AllTaken, Encode
  <2>4. store[p].content \in Body
    BY <1>2 DEF StoreRec, Content
  <2>5. [store[p].content EXCEPT !.retired = store[p].content.retired] = store[p].content
    BY <2>4 DEF Body
  <2> QED
    BY <1>3, <2>2, <2>3, <2>5, FindsAll DEF Complete, AllTaken, AllSaved
<1>8. CASE Save(p)
  <2>1. writer[p].at = "save" /\ file' = writer[p].doc
    BY <1>8 DEF Save
  <2>2. /\ writer'[p].at = IF writer[p].final THEN "done" ELSE "select"
        /\ writer'[p].wake = writer[p].wake
    BY <1>1, <1>2, <1>8 DEF Save, AfterSave, WriterRec
  <2>3. ASSUME ~writer[p].wake \/ writer[p].final PROVE ~Unsaved(p)'
    <3>1. writer[p].doc.body = store[p].content /\ writer[p].doc.tag = store[p].content.retired
      BY <2>1, <2>3 DEF Complete, AllTaken
    <3>2. Valid(writer[p].doc) /\ writer[p].doc # NoFile
      BY <1>2, <3>1, SavedLoads
    <3> QED
      BY <1>3, <2>1, <3>1, <3>2 DEF Unsaved, Loadable, Valid
  <2> QED
    BY <1>3, <2>2, <2>3 DEF Complete, AllTaken, AllSaved
<1>9. CASE SaveFails(p)
  <2>1. store'[p].failed
    BY <1>1, <1>2, <1>9 DEF SaveFails, StoreRec
  <2>2. writer'[p].at \in {"done", "select"}
    BY <1>1, <1>2, <1>9 DEF SaveFails, AfterSave, WriterRec
  <2> QED
    BY <1>3, <2>1, <2>2 DEF Complete, AllTaken, AllSaved
<1> QED
  BY <1>4, <1>5, <1>6, <1>7, <1>8, <1>9 DEF Write

\* A store that was dirtied waits for a save, unless it was stopped
\* (markPersistenceDirtyLocked).
LEMMA DirtyWakes ==
  ASSUME HeldInv, NEW p \in Stores, Dirty(p), ~store[p].stopped
  PROVE  /\ writer'[p].wake
         /\ \A q \in Stores : q # p => writer'[q] = writer[q]
         /\ \A q \in Stores : writer'[q].at = writer[q].at /\ writer'[q].final = writer[q].final
<1>1. writer \in [Stores -> WriterRec] /\ store[p] \in StoreRec
  BY DEF HeldInv, PersistenceTypeOK
<1>2. writer' = [writer EXCEPT ![p].wake = TRUE]
  BY DEF Dirty
<1> QED
  BY <1>1, <1>2 DEF WriterRec

\* What a call does to its store, it does before a save that is still to come.
LEMMA WorkCompletes ==
  ASSUME HeldInv, NEW c \in Calls, call[c] \in Stores, Work(c),
         ~store[call[c]].stopped, ~writer[call[c]].final, writer[call[c]].at # "done",
         owed \subseteq SeenBy(store[call[c]].content)
  PROVE  /\ Complete(call[c])'
         /\ \A q \in Stores :
              /\ store'[q].built = store[q].built /\ store'[q].stopped = store[q].stopped
              /\ writer'[q].at = writer[q].at /\ writer'[q].final = writer[q].final
<1> DEFINE p == call[c]
           content == store[p].content
<1>1. store \in [Stores -> StoreRec] /\ p \in Stores
  BY DEF HeldInv, PersistenceTypeOK
<1>2. Dirty(p)
  BY DEF Work, Commit, Retire, Change, Touch
<1>3. /\ writer'[p].wake /\ ~writer'[p].final /\ writer'[p].at # "done"
      /\ \A q \in Stores : writer'[q].at = writer[q].at /\ writer'[q].final = writer[q].final
  BY <1>1, <1>2, DirtyWakes
<1>4. AllTaken(p)' /\ AllSaved(p)'
  <2>1. call' = call
    BY DEF Work
  <2> QED
    BY <1>3, <2>1 DEF AllTaken, AllSaved
<1>5. ASSUME NEW new, Change(p, new)
      PROVE  /\ store'[p].content = new
             /\ \A q \in Stores :
                  store'[q].built = store[q].built /\ store'[q].stopped = store[q].stopped
  BY <1>1, <1>5 DEF Change, StoreRec
<1>6. /\ owed' \subseteq SeenBy(store'[p].content)
      /\ \A q \in Stores :
           store'[q].built = store[q].built /\ store'[q].stopped = store[q].stopped
  <2>1. content \in Body
    BY <1>1 DEF StoreRec, Content
  <2>2. CASE Commit(p) /\ owed' = owed \cup {change'}
    <3> DEFINE new == [content EXCEPT !.seq = change + 1, !.commits = @ \cup {change + 1}]
    <3>1. Change(p, new) /\ change' = change + 1
      BY <2>2 DEF Commit, Change
    <3>2. SeenBy(new) = SeenBy(content) \cup {change + 1}
      BY <2>1 DEF Body, SeenBy
    <3> HIDE DEF new
    <3> QED
      BY <1>5, <2>2, <3>1, <3>2
  <2>3. CASE Retire(p) /\ owed' = owed \cup {change'}
    <3> DEFINE new == [content EXCEPT !.seq = change + 1, !.retired = @ \cup {change + 1}]
    <3>1. Change(p, new) /\ change' = change + 1
      BY <2>3 DEF Retire, Change
    <3>2. SeenBy(new) = SeenBy(content) \cup {change + 1}
      BY <2>1 DEF Body, SeenBy
    <3> HIDE DEF new
    <3> QED
      BY <1>5, <2>3, <3>1, <3>2
  <2>4. CASE Touch(p) /\ owed' = owed
    BY <2>4 DEF Touch
  <2> QED
    BY <2>2, <2>3, <2>4 DEF Work
<1>7. call' = call
  BY DEF Work
<1> QED
  BY <1>3, <1>4, <1>6, <1>7 DEF Complete

\* What a new store holds is what it owes, and it is saved (newPersistentRouteStateStoreWithRoot).
LEMMA OpenCompletes ==
  ASSUME HeldInv, NEW p \in Stores, Open(p), owed' = SeenBy(Loaded), ~writer[p].final
  PROVE  /\ Complete(p)'
         /\ store'[p].built /\ ~store'[p].stopped
         /\ writer'[p].at = "select" /\ ~writer'[p].final
         /\ \A q \in Stores \ {p} : store'[q] = store[q] /\ writer'[q] = writer[q]
<1>1. store \in [Stores -> StoreRec] /\ writer \in [Stores -> WriterRec] /\ Loaded \in Content
  BY LoadedHeld DEF HeldInv, PersistenceTypeOK
<1>2. NoStore \in StoreRec /\ NoStore.stopped = FALSE
  BY BlankTypes DEF NoStore
<1> DEFINE b == file # NoFile /\ ~Loadable
           s == [NoStore EXCEPT !.built = TRUE, !.content = Loaded, !.warning = b]
<1>3. s.built /\ ~s.stopped /\ s.content = Loaded
  BY <1>2 DEF StoreRec
<1>4. store' = [store EXCEPT ![p] = s] /\ writer' = [writer EXCEPT ![p].at = "select"]
      /\ file' = file
  BY DEF Open
<1> HIDE DEF s
<1>5. /\ store'[p] = s /\ writer'[p].at = "select" /\ ~writer'[p].final
      /\ \A q \in Stores \ {p} : store'[q] = store[q] /\ writer'[q] = writer[q]
  BY <1>1, <1>4 DEF WriterRec
<1>6. Loaded # Empty => Loadable' /\ file'.body = Loaded
  BY <1>4 DEF Loaded, Loadable, Valid
<1> QED
  BY <1>3, <1>5, <1>6 DEF Complete, AllTaken, AllSaved, Unsaved

-----------------------------------------------------------------------------
(* The steps.                                                              *)

\* A step of the goroutine (startPersistenceWriter).
LEMMA WriterSaved ==
  ASSUME TypedInv, SavedInv, NEW p \in Stores, WriterStep(p)
  PROVE  SavedInv'
<1>1. HeldInv /\ LifecycleTypeOK /\ Write(p)
  BY DEF TypedInv, WriterStep
<1>2. UNCHANGED <<plugin, shuttingDown, call, setup, down, owed>>
  BY DEF WriterStep, abiVars
<1>3. /\ \A q \in Stores :
           /\ store'[q].built = store[q].built /\ store'[q].stopped = store[q].stopped
           /\ q # p => writer'[q] = writer[q]
      /\ writer[p].at \notin {"none", "done"}
      /\ writer'[p].final => writer[p].final \/ store[p].stopped
      /\ writer'[p].at = "done" => writer[p].final
  BY <1>1, WriterSteps
<1>4. OneStore /\ Owned /\ StopsLast
  BY DEF SavedInv
<1>5. store[p].built
  BY <1>3, <1>4 DEF OneStore
<1>6. OneStore'
  BY <1>3, <1>4, <1>5 DEF OneStore
<1>7. Owned'
  <2>1. /\ plugin # None => plugin \in Stores
        /\ \A c \in Calls : call[c] # None => call[c] \in Stores
        /\ setup # Idle => setup.new \in Stores
        /\ down.old # None => down.old \in Stores
    BY <1>1, AbiRecords DEF LifecycleTypeOK
  <2> QED
    BY <1>2, <1>3, <1>4, <2>1 DEF Owned
<1>8. StopsLast'
  <2>1. \A q \in Stores : store'[q].built /\ store'[q].stopped =>
          /\ down'.at \in {"waiting", "done"} /\ down'.old = q
          /\ \A c \in Calls : call'[c] = None
    BY <1>2, <1>3, <1>4 DEF StopsLast
  <2>2. \A q \in Stores :
          store'[q].built /\ (writer'[q].final \/ writer'[q].at = "done") => store'[q].stopped
    BY <1>3, <1>4, <1>5 DEF StopsLast
  <2>3. down'.at = "done" /\ down'.old # None => writer'[down'.old].at = "done"
    <3>1. down.old # None => down.old \in Stores
      BY <1>1, AbiRecords DEF LifecycleTypeOK
    <3> QED
      BY <1>2, <1>3, <1>4, <3>1 DEF StopsLast
  <2> QED
    BY <2>1, <2>2, <2>3 DEF StopsLast
<1>9. ASSUME NEW q \in Stores, store'[q].built PROVE Complete(q)'
  <2>1. q = p
    BY <1>3, <1>4, <1>5, <1>9 DEF OneStore
  <2>2. Complete(p)
    BY <1>5 DEF SavedInv
  <2> QED
    BY <1>1, <1>2, <2>1, <2>2, WriterCompletes
<1> QED
  BY <1>6, <1>7, <1>8, <1>9 DEF SavedInv

\* The one store of a process is built (buildPlugin).
LEMMA BuildSaved ==
  ASSUME ~Reloads, TypedInv, SavedInv, NEW p \in Stores, Build(p)
  PROVE  SavedInv'
<1>1. HeldInv /\ LifecycleTypeOK /\ OneStore /\ Owned /\ StopsLast
  BY DEF TypedInv, SavedInv
<1>2. /\ \A q \in Stores : ~store[q].built
      /\ Open(p) /\ owed' = SeenBy(Loaded)
      /\ setup' = [at |-> "built", new |-> p, old |-> None]
      /\ UNCHANGED <<plugin, shuttingDown, call, down>>
  BY DEF Build
<1>3. ~writer[p].final
  BY <1>1, <1>2 DEF OneStore
<1>4. /\ Complete(p)'
      /\ store'[p].built /\ ~store'[p].stopped
      /\ writer'[p].at = "select" /\ ~writer'[p].final
      /\ \A q \in Stores \ {p} : store'[q] = store[q] /\ writer'[q] = writer[q]
  BY <1>1, <1>2, <1>3, OpenCompletes
<1>5. \A q \in Stores : store'[q].built => q = p
  BY <1>2, <1>4
<1>6. OneStore'
  BY <1>1, <1>4, <1>5 DEF OneStore
<1>7. plugin = None /\ (\A c \in Calls : call[c] = None) /\ down.old = None /\ down.at = "running"
  <2>1. /\ plugin \in Stores \cup {None} /\ down.old \in Stores \cup {None}
        /\ \A c \in Calls : call[c] \in Stores \cup {None}
    BY <1>1, AbiRecords DEF LifecycleTypeOK
  <2> QED
    BY <1>1, <1>2, <2>1 DEF Owned
<1>8. Owned'
  <2>1. ~shuttingDown
    BY <1>1, <1>7 DEF Owned
  <2>2. setup'.at = "built" /\ setup'.new = p
    BY <1>2
  <2> QED
    BY <1>2, <1>4, <1>7, <2>1, <2>2 DEF Owned
<1>9. StopsLast'
  BY <1>2, <1>4, <1>5, <1>7 DEF StopsLast
<1> QED
  BY <1>4, <1>5, <1>6, <1>8, <1>9 DEF SavedInv

\* The plugin is put in its place; there was none before (handlePluginLifecycle).
LEMMA SetupSaved ==
  ASSUME TypedInv, SavedInv, SetupStep
  PROVE  SavedInv'
<1>1. LifecycleTypeOK /\ Owned
  BY DEF TypedInv, SavedInv
<1>2. setup # Idle /\ setup.at \in {"built", "stopping", "waiting"}
  BY DEF SetupStep, Swap, StopPrevious, PreviousStopped, Idle
<1>3. setup.at = "built" /\ store[setup.new].built /\ plugin = None
  BY <1>1, <1>2 DEF Owned
<1>4. Swap
  BY <1>3 DEF SetupStep, StopPrevious, PreviousStopped
<1>5. /\ setup' = Idle
      /\ plugin' = plugin \/ (plugin' = setup.new /\ ~shuttingDown)
      /\ UNCHANGED <<persistenceVars, shuttingDown, call, down, owed>>
  BY <1>3, <1>4 DEF Swap, Replaced
<1>6. Owned'
  <2>1. ~shuttingDown => down.at = "running"
    BY <1>1 DEF Owned
  <2> QED
    BY <1>1, <1>3, <1>5, <2>1 DEF Owned, persistenceVars
<1>7. OneStore' /\ StopsLast' /\ \A p \in Stores : store'[p].built => Complete(p)'
  BY <1>5 DEF SavedInv, OneStore, StopsLast, Complete, AllTaken, AllSaved, Unsaved, Loadable,
              Valid, persistenceVars
<1> QED
  BY <1>6, <1>7 DEF SavedInv

\* Calls begin before a shutdown does, and end (beginPluginCall, endPluginCall).
LEMMA CallSaved ==
  ASSUME TypedInv, SavedInv, NEW c \in Calls, Begin(c) \/ End(c)
  PROVE  SavedInv'
<1>1. LifecycleTypeOK /\ Owned /\ StopsLast
  BY DEF TypedInv, SavedInv
<1>2. /\ UNCHANGED <<persistenceVars, plugin, shuttingDown, setup, down, owed>>
      /\ \A d \in Calls : call'[d] \in {call[d], None} \/ call'[d] = plugin
      /\ Begin(c) => down.at = "running"
      /\ End(c) => \A d \in Calls : call'[d] \in {call[d], None}
  BY <1>1 DEF Begin, End, LifecycleTypeOK, Owned
<1>3. Owned'
  BY <1>1, <1>2 DEF Owned, persistenceVars
<1>4. StopsLast'
  BY <1>1, <1>2 DEF StopsLast, persistenceVars
<1>5. OneStore' /\ \A p \in Stores : store'[p].built => Complete(p)'
  BY <1>2 DEF SavedInv, OneStore, Complete, AllTaken, AllSaved, Unsaved, Loadable, Valid,
              persistenceVars
<1> QED
  BY <1>3, <1>4, <1>5 DEF SavedInv

\* A call changes the store: no shutdown has stopped it, for the shutdown waits for the call
\* (inFlight).
LEMMA WorkSaved ==
  ASSUME TypedInv, SavedInv, NEW c \in Calls, Work(c)
  PROVE  SavedInv'
<1> DEFINE p == call[c]
<1>1. HeldInv /\ LifecycleTypeOK /\ OneStore /\ Owned /\ StopsLast
  BY DEF TypedInv, SavedInv
<1>2. /\ p # None /\ p \in Stores /\ store[p].built
      /\ UNCHANGED <<plugin, shuttingDown, call, setup, down>>
  BY <1>1 DEF Work, LifecycleTypeOK, Owned
<1>3. ~store[p].stopped
  BY <1>1, <1>2 DEF StopsLast
<1>4. ~writer[p].final /\ writer[p].at # "done"
  BY <1>1, <1>2, <1>3 DEF StopsLast
<1>5. owed \subseteq SeenBy(store[p].content)
  BY <1>2 DEF SavedInv, Complete
<1>6. /\ Complete(p)'
      /\ \A q \in Stores :
           /\ store'[q].built = store[q].built /\ store'[q].stopped = store[q].stopped
           /\ writer'[q].at = writer[q].at /\ writer'[q].final = writer[q].final
  BY <1>1, <1>2, <1>3, <1>4, <1>5, WorkCompletes
<1>7. OneStore'
  BY <1>1, <1>6 DEF OneStore
<1>8. /\ plugin # None => plugin \in Stores
      /\ \A d \in Calls : call[d] # None => call[d] \in Stores
      /\ setup # Idle => setup.new \in Stores
      /\ down.old # None => down.old \in Stores
  BY <1>1, AbiRecords DEF LifecycleTypeOK
<1>9. Owned'
  BY <1>1, <1>2, <1>6, <1>8 DEF Owned
<1>10. StopsLast'
  BY <1>1, <1>2, <1>6, <1>8 DEF StopsLast
<1>11. ASSUME NEW q \in Stores, store'[q].built PROVE Complete(q)'
  <2>1. q = p
    BY <1>1, <1>2, <1>6, <1>11 DEF OneStore
  <2>2. q = p'
    BY <1>2, <2>1
  <2> QED
    BY <1>6, <2>2
<1> QED
  BY <1>7, <1>9, <1>10, <1>11 DEF SavedInv

\* A shutdown begins: nothing has been stopped yet (CodexSwitchSafePluginShutdown).
LEMMA BeginShutdownSaved ==
  ASSUME TypedInv, SavedInv, BeginShutdown
  PROVE  SavedInv'
<1>1. Owned /\ StopsLast
  BY DEF SavedInv
<1>2. /\ down.at = "running" /\ \E p \in Stores : store[p].built
      /\ shuttingDown' = TRUE /\ plugin' = None
      /\ down'.at = "draining" /\ down'.old = plugin
      /\ UNCHANGED <<persistenceVars, call, setup, owed>>
  BY DEF BeginShutdown
<1>3. Owned'
  BY <1>1, <1>2 DEF Owned, persistenceVars
<1>4. StopsLast'
  BY <1>1, <1>2 DEF StopsLast, persistenceVars
<1>5. OneStore' /\ \A p \in Stores : store'[p].built => Complete(p)'
  BY <1>2 DEF SavedInv, OneStore, Complete, AllTaken, AllSaved, Unsaved, Loadable, Valid,
              persistenceVars
<1> QED
  BY <1>3, <1>4, <1>5 DEF SavedInv

\* stopPersistence only tells the goroutine.
LEMMA StopKeeps ==
  ASSUME HeldInv, NEW p \in Stores, Stop(p)
  PROVE  /\ UNCHANGED <<writer, file>>
         /\ \A q \in Stores :
              /\ store'[q].built = store[q].built /\ store'[q].content = store[q].content
              /\ store'[q].failed = store[q].failed
              /\ q # p => store'[q].stopped = store[q].stopped
  BY DEF HeldInv, PersistenceTypeOK, StoreRec, Stop

\* The shutdown stops the store when every call has ended (inFlight.Wait, stopPersistence).
LEMMA StopLastSaved ==
  ASSUME TypedInv, SavedInv, StopLast
  PROVE  SavedInv'
<1>1. HeldInv /\ LifecycleTypeOK /\ OneStore /\ Owned /\ StopsLast
  BY DEF TypedInv, SavedInv
<1>2. /\ down.at = "draining" /\ \A c \in Calls : call[c] = None
      /\ UNCHANGED <<plugin, shuttingDown, call, setup, owed>>
  BY DEF StopLast, Drained
<1>3. \A p \in Stores : store[p].built => ~store[p].stopped
  BY <1>1, <1>2 DEF StopsLast
<1>4. down \in DownRec /\ down.old \in Stores \cup {None}
  BY <1>1, AbiRecords DEF LifecycleTypeOK
<1>5. PICK old \in Stores \cup {None} : down = [at |-> "draining", old |-> old]
  BY <1>2, <1>4 DEF DownRec, Running
<1>6. \A at : [down EXCEPT !.at = at] = [at |-> at, old |-> old]
  BY <1>5
<1>7. /\ plugin # None => plugin \in Stores
      /\ setup # Idle => setup.new \in Stores
  BY <1>1, AbiRecords DEF LifecycleTypeOK
<1>8. CASE old = None
  <2>1. UNCHANGED persistenceVars /\ down' = [at |-> "done", old |-> None]
    BY <1>5, <1>6, <1>8 DEF StopLast
  <2>2. Owned'
    BY <1>1, <1>2, <1>5, <1>8, <2>1 DEF Owned, persistenceVars
  <2>3. StopsLast'
    BY <1>1, <1>2, <1>3, <2>1 DEF StopsLast, persistenceVars
  <2>4. OneStore' /\ \A p \in Stores : store'[p].built => Complete(p)'
    BY <1>2, <2>1 DEF SavedInv, OneStore, Complete, AllTaken, AllSaved, Unsaved, Loadable,
                      Valid, persistenceVars
  <2> QED
    BY <2>2, <2>3, <2>4 DEF SavedInv
<1>9. CASE old # None
  <2>1. old \in Stores /\ store[old].built /\ ~store[old].stopped
    BY <1>1, <1>3, <1>5, <1>9 DEF Owned
  <2>2. Stop(old) /\ down' = [at |-> "waiting", old |-> old]
    BY <1>5, <1>6, <1>9, <2>1 DEF StopLast
  <2>3. /\ UNCHANGED <<writer, file>>
        /\ \A q \in Stores :
             /\ store'[q].built = store[q].built /\ store'[q].content = store[q].content
             /\ store'[q].failed = store[q].failed
             /\ q # old => store'[q].stopped = store[q].stopped
    BY <1>1, <2>1, <2>2, StopKeeps
  <2>4. OneStore'
    BY <1>1, <2>3 DEF OneStore
  <2>5. Owned'
    BY <1>1, <1>2, <1>5, <1>7, <2>1, <2>2, <2>3 DEF Owned
  <2>6. StopsLast'
    <3>1. \A q \in Stores : store[q].built => q = old
      BY <1>1, <2>1 DEF OneStore
    <3>2. store'[old].stopped
      BY <1>1, <2>1, <2>2 DEF HeldInv, PersistenceTypeOK, StoreRec, Stop
    <3> QED
      BY <1>2, <2>2, <2>3, <3>1, <3>2 DEF StopsLast
  <2>7. ASSUME NEW q \in Stores, store'[q].built PROVE Complete(q)'
    <3>1. Complete(q)
      BY <2>3, <2>7 DEF SavedInv
    <3> QED
      BY <1>2, <2>3, <3>1 DEF Complete, AllTaken, AllSaved, Unsaved, Loadable, Valid
  <2> QED
    BY <2>4, <2>5, <2>6, <2>7 DEF SavedInv
<1> QED
  BY <1>8, <1>9

\* The shutdown returns when the goroutine has ended (<-done).
LEMMA LastStoppedSaved ==
  ASSUME TypedInv, SavedInv, LastStopped
  PROVE  SavedInv'
<1>1. LifecycleTypeOK /\ Owned /\ StopsLast
  BY DEF TypedInv, SavedInv
<1>2. /\ down.at = "waiting" /\ writer[down.old].at = "done"
      /\ UNCHANGED <<persistenceVars, plugin, shuttingDown, call, setup, owed>>
  BY DEF LastStopped
<1>3. down'.at = "done" /\ down'.old = down.old
  <2>1. PICK old \in Stores : down = [at |-> "waiting", old |-> old]
    BY <1>1, <1>2 DEF LifecycleTypeOK, DownRec, Running
  <2>2. down' = [at |-> "done", old |-> old]
    BY <2>1 DEF LastStopped
  <2> QED
    BY <2>1, <2>2
<1>4. Owned'
  BY <1>1, <1>2, <1>3 DEF Owned, persistenceVars
<1>5. StopsLast'
  BY <1>1, <1>2, <1>3 DEF StopsLast, persistenceVars
<1>6. OneStore' /\ \A p \in Stores : store'[p].built => Complete(p)'
  BY <1>2 DEF SavedInv, OneStore, Complete, AllTaken, AllSaved, Unsaved, Loadable, Valid,
              persistenceVars
<1> QED
  BY <1>4, <1>5, <1>6 DEF SavedInv

\* The process ends, and with it all that held a store.
LEMMA ExitSaved ==
  ASSUME TypedInv, SavedInv, Exit
  PROVE  SavedInv'
<1>1. HeldInv
  BY DEF TypedInv
<1>2. \A p \in Stores : ~store'[p].built
  BY <1>1 DEF HeldInv, PersistenceTypeOK, StoreRec, Exit, Kill
<1>3. \A p \in Stores : writer'[p].at \in {"none", "done"} /\ ~writer'[p].final
  <2>1. NoWriter.at = "none" /\ ~NoWriter.final
    BY DEF NoWriter
  <2>2. LET w == [NoWriter EXCEPT !.at = "done"] IN w.at = "done" /\ ~w.final
    BY DEF NoWriter
  <2> QED
    BY <2>1, <2>2 DEF Exit, Kill
<1>4. OneStore'
  BY <1>2, <1>3 DEF OneStore
<1>5. Owned'
  BY DEF Exit, Owned, Running
<1>6. StopsLast'
  BY <1>2 DEF Exit, StopsLast, Running
<1> QED
  BY <1>2, <1>4, <1>5, <1>6 DEF SavedInv

-----------------------------------------------------------------------------
(* The theorems about shutdown.                                            *)

\* Nothing is built on a machine that has run no process.
LEMMA InitSaved == LifecycleInit => SavedInv
<1> SUFFICES ASSUME LifecycleInit PROVE SavedInv
  OBVIOUS
<1>1. \A p \in Stores : ~store[p].built /\ writer[p].at = "none" /\ ~writer[p].final
  BY DEF LifecycleInit, PersistenceInit, NoStore, NoWriter
<1> QED
  BY <1>1 DEF LifecycleInit, SavedInv, OneStore, Owned, StopsLast, Running

\* Every step keeps the invariant if the host never builds a second plugin in a process.
LEMMA NextSaved ==
  ASSUME ~Reloads
  PROVE  TypedInv /\ SavedInv /\ [LifecycleNext]_lifecycleVars => SavedInv'
<1> SUFFICES ASSUME TypedInv, SavedInv, [LifecycleNext]_lifecycleVars PROVE SavedInv'
  OBVIOUS
<1>1. CASE LifecycleNext
  BY <1>1, WriterSaved, BuildSaved, SetupSaved, CallSaved, WorkSaved, BeginShutdownSaved,
     StopLastSaved, LastStoppedSaved, ExitSaved DEF LifecycleNext, ShutdownStep
<1>2. CASE UNCHANGED lifecycleVars
  BY <1>2 DEF lifecycleVars, abiVars, persistenceVars, SavedInv, OneStore, Owned, StopsLast,
              Complete, AllTaken, AllSaved, Unsaved, Loadable, Valid
<1> QED
  BY <1>1, <1>2

\* What a shutdown that has returned has saved, and what a writer at rest has.
LEMMA SavedInvSaves ==
  ASSUME TypedInv, SavedInv
  PROVE  ShutdownSaves /\ QuietIsSaved
<1>1. LifecycleTypeOK /\ Owned /\ StopsLast
  BY DEF TypedInv, SavedInv
<1>2. ShutdownSaves
  <2> SUFFICES ASSUME down.at = "done", down.old # None, ~store[down.old].failed
               PROVE  Loadable /\ owed \subseteq SeenBy(file.body)
    BY DEF ShutdownSaves
  <2>1. down.old \in Stores /\ store[down.old].built
    BY <1>1, AbiRecords DEF LifecycleTypeOK, Owned
  <2>2. writer[down.old].at = "done" /\ Complete(down.old)
    BY <1>1, <2>1 DEF StopsLast, SavedInv
  <2> QED
    BY <2>2 DEF Complete, AllSaved, Unsaved
<1>3. QuietIsSaved
  BY DEF SavedInv, QuietIsSaved, Complete, AllSaved
<1> QED
  BY <1>2, <1>3

\* When a shutdown has returned and no save failed, every change that was ever made to the
\* plugin, or loaded by it, is in a file that the next process accepts
\* (CodexSwitchSafePluginShutdown, persistNow), in processes that are not reconfigured.
THEOREM ShutdownLosesNothing ==
  ASSUME ~Reloads
  PROVE  LifecycleSpec => []ShutdownSaves
<1>1. TypedInv /\ SavedInv => ShutdownSaves
  BY SavedInvSaves
<1> QED
  BY <1>1, InitTyped, NextTyped, InitSaved, NextSaved, PTL DEF LifecycleSpec

\* While the status says that persistence is healthy and the writer has nothing to do,
\* everything is saved (markPersistenceDirtyLocked, persistNow), in processes that are not
\* reconfigured.
THEOREM QuietLosesNothing ==
  ASSUME ~Reloads
  PROVE  LifecycleSpec => []QuietIsSaved
<1>1. TypedInv /\ SavedInv => QuietIsSaved
  BY SavedInvSaves
<1> QED
  BY <1>1, InitTyped, NextTyped, InitSaved, NextSaved, PTL DEF LifecycleSpec
=============================================================================
