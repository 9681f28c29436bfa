--------------------------- MODULE PluginLifecycle ---------------------------
(***************************************************************************)
(* The plugin in its host process (abi.go): calls, registration and        *)
(* reconfiguration, shutdown, and the processes that come one after the    *)
(* other, over the stores and the state file of Persistence.               *)
(*                                                                         *)
(* A definition with a suffix is the one after it with a mistake in it,    *)
(* and is not used.                                                        *)
(***************************************************************************)
EXTENDS Persistence

CONSTANTS
    Calls,          \* host threads that call the plugin
    None,           \* no plugin; no call
    Reloads,        \* whether the host reconfigures a running plugin
    Polls           \* whether calls that change nothing never cease

ASSUME LifecycleAssumption ==
    /\ Reloads \in BOOLEAN /\ Polls \in BOOLEAN
    /\ None \notin Stores

VARIABLES
    plugin,         \* switchSafeABIState.plugin, by its store, or None
    shuttingDown,   \* switchSafeABIState.shuttingDown
    call,           \* host thread -> the store its call works on, or None
    setup,          \* the handlePluginLifecycle that runs: at, and its p and previous
    down,           \* the CodexSwitchSafePluginShutdown that runs: at, and its plugin
    owed            \* history: the changes a restart must not lose

abiVars == <<plugin, shuttingDown, call, setup, down, owed>>
lifecycleVars == <<persistenceVars, abiVars>>

Idle == [at |-> "idle", new |-> None, old |-> None]
SetupRec ==
    {Idle}
    \cup [at : {"built"}, new : Stores, old : {None}]
    \cup [at : {"stopping", "waiting"}, new : Stores, old : Stores]

Running == [at |-> "running", old |-> None]
DownRec ==
    {Running}
    \cup [at : {"draining", "done"}, old : Stores \cup {None}]
    \cup [at : {"waiting"}, old : Stores]

-----------------------------------------------------------------------------
(* Registration and reconfiguration.                                       *)

\* buildPlugin, before any lock is taken: a new store loads the state file.
Build(p) ==
    /\ setup.at = "idle"
    /\ down.at # "done"
    /\ Reloads \/ \A q \in Stores : ~store[q].built
    /\ Open(p)
    /\ setup' = [at |-> "built", new |-> p, old |-> None]
    /\ owed' = IF \E q \in Stores : store[q].built THEN owed ELSE SeenBy(Loaded)
    /\ UNCHANGED <<plugin, shuttingDown, call, down>>

\* The new plugin replaces the one before it, or is left behind by a shutdown.
Replaced_NoTest(previous) == [setup EXCEPT !.at = "stopping", !.old = previous]
Replaced(previous) ==
    IF previous = None THEN Idle ELSE [setup EXCEPT !.at = "stopping", !.old = previous]

Swap ==
    /\ setup.at = "built"
    /\ IF shuttingDown
       THEN setup' = Idle /\ UNCHANGED plugin
       ELSE plugin' = setup.new /\ setup' = Replaced(plugin)
    /\ UNCHANGED <<persistenceVars, shuttingDown, call, down, owed>>

\* previous.state.stopPersistence()
StopPrevious ==
    /\ setup.at = "stopping"
    /\ IF store[setup.old].stopped THEN UNCHANGED persistenceVars ELSE Stop(setup.old)
    /\ setup' = IF store[setup.old].stopped THEN Idle ELSE [setup EXCEPT !.at = "waiting"]
    /\ UNCHANGED <<plugin, shuttingDown, call, down, owed>>

PreviousStopped ==
    /\ setup.at = "waiting"
    /\ writer[setup.old].at = "done"
    /\ setup' = Idle
    /\ UNCHANGED <<persistenceVars, plugin, shuttingDown, call, down, owed>>

-----------------------------------------------------------------------------
(* Calls.                                                                  *)

\* beginPluginCall; inFlight is the number of calls that are not None.
Begin(c) ==
    /\ call[c] = None
    /\ ~shuttingDown
    /\ plugin # None
    /\ call' = [call EXCEPT ![c] = plugin]
    /\ UNCHANGED <<persistenceVars, plugin, shuttingDown, setup, down, owed>>

\* What a call does to its store, under the mutex; a call takes the mutex once or more.
Work(c) ==
    /\ call[c] # None
    /\ \/ Commit(call[c]) /\ owed' = owed \cup {change'}
       \/ Retire(call[c]) /\ owed' = owed \cup {change'}
       \/ Polls /\ Touch(call[c]) /\ UNCHANGED owed
    /\ UNCHANGED <<plugin, shuttingDown, call, setup, down>>

End(c) ==
    /\ call[c] # None
    /\ call' = [call EXCEPT ![c] = None]
    /\ UNCHANGED <<persistenceVars, plugin, shuttingDown, setup, down, owed>>

-----------------------------------------------------------------------------
(* Shutdown, and the end of the process.                                   *)

BeginShutdown ==
    /\ down.at = "running"
    /\ \E p \in Stores : store[p].built
    /\ shuttingDown' = TRUE
    /\ plugin' = None
    /\ down' = [at |-> "draining", old |-> plugin]
    /\ UNCHANGED <<persistenceVars, call, setup, owed>>

\* inFlight.Wait(), then stopPersistence up to its wait.
Drained_Early == down.at = "draining"
Drained == down.at = "draining" /\ \A c \in Calls : call[c] = None

StopLast ==
    /\ Drained
    /\ IF down.old = None \/ store[down.old].stopped
       THEN UNCHANGED persistenceVars ELSE Stop(down.old)
    /\ down' = [down EXCEPT !.at = IF down.old = None \/ store[down.old].stopped
                                   THEN "done" ELSE "waiting"]
    /\ UNCHANGED <<plugin, shuttingDown, call, setup, owed>>

LastStopped ==
    /\ down.at = "waiting"
    /\ writer[down.old].at = "done"
    /\ down' = [down EXCEPT !.at = "done"]
    /\ UNCHANGED <<persistenceVars, plugin, shuttingDown, call, setup, owed>>

\* The process ends, after a shutdown or in the middle of anything.
Exit ==
    /\ \E p \in Stores : store[p].built
    /\ Kill
    /\ plugin' = None
    /\ shuttingDown' = FALSE
    /\ call' = [c \in Calls |-> None]
    /\ setup' = Idle
    /\ down' = Running
    /\ UNCHANGED owed

-----------------------------------------------------------------------------
LifecycleInit ==
    /\ PersistenceInit
    /\ plugin = None
    /\ shuttingDown = FALSE
    /\ call = [c \in Calls |-> None]
    /\ setup = Idle
    /\ down = Running
    /\ owed = {}

WriterStep(p) == Write(p) /\ UNCHANGED abiVars

SetupStep == Swap \/ StopPrevious \/ PreviousStopped

ShutdownStep == StopLast \/ LastStopped

LifecycleNext ==
    \/ \E p \in Stores : Build(p) \/ WriterStep(p)
    \/ SetupStep
    \/ \E c \in Calls : Begin(c) \/ Work(c) \/ End(c)
    \/ BeginShutdown
    \/ ShutdownStep
    \/ Exit

LifecycleSpec == LifecycleInit /\ [][LifecycleNext]_lifecycleVars

\* Goroutines and the host's threads are scheduled; nobody has to begin anything.
LifecycleFairness ==
    /\ \A p \in Stores : WF_lifecycleVars(WriterStep(p))
    /\ WF_lifecycleVars(SetupStep)
    /\ WF_lifecycleVars(ShutdownStep)
    /\ \A c \in Calls : WF_lifecycleVars(End(c))

FairLifecycleSpec == LifecycleSpec /\ LifecycleFairness

-----------------------------------------------------------------------------
\* Every variable has its type; nothing ever waits for a store that is not there.
LifecycleTypeOK ==
    /\ plugin \in Stores \cup {None}
    /\ shuttingDown \in BOOLEAN
    /\ call \in [Calls -> Stores \cup {None}]
    /\ setup \in SetupRec
    /\ down \in DownRec
    /\ owed \subseteq Changes

Unsaved(p) == ~Loadable \/ ~ SeenBy(store[p].content) \subseteq SeenBy(file.body)

\* Once a shutdown has returned, and no save failed, every change that was ever made to
\* the plugin, or loaded, is in a file that the next process accepts: no call that is
\* still at work, no save in progress and no pending wake escapes it
\* (CodexSwitchSafePluginShutdown; "successful route commits, invalidations, taint
\* flags, and retired-item barriers survive normal CPA restarts").
ShutdownSaves ==
    down.at = "done" /\ down.old # None /\ ~store[down.old].failed
    => Loadable /\ owed \subseteq SeenBy(file.body)

\* While the status says that persistence is healthy and the writer has nothing to do,
\* nothing is left to be saved (persistNow, markPersistenceDirtyLocked).  Holds when
\* the plugin is not reconfigured.
QuietIsSaved ==
    \A p \in Stores :
        /\ store[p].built /\ ~store[p].warning /\ ~store[p].failed
        /\ writer[p].at = "select" /\ ~writer[p].wake
        /\ store[p].content # Empty
        => ~Unsaved(p)

\* What a running plugin has seen is in the file in the end, without a shutdown, unless
\* the process ends first (startPersistenceWriter): in processes that are not
\* reconfigured, if traffic pauses and the last save succeeds.
EventuallySaved ==
    \A p \in Stores, n \in Changes :
        /\ [](\A q \in Stores : store[p].built /\ store[q].built => p = q)
        /\ <>[](~store[p].failed /\ \A c \in Calls : call[c] # p)
        => (plugin = p /\ n \in SeenBy(store[p].content))
                ~> (plugin # p \/ (Loadable /\ n \in SeenBy(file.body)))

\* A shutdown returns: neither the calls in flight nor the writer, wherever it is, can
\* hold it up for ever (inFlight.Wait, stopPersistence).
ShutdownReturns == (down.at = "draining") ~> (down.at # "draining" /\ down.at # "waiting")

\* So does a reconfiguration.
SetupReturns == (setup.at # "idle") ~> (setup.at = "idle")
=============================================================================
