\* Processes one after the other, crashes and failing saves; no reconfiguration.  The
\* stores run out: a behaviour may stop.  No symmetry, for the sake of liveness.
CONSTANTS
    Stores = {p1, p2}
    NoFile = NoFile
    SavesFail = TRUE
    MaxChanges = 2
    Calls = {c1}
    None = None
    Reloads = FALSE
    Polls = TRUE
SPECIFICATION FairLifecycleSpec
INVARIANTS LifecycleTypeOK LoadsOneInstant ShutdownSaves QuietIsSaved
PROPERTIES EventuallySaved
CHECK_DEADLOCK FALSE
