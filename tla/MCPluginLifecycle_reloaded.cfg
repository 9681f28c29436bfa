\* A reconfiguration, then a shutdown.
CONSTANTS
    Stores = {p1, p2}
    NoFile = NoFile
    SavesFail = FALSE
    MaxChanges = 1
    Calls = {c1}
    None = None
    Reloads = TRUE
    Polls = FALSE
SPECIFICATION LifecycleSpec
SYMMETRY Symmetry
INVARIANTS ShutdownSaves
CHECK_DEADLOCK FALSE
