\* Liveness of reconfigurations and shutdowns, whether saves succeed or fail.  What is saved
\* does not matter to them: calls wake the writer and change nothing.  The stores run out: a
\* behaviour may stop.
CONSTANTS
    Stores = {p1, p2}
    NoFile = NoFile
    SavesFail = TRUE
    MaxChanges = 0
    Calls = {c1, c2}
    None = None
    Reloads = TRUE
    Polls = TRUE
SPECIFICATION FairLifecycleSpec
PROPERTIES ShutdownReturns SetupReturns
CHECK_DEADLOCK FALSE
