\* One turn of a conversation at a time, with failover, invalidation, expiry, answers that
\* fail late, routes the host cannot name, and restarts and reconfigurations in the middle of
\* requests.  One save is made, at any moment; a store that is opened finds it, however old it
\* is, or nothing.  The client replays all it has.
CONSTANTS
    Requests = {q1}
    Sessions = {s1}
    Routes = {ra, rb}
    Reasoning = {i1}
    Compaction = {}
    NoRequest = NoRequest
    NoSession = NoSession
    NoRoute = NoRoute
    NotRetired = NotRetired
    AnyRoute = AnyRoute
    Absent = Absent
    CompactionPolicy = "strip"
    MaxSessions = 1
    MaxPending = 1
    MaxRetired = 2
    StateTTL = 1
    SweepInterval = 1
    MaxSequence = 3
    MaxTime = 2
    MaxSaves = 1
    Freedoms = {"retry", "invalidate", "late", "unknown", "restart", "reconfigure"}
    MaxDuration = 2
SPECIFICATION GuardSpec
SYMMETRY Symmetry
PROPERTIES KeepsPromise
