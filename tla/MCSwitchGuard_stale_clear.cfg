\* An invalidation lets an older request clear the taint.
\* The host may stop sending requests: CHECK_DEADLOCK FALSE.
CONSTANTS
    Requests = {q1, q2}
    Sessions = {s1}
    Routes = {ra, rb}
    Reasoning = {i1}
    Compaction = {}
    NoRequest = NoRequest
    NoSession = NoSession
    NoRoute = NoRoute
    NotRetired = NotRetired
    AnyRoute = AnyRoute
    Absent = Absent
    CompactionPolicy = "strip"
    MaxSessions = 1
    MaxPending = 2
    MaxRetired = 2
    StateTTL = 1
    SweepInterval = 1
    MaxSequence = 5
    MaxTime = 0
    MaxSaves = 0
    Freedoms = {"overlap", "invalidate", "forget"}
    MaxDuration = 1
SPECIFICATION GuardSpec
SYMMETRY Symmetry
INVARIANTS NoForeignItem
CHECK_DEADLOCK FALSE
