\* Block policy: a rejected candidate moves a barrier to another route.
\* The host may stop sending requests: CHECK_DEADLOCK FALSE.
CONSTANTS
    Requests = {q1}
    Sessions = {s1}
    Routes = {ra, rb}
    Reasoning = {i1}
    Compaction = {c1}
    NoRequest = NoRequest
    NoSession = NoSession
    NoRoute = NoRoute
    NotRetired = NotRetired
    AnyRoute = AnyRoute
    Absent = Absent
    CompactionPolicy = "block"
    MaxSessions = 1
    MaxPending = 1
    MaxRetired = 2
    StateTTL = 1
    SweepInterval = 1
    MaxSequence = 4
    MaxTime = 0
    MaxSaves = 0
    Freedoms = {"forget"}
    MaxDuration = 1
SPECIFICATION GuardSpec
SYMMETRY Symmetry
INVARIANTS NoForeignItem
CHECK_DEADLOCK FALSE
