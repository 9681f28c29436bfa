\* A request outlives its evicted conversation.
CONSTANTS
    Requests = {q1, q2}
    Sessions = {s1, s2}
    Routes = {ra}
    Reasoning = {i1}
    Compaction = {}
    NoRequest = NoRequest
    NoSession = NoSession
    NoRoute = NoRoute
    NotRetired = NotRetired
    AnyRoute = AnyRoute
    Absent = Absent
    CompactionPolicy = "strip"
    MaxSessions = 1
    MaxPending = 2
    MaxRetired = 1
    StateTTL = 1
    SweepInterval = 1
    MaxSequence = 2
    MaxTime = 2
    MaxSaves = 0
SPECIFICATION Spec
SYMMETRY Symmetry
INVARIANTS LoadsAgain
