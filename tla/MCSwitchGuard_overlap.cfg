\* Overlapping turns of a conversation, each with one candidate, that may fail late.
\* Nothing expires, so time stands still.
\* The host may stop sending requests: CHECK_DEADLOCK FALSE.
CONSTANTS
    Requests = {q1, q2}
    Sessions = {s1}
    Routes = {ra, rb}
    Reasoning = {i1, i2}
    Compaction = {}
    NoRequest = NoRequest
    NoSession = NoSession
    NoRoute = NoRoute
    NotRetired = NotRetired
    AnyRoute = AnyRoute
    Absent = Absent
    CompactionPolicy = "strip"
    MaxSessions = 1
    MaxPending = 2
    MaxRetired = 2
    StateTTL = 1
    SweepInterval = 1
    MaxSequence = 4
    MaxTime = 0
    MaxSaves = 0
    Freedoms = {"overlap", "response", "late", "forget"}
    MaxDuration = 0
SPECIFICATION GuardSpec
SYMMETRY Symmetry
PROPERTIES KeepsPromise ReusableOnlyAlone
CHECK_DEADLOCK FALSE
