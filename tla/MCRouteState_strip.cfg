\* Room for every conversation, strip policy.  A store that is opened finds no file.
CONSTANTS
    Requests = {q1, q2, q3}
    Sessions = {s1}
    Routes = {ra, rb}
    Reasoning = {i1}
    Compaction = {c1}
    NoRequest = NoRequest
    NoSession = NoSession
    NoRoute = NoRoute
    NotRetired = NotRetired
    AnyRoute = AnyRoute
    Absent = Absent
    CompactionPolicy = "strip"
    MaxSessions = 1
    MaxPending = 2
    MaxRetired = 1
    StateTTL = 1
    SweepInterval = 1
    MaxSequence = 3
    MaxTime = 2
    MaxSaves = 0
SPECIFICATION Spec
SYMMETRY Symmetry
INVARIANTS AmbiguityTainted IndexExact
PROPERTIES NoRollback TaintClearedAlone BarrierKept
