\* More conversations and requests than the store has room for, block policy; stores that
\* are opened with what an earlier one has saved.
CONSTANTS
    Requests = {q1, q2}
    Sessions = {s1, s2}
    Routes = {ra}
    Reasoning = {}
    Compaction = {c1}
    NoRequest = NoRequest
    NoSession = NoSession
    NoRoute = NoRoute
    NotRetired = NotRetired
    AnyRoute = AnyRoute
    Absent = Absent
    CompactionPolicy = "block"
    MaxSessions = 1
    MaxPending = 1
    MaxRetired = 1
    StateTTL = 2
    SweepInterval = 2
    MaxSequence = 2
    MaxTime = 3
    MaxSaves = 1
SPECIFICATION Spec
SYMMETRY Symmetry
INVARIANTS TypeOK Bounded IndexExact FreshBindings
