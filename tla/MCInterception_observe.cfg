\* Two requests whose candidates, completions and records cross, and a reconfiguration.
\* The number of candidates and of completions is bounded, so behaviours end.
SPECIFICATION Spec
CHECK_DEADLOCK FALSE
SYMMETRY Symmetry
CONSTANTS
    Requests = {q1, q2}
    Plugins = {p1, p2}
    First = p1
    Notices = {c1, c2, c3}
    Nobody = Nobody
    NoRecord = NoRecord
    MaxRecords = 1
    MaxCandidates = 2
INVARIANTS TypeOK Ledger CompletedOnce ReporterBounded RecordIsLatest TrailOnce Reported
