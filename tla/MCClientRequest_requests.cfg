\* Requests of up to three edits, in which up to two fields name the conversation.
\* A client may stop editing: CHECK_DEADLOCK FALSE.
SPECIFICATION Spec
CHECK_DEADLOCK FALSE
SYMMETRY Symmetry
CONSTANTS
    a = a
    b = b
    x = x
    m = m
    Ids = {a, b}
    Contents = {x}
    Rests = {m}
    NoText = NoText
    Odd = Odd
    Names = {n1, n2}
    Callers = {c1, c2}
    NoName = NoName
    Unfit = Unfit
    Items <- MCItems
    MaxEdits = 3
    MaxNames = 2
INVARIANTS TypeOK StripsClean NeverUnchanged OnlyRetired DataKept
INVARIANTS KeyOfStrongest ThreadsApart MetadataAnywhere
