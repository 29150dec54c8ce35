SPECIFICATION Spec
CONSTANTS
    w1 = w1
    w2 = w2
    w3 = w3
    d1 = d1
    d2 = d2
    title = title
    notes = notes
    s1 = s1
    s2 = s2
    Sessions = {s1, s2}
    Devices = {d1, d2}
    Readers = {}
    Writes <- MCWrites3
    Author <- MCAuthor
    Via <- WebSecond
    Patch <- TwoFields
    Outlook = {}
    MaxObject = 2
    Uids = {u1}
    Fields = {title, notes}
    Priority <- SamePriority
    Blank = Blank
    Strategies = {"use_local", "use_server", "keep_both", "ignore"}
    Overlap = FALSE
    MaxBatch = 1
    MaxRequests = 4
    MaxPurges = 1
    PageLimit = 2
SYMMETRY SessionSymmetry
INVARIANTS
    NewestChangeIsRow
PROPERTIES
    ImplementsVersionLog
\* The users stop after MaxRequests requests, so an idle system may have no step.
CHECK_DEADLOCK FALSE
