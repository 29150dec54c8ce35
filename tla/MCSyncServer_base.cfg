SPECIFICATION Spec
CONSTANTS
    w1 = w1
    w2 = w2
    w3 = w3
    d1 = d1
    d2 = d2
    title = title
    notes = notes
    s1 = s1
    s2 = s2
    Sessions = {s1, s2}
    Devices = {d1, d2}
    Readers = {}
    Writes <- MCWrites3
    Author <- MCAuthor
    Via <- AllPush
    Patch <- AllTitle
    Outlook = {}
    MaxObject = 2
    Uids = {u1}
    Fields = {title}
    Priority <- SamePriority
    Blank = Blank
    Strategies = {}
    Overlap = FALSE
    MaxBatch = 1
    MaxRequests = 3
    MaxPurges = 0
    PageLimit = 2
SYMMETRY SessionSymmetry
INVARIANTS
    BaseRespected
\* The users stop after MaxRequests requests, so an idle system may have no step.
CHECK_DEADLOCK FALSE
