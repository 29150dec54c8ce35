SPECIFICATION Spec
CONSTANTS
    w1 = w1
    w2 = w2
    w3 = w3
    d1 = d1
    d2 = d2
    title = title
    notes = notes
    Sessions = {s1}
    Devices = {d1, d2}
    Readers = {d2}
    Writes <- MCWrites3
    Author <- MCAuthor
    Via <- WebSecond
    Patch <- AllTitle
    Outlook = {w2}
    MaxObject = 2
    Uids = {u1}
    Fields = {title}
    Priority <- Alternating
    Blank = Blank
    Strategies = {"use_local", "keep_both", "ignore"}
    Overlap = FALSE
    MaxBatch = 1
    MaxRequests = 5
    MaxPurges = 0
    PageLimit = 1
INVARIANTS
    NoSkippedChange
    BaseRespected
    ResolvedOnce
\* The users stop after MaxRequests requests, so an idle system may have no step.
CHECK_DEADLOCK FALSE
