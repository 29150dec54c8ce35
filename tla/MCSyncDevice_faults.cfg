SPECIFICATION FairSpec
CONSTANTS
    event = event
    list = list
    p1 = p1
    p2 = p2
    e1 = e1
    e2 = e2
    Objects = {event}
    Pulls = {p1, p2}
    Edits = {}
    Kinds = {"create", "update", "delete"}
    Editable = {event}
    ServerPriority <- MCServerPriority
    ClientPriority <- MCClientPriority
    Limit = 2
    FirstId = 1
    MaxChanges = 3
    MaxLocal = 6
    MaxFaults = 1
    Concurrent = TRUE
    Restore = TRUE
INVARIANTS
    NothingSkipped
PROPERTIES
    CatchesUp
