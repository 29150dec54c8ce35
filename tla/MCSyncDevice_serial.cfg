SPECIFICATION Spec
CONSTANTS
    event = event
    list = list
    p1 = p1
    p2 = p2
    e1 = e1
    e2 = e2
    Objects = {event, list}
    Pulls = {p1}
    Edits = {e1, e2}
    Kinds = {"create", "update", "delete"}
    Editable = {event}
    ServerPriority <- MCServerPriority
    ClientPriority <- MCClientPriority
    Limit = 2
    FirstId = 1
    MaxChanges = 4
    MaxLocal = 6
    MaxFaults = 1
    Concurrent = FALSE
    Restore = FALSE
INVARIANTS
    ConvergedUnlessFailed
    NoBlindOverwrite
