SPECIFICATION Spec
CONSTANTS
    event = event
    list = list
    p1 = p1
    p2 = p2
    e1 = e1
    e2 = e2
    Objects = {event, list}
    Pulls = {p1}
    Edits = {}
    Kinds = {"create", "update", "delete"}
    Editable = {event}
    ServerPriority <- MCServerPriority
    ClientPriority <- MCClientPriority
    Limit = 2
    FirstId = 9
    MaxChanges = 4
    MaxLocal = 4
    MaxFaults = 0
    Concurrent = FALSE
    Restore = FALSE
INVARIANTS
    Converged
