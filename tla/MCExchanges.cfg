SPECIFICATION ExchangesSpec
CONSTANTS
    \* FileTransfer
    Chunks = 2
    Loops = {l1, l2}
    Requests = {r1, r2}
    Downloads = {d1}
    MaxFaults = 1
    Nobody = nobody
    \* FileDrive
    Shared = {shared}
    Uploaded = {uploaded}
    Devices = {d1, d2}
    Bytes = {old, new}
    NoContent = noContent
    Objects = {o1, o2}
    NoObject = noObject
    Scans = {s1, s2}
    MaxRoots = 2
    MaxRequests = 5
    MaxScanFaults = 1
    \* Assistant
    Drafts = {d1, d2}
    Providers = {p1}
    NoProvider = noProvider
    Handlers = {r1, r2}
    Pool = 2
    Retries = 2
    MaxCalls = 4
INVARIANTS
    EndToEnd
    ExecutedOnce
    OpensNewest
PROPERTIES
    NothingReviewedExecutes
    UploadFinishes
    DownloadFinishes
    ScanSettles
    RequestsEnd
\* The users of the drive and of the assistant stop after their last request.
CHECK_DEADLOCK FALSE
