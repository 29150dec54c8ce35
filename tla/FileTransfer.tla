---------------------------- MODULE FileTransfer ----------------------------
(***************************************************************************)
(* One file on its way to the server and back: the upload session with its *)
(* chunks (FilesService.createUploadSession .. completeUploadSession), the *)
(* object on the server's disk (LocalObjectStorageService), the record     *)
(* that names it (file_storage_objects), and the client's transfer service *)
(* that lists, sends, completes, resumes and downloads.  Uploads share     *)
(* nothing, since each gets a fresh object key, so one is enough.          *)
(*                                                                         *)
(* A request is a transaction under READ COMMITTED and its statements are  *)
(* actions.  The UPDATE that ends a transaction is one action with its     *)
(* COMMIT: the row it locks is free again at once.  A client that gives up *)
(* waiting leaves its request running.                                     *)
(*                                                                         *)
(* Payloads are told apart by what the file held when they were read: what *)
(* it held when its checksum was taken, or something else.                 *)
(***************************************************************************)
EXTENDS Integers, FiniteSets, FiniteSetsExt

CONSTANTS
    Chunks,      \* expected_chunks: how many the file is cut into
    Loops,       \* runs of _uploadMissingChunks: the upload, presses of resume
    Requests,    \* requests the server works on at a time
    Downloads,   \* download jobs for the object
    MaxFaults,   \* bound: lost answers, aborted transactions, failed downloads
    Nobody       \* the loop of a request nobody waits for

ASSUME BoundsAssumption == Chunks \in Nat \ {0} /\ MaxFaults \in Nat
ASSUME NobodyAssumption == Nobody \notin Loops

VARIABLES
    file,       \* the local file: "hashed", as it was hashed, or "edited"
    session,    \* file_transfer_sessions: status and received_chunks
    chunk,      \* file_transfer_chunks, committed: [Index -> Payload]
    disk,       \* the stored file: [Index -> Payload]
    object,     \* file_storage_objects: the content of its checksum, or None
    request,    \* [Requests -> the request and where it is]
    loop,       \* [Loops -> where the client is, and the chunks it was told to send]
    uploaded,   \* the client's job has status uploaded
    download,   \* [Downloads -> where the job is, its part file, its final file]
    faults,     \* faults so far
    overlapped, \* auxiliary: two requests of the session were under way at once
    torn        \* auxiliary: a request ended while it was writing to the disk

server == <<session, chunk, object>>
client == <<file, loop, uploaded, overlapped>>
vars   == <<file, session, chunk, disk, object, request, loop, uploaded, download,
            faults, overlapped, torn>>

Index    == 1..Chunks
Payload  == {"none", "hashed", "edited"}
Empty    == [i \in Index |-> "none"]
\* What the client's checksum stands for: SHA-256 is taken to be injective.
Declared == [i \in Index |-> "hashed"]
None     == Empty          \* no record, no file: a file has at least one chunk
Contents == [Index -> Payload]

Session  == [status: {"none", "open", "failed", "completed"}, received: 0..Chunks]
Step     == {"idle", "findForChunk", "store", "count", "save",
             "findForComplete", "read", "check", "truncate", "write", "finish"}
Request  == [pc: Step, by: Loops \cup {Nobody}, i: 1..(Chunks + 1), payload: Payload,
             count: 0..Chunks, read: Contents]
Idle     == [pc |-> "idle", by |-> Nobody, i |-> 1, payload |-> "none", count |-> 0,
             read |-> Empty]
Loop     == [pc: {"idle", "list", "next", "wait"}, missing: SUBSET Index]
Stopped  == [pc |-> "idle", missing |-> {}]
Download == [pc: {"idle", "range", "done"}, at: 0..Chunks, part: Contents,
             final: Contents]

Init ==
    /\ file = "hashed"
    /\ session = [status |-> "none", received |-> 0]
    /\ chunk = Empty /\ disk = Empty /\ object = None
    /\ request = [r \in Requests |-> Idle]
    /\ loop = [l \in Loops |-> Stopped]
    /\ uploaded = FALSE
    /\ download = [d \in Downloads |->
                     [pc |-> "idle", at |-> 0, part |-> Empty, final |-> None]]
    /\ faults = 0 /\ overlapped = FALSE /\ torn = FALSE

-----------------------------------------------------------------------------
(* The client's upload loop.                                               *)

Running(l) == loop[l].pc # "idle"

\* uploadFile: hash the file, create the session, go on with the loop.
CreateSession(l) ==
    /\ session.status = "none" /\ file = "hashed"
    /\ session' = [status |-> "open", received |-> 0]
    /\ loop' = [loop EXCEPT ![l].pc = "list"]
    /\ UNCHANGED <<file, chunk, disk, object, request, uploaded, download, faults,
                   overlapped, torn>>

\* resumeUpload.  Jobs that are uploading can be resumed as well (canResume).
Resume(l) ==
    /\ session.status # "none" /\ ~uploaded /\ ~Running(l)
    /\ loop' = [loop EXCEPT ![l].pc = "list"]
    /\ UNCHANGED <<file, session, chunk, disk, object, request, uploaded, download,
                   faults, overlapped, torn>>

Missing == {i \in Index : chunk[i] = "none"}

\* missingUploadChunks: two queries that write nothing.
List(l) ==
    /\ loop[l].pc = "list"
    /\ loop' = [loop EXCEPT ![l] = [pc |-> "next", missing |-> Missing]]
    /\ UNCHANGED <<file, session, chunk, disk, object, request, uploaded, download,
                   faults, overlapped, torn>>

Send(l, r, req) ==
    /\ request[r] = Idle
    /\ request' = [request EXCEPT ![r] = req]
    /\ overlapped' = (overlapped \/ \E q \in Requests : request[q] # Idle)
    /\ UNCHANGED <<file, session, chunk, disk, object, uploaded, download, faults, torn>>

\* The bytes are read from the file as it is now.
SendChunk(l, r) ==
    /\ loop[l].pc = "next" /\ loop[l].missing # {}
    /\ LET i == Min(loop[l].missing) IN
         /\ Send(l, r, [Idle EXCEPT !.pc = "findForChunk", !.by = l, !.i = i,
                                    !.payload = file])
         /\ loop' = [loop EXCEPT ![l] = [pc |-> "wait", missing |-> @.missing \ {i}]]

SendComplete(l, r) ==
    /\ loop[l].pc = "next" /\ loop[l].missing = {}
    /\ Send(l, r, [Idle EXCEPT !.pc = "findForComplete", !.by = l])
    /\ loop' = [loop EXCEPT ![l].pc = "wait"]

\* The answer of request r reaches the loop that waits for it; "ok" goes on,
\* an error ends the run.  Nobody may be waiting any more.
Answer(r, outcome) ==
    /\ request' = [request EXCEPT ![r] = Idle]
    /\ loop' = [l \in Loops |->
                  IF l # request[r].by THEN loop[l]
                  ELSE IF outcome = "ok" THEN [loop[l] EXCEPT !.pc = "next"] ELSE Stopped]
    /\ uploaded' = (uploaded \/ (outcome = "complete" /\ request[r].by # Nobody))
    /\ UNCHANGED <<file, overlapped>>

\* The client gives up (timeout, lost connection, closed app); the server does not.
AnswerLost(l) ==
    /\ Running(l) /\ faults < MaxFaults
    /\ loop' = [loop EXCEPT ![l] = Stopped]
    /\ request' = [r \in Requests |->
                     IF request[r].by = l THEN [request[r] EXCEPT !.by = Nobody]
                     ELSE request[r]]
    /\ faults' = faults + 1
    /\ UNCHANGED <<file, session, chunk, disk, object, uploaded, download, overlapped, torn>>

EditFile ==
    /\ file = "hashed" /\ session.status # "none"
    /\ file' = "edited"
    /\ UNCHANGED <<session, chunk, disk, object, request, loop, uploaded, download,
                   faults, overlapped, torn>>

-----------------------------------------------------------------------------
(* uploadChunk.                                                            *)

Goto(r, step) == request' = [request EXCEPT ![r].pc = step]

TakesChunks == session.status # "completed"

\* A completed session takes no chunk; the client does not look at that answer's ok.
FindForChunk(r) ==
    /\ request[r].pc = "findForChunk"
    /\ \/ ~TakesChunks /\ Answer(r, "ok")
       \/ TakesChunks /\ Goto(r, "store") /\ UNCHANGED client
    /\ UNCHANGED <<session, chunk, disk, object, download, faults, torn>>

Holds(q, i) == request[q].pc \in {"count", "save"} /\ request[q].i = i

\* INSERT .. ON CONFLICT DO UPDATE waits for a transaction that wrote the same chunk.
StoreChunk(r) ==
    /\ request[r].pc = "store"
    /\ ~\E q \in Requests : Holds(q, request[r].i)
    /\ Goto(r, "count")
    /\ UNCHANGED <<file, session, chunk, disk, object, loop, uploaded, download, faults,
                   overlapped, torn>>

\* The aggregate of refreshSessionProgress: its snapshot has what is committed when
\* the statement starts, and the transaction's own chunk.
ReceivedMutant(r) == Cardinality({i \in Index : chunk[i] # "none"})
Received(r) == Cardinality({i \in Index : chunk[i] # "none" \/ i = request[r].i})

CountChunks(r) ==
    /\ request[r].pc = "count"
    /\ request' = [request EXCEPT ![r].pc = "save", ![r].count = Received(r)]
    /\ UNCHANGED <<file, session, chunk, disk, object, loop, uploaded, download, faults,
                   overlapped, torn>>

\* The UPDATE of refreshSessionProgress, which may have waited for the row, and COMMIT.
SaveProgress(r) ==
    /\ request[r].pc = "save"
    /\ chunk' = [chunk EXCEPT ![request[r].i] = request[r].payload]
    /\ session' = [status |-> "open", received |-> request[r].count]
    /\ Answer(r, "ok")
    /\ UNCHANGED <<disk, object, download, faults, torn>>

-----------------------------------------------------------------------------
(* completeUploadSession and writeObjectFromChunks.                        *)

FindForComplete(r) ==
    /\ request[r].pc = "findForComplete"
    /\ \/ /\ session.received < Chunks /\ Answer(r, "missing_chunks")
       \/ /\ session.received >= Chunks /\ Goto(r, "read") /\ UNCHANGED client
    /\ UNCHANGED <<session, chunk, disk, object, download, faults, torn>>

ReadChunks(r) ==
    /\ request[r].pc = "read"
    /\ request' = [request EXCEPT ![r].pc = "check", ![r].read = chunk]
    /\ UNCHANGED <<file, session, chunk, disk, object, loop, uploaded, download, faults,
                   overlapped, torn>>

ChecksumMatchesMutant(r) == \A i \in Index : request[r].read[i] # "none"
ChecksumMatches(r) == request[r].read = Declared

CheckChecksum(r) ==
    /\ request[r].pc = "check"
    /\ \/ /\ ChecksumMatches(r)
          /\ Goto(r, "truncate")
          /\ UNCHANGED <<session, client>>
       \/ /\ ~ChecksumMatches(r)
          /\ session' = [session EXCEPT !.status = "failed"]
          /\ Answer(r, "checksum_mismatch")
    /\ UNCHANGED <<chunk, disk, object, download, faults, torn>>

\* open(targetPath, 'w')
TruncateObject(r) ==
    /\ request[r].pc = "truncate"
    /\ disk' = Empty
    /\ request' = [request EXCEPT ![r].pc = "write", ![r].i = 1]
    /\ UNCHANGED <<file, session, chunk, object, loop, uploaded, download, faults,
                   overlapped, torn>>

\* handle.write(chunk), at the position this handle has reached
WriteObject(r) ==
    /\ request[r].pc = "write"
    /\ LET i == request[r].i IN
         /\ disk' = [disk EXCEPT ![i] = request[r].read[i]]
         /\ request' = [request EXCEPT ![r].i = i + 1,
                                       ![r].pc = IF i = Chunks THEN "finish" ELSE "write"]
    /\ UNCHANGED <<file, session, chunk, object, loop, uploaded, download, faults,
                   overlapped, torn>>

\* INSERT INTO file_storage_objects .. ON CONFLICT DO UPDATE; then the session.
RecordObject(r)    == object' = request[r].read
MarkCompleted == session' = [session EXCEPT !.status = "completed"]

FinishUpload(r) ==
    /\ request[r].pc = "finish"
    /\ RecordObject(r) /\ MarkCompleted
    /\ Answer(r, "complete")
    /\ UNCHANGED <<chunk, disk, download, faults, torn>>

\* A lost connection or a restart: the transaction is rolled back, the disk is not.
Abort(r) ==
    /\ request[r].pc # "idle" /\ faults < MaxFaults
    /\ Answer(r, "error")
    /\ faults' = faults + 1
    /\ torn' = (torn \/ request[r].pc = "write")
    /\ UNCHANGED <<session, chunk, disk, object, download>>

-----------------------------------------------------------------------------
(* The client's download: ranges are appended to a part file.              *)

\* downloadFromServerTransfer and resumeDownload: the part file is taken up again.
StartDownload(d) ==
    /\ object # None /\ download[d].pc = "idle"
    /\ download' = [download EXCEPT ![d].pc = "range"]
    /\ UNCHANGED <<server, client, disk, request, faults, torn>>

NextRangeMutant(d) == download[d].at + 2
NextRange(d) == download[d].at + 1

\* downloadRange, readRange.  A hole before the end of the file reads as zeros.
GetRange(d) ==
    LET i == NextRange(d) IN
    /\ download[d].pc = "range" /\ i <= Chunks
    /\ \E j \in i..Chunks : disk[j] # "none"
    /\ download' = [download EXCEPT ![d].at = i, ![d].part[i] = disk[i]]
    /\ UNCHANGED <<server, client, disk, request, faults, torn>>

\* Past the end of the file it answers no bytes, and the client asks again.
AskAgain(d) ==
    /\ download[d].pc = "range" /\ download[d].at < Chunks
    /\ \A j \in (download[d].at + 1)..Chunks : disk[j] = "none"
    /\ UNCHANGED vars

Intact(d) == download[d].part = object

\* The checksum decides; a part file that fails it stays.
FinishDownload(d) ==
    /\ download[d].pc = "range" /\ download[d].at = Chunks
    /\ \/ /\ Intact(d)
          /\ download' = [download EXCEPT ![d] = [pc |-> "done", at |-> 0, part |-> Empty,
                                                  final |-> download[d].part]]
       \/ /\ ~Intact(d)
          /\ download' = [download EXCEPT ![d].pc = "idle"]
    /\ UNCHANGED <<server, client, disk, request, faults, torn>>

DownloadFails(d) ==
    /\ download[d].pc = "range" /\ faults < MaxFaults
    /\ download' = [download EXCEPT ![d].pc = "idle"]
    /\ faults' = faults + 1
    /\ UNCHANGED <<server, client, disk, request, torn>>

-----------------------------------------------------------------------------
Serve(r) ==
    \/ FindForChunk(r) \/ StoreChunk(r) \/ CountChunks(r) \/ SaveProgress(r)
    \/ FindForComplete(r) \/ ReadChunks(r) \/ CheckChecksum(r)
    \/ TruncateObject(r) \/ WriteObject(r) \/ FinishUpload(r)

Upload(l) == List(l) \/ \E r \in Requests : SendChunk(l, r) \/ SendComplete(l, r)

Fetch(d) == StartDownload(d) \/ GetRange(d) \/ FinishDownload(d)

Done == /\ uploaded /\ \A r \in Requests : request[r] = Idle
        /\ \A l \in Loops : ~Running(l)
        /\ \A d \in Downloads : download[d].pc = "done"
        /\ UNCHANGED vars

Next ==
    \/ \E l \in Loops : CreateSession(l) \/ Resume(l) \/ Upload(l) \/ AnswerLost(l)
    \/ \E r \in Requests : Serve(r) \/ Abort(r)
    \/ \E d \in Downloads : Fetch(d) \/ AskAgain(d) \/ DownloadFails(d)
    \/ EditFile
    \/ Done

\* Requests and loops go on; the user resumes an upload that stopped, and a download.
ResumeStopped == \E l \in Loops : Resume(l) /\ \A k \in Loops : ~Running(k)

TransferSpec == Init /\ [][Next]_vars

TransferFairness ==
    /\ \A r \in Requests : WF_vars(Serve(r))
    /\ \A l \in Loops : WF_vars(Upload(l))
    /\ \A d \in Downloads : WF_vars(Fetch(d))
    /\ WF_vars(ResumeStopped)

-----------------------------------------------------------------------------
TransferTypeOK ==
    /\ file \in {"hashed", "edited"}
    /\ session \in Session
    /\ chunk \in Contents /\ disk \in Contents /\ object \in Contents
    /\ request \in [Requests -> Request]
    /\ loop \in [Loops -> Loop]
    /\ uploaded \in BOOLEAN /\ overlapped \in BOOLEAN /\ torn \in BOOLEAN
    /\ download \in [Downloads -> Download]
    /\ faults \in 0..MaxFaults

\* What is recorded as stored, and what a device keeps as downloaded, is the file the
\* upload was announced with, whatever was sent, resent, edited or lost on the way.
EndToEnd ==
    /\ object # None => object = Declared
    /\ \A d \in Downloads : download[d].final # None => download[d].final = Declared

\* An upload whose file stays as it was gets finished, however often answers are lost and
\* transactions aborted, unless a request was sent before the last one had ended.
UploadFinishes == (session.status = "open") ~> (uploaded \/ overlapped \/ file = "edited")

\* A download that started gets its file, unless the stored file was cut off or two
\* requests wrote it at once.
DownloadFinishes ==
    \A d \in Downloads :
        (download[d].pc = "range") ~> (download[d].pc = "done" \/ torn \/ overlapped)

\* What the theorem needs besides: a completion that passed the check writes what was
\* announced.
RequestShape(q) ==
    q = [pc |-> q.pc, by |-> q.by, i |-> q.i, payload |-> q.payload, count |-> q.count,
         read |-> q.read]
DownloadShape(d) == d = [pc |-> d.pc, at |-> d.at, part |-> d.part, final |-> d.final]
Checked(q) == q.pc \in {"truncate", "write", "finish"} => q.read = Declared

TransferInv ==
    /\ DOMAIN request = Requests /\ DOMAIN download = Downloads
    /\ \A r \in Requests : RequestShape(request[r]) /\ Checked(request[r])
    /\ \A d \in Downloads : DownloadShape(download[d])
    /\ EndToEnd
=============================================================================
