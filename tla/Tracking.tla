------------------------------ MODULE Tracking ------------------------------
(***************************************************************************)
(* TrackingUploadService of the client and TrackingService of the server.  *)
(* A device exports its rows of one kind, sends them in chunks of one      *)
(* batch, completes the batch, and deletes the rows the answer accepts.    *)
(* Answers may be lost; the server may fail or stop within a completion.   *)
(***************************************************************************)
EXTENDS Integers, Sequences, FiniteSets, SequencesExt

CONSTANTS
    Trackers,       \* devices of one user
    RowIds,         \* local ids of rows, a set of numbers
    RecordRows,     \* those that are activity_records, the rest are logs
    Refused,        \* rows the server does not take (unknown objectType)
    Batches,        \* tracking_ingest_batches, a set of numbers
    ExportLimit,    \* limitPerKind: 2000
    ChunkSize,      \* 200
    SampleLimit     \* 10: rejected records an answer lists

ASSUME TrackingBounds ==
    /\ RowIds \subseteq Nat /\ IsFiniteSet(RowIds) /\ "activity-record" \notin Trackers
    /\ RecordRows \subseteq RowIds /\ Refused \subseteq RowIds
    /\ Batches \subseteq Nat /\ ExportLimit \in Nat \ {0} /\ ChunkSize \in Nat \ {0}
    /\ SampleLimit \in Nat

VARIABLES
    row,         \* [Trackers -> [RowIds -> the local row]]
    ended,       \* auxiliary: records whose end the tracker has seen
    quarantine,  \* [Trackers -> rows in tracking_upload_quarantine]
    upload,      \* [Trackers -> where uploadPending is]
    batch,       \* tracking_ingest_batches with their chunks
    stored       \* sync_objects of the tracking types, by uid

trackVars == <<row, ended, quarantine, upload, batch, stored>>

RowStates   == {"absent", "open", "final", "deleted"}
BatchStates == {"none", "open", "receiving", "processing", "completed",
                "completed_with_rejections", "failed"}
Kinds       == {"activity_record", "log"}
KindOf(r)   == IF r \in RecordRows THEN "activity_record" ELSE "log"
NoUpload    == [pc |-> "idle", rows |-> <<>>, batch |-> 0, sent |-> 0, answer |-> {}, accepted |-> 0]
NoBatch     == [status |-> "none", device |-> "none", chunks |-> {}]

(* _activityRecordToPayload names a record by its local id; the logs and
   input events carry a uid of their own. *)
Uid(d, r) == IF KindOf(r) = "activity_record" THEN <<"activity-record", r>> ELSE <<d, r>>

Uids == {Uid(d, r) : d \in Trackers, r \in RowIds}

TrackInit ==
    /\ row = [d \in Trackers |-> [r \in RowIds |-> "absent"]]
    /\ ended = [d \in Trackers |-> {}]
    /\ quarantine = [d \in Trackers |-> {}]
    /\ upload = [d \in Trackers |-> NoUpload]
    /\ batch = [b \in Batches |-> NoBatch]
    /\ stored = [u \in Uids |-> [from |-> "none", state |-> "absent"]]

-----------------------------------------------------------------------------
(* The tracker: a record is inserted open and ends later; a log is final. *)

Track(d, r) ==
    /\ row[d][r] = "absent" /\ \A q \in RowIds : q < r => row[d][q] # "absent"
    /\ row' = [row EXCEPT ![d][r] = IF r \in RecordRows THEN "open" ELSE "final"]
    /\ UNCHANGED <<ended, quarantine, upload, batch, stored>>

(* endRecord does nothing when the row is gone. *)
EndRecord(d, r) ==
    /\ r \in RecordRows /\ r \notin ended[d] /\ row[d][r] \in {"open", "deleted"}
    /\ ended' = [ended EXCEPT ![d] = @ \cup {r}]
    /\ row' = [row EXCEPT ![d][r] = IF @ = "open" THEN "final" ELSE @]
    /\ UNCHANGED <<quarantine, upload, batch, stored>>

-----------------------------------------------------------------------------
(* The upload of one kind *)

Pending(d, kind) ==
    {r \in RowIds : KindOf(r) = kind /\ row[d][r] \in {"open", "final"} /\ r \notin quarantine[d]}

(* Oldest first, as many as one export takes. *)
Oldest(ids, rows) ==
    /\ \A i, j \in DOMAIN ids : i < j => ids[i] < ids[j]
    /\ \A r \in rows : r \in Range(ids) \/ \A i \in DOMAIN ids : ids[i] < r

ExportSize(rows) == IF Cardinality(rows) < ExportLimit THEN Cardinality(rows) ELSE ExportLimit

(* The rows are read as they are now and sent as they were read. *)
CreateBatch(d, b, kind) ==
    /\ upload[d].pc = "idle" /\ Pending(d, kind) # {} /\ batch[b].status = "none"
    /\ \A c \in Batches : c < b => batch[c].status # "none"
    /\ \E ids \in [1..ExportSize(Pending(d, kind)) -> Pending(d, kind)] :
         /\ Oldest(ids, Pending(d, kind))
         /\ upload' = [upload EXCEPT ![d] =
              [NoUpload EXCEPT !.pc = "chunks", !.batch = b,
                 !.rows = [i \in DOMAIN ids |-> [id |-> ids[i], state |-> row[d][ids[i]]]]]]
    /\ batch' = [batch EXCEPT ![b] = [NoBatch EXCEPT !.status = "open", !.device = d]]
    /\ UNCHANGED <<row, ended, quarantine, stored>>

AppendChunk(d) ==
    LET u    == upload[d]
        last == IF u.sent + ChunkSize < Len(u.rows) THEN u.sent + ChunkSize ELSE Len(u.rows)
    IN  /\ u.pc = "chunks" /\ u.sent < Len(u.rows)
        /\ batch[u.batch].status \in {"open", "receiving"}
        /\ batch' = [batch EXCEPT ![u.batch].status = "receiving",
                                  ![u.batch].chunks = @ \cup {u.rows[i] : i \in (u.sent + 1)..last}]
        /\ upload' = [upload EXCEPT ![d].sent = last]
        /\ UNCHANGED <<row, ended, quarantine, stored>>

(* completeBatch marks the batch before it reads the chunks. *)
MarkProcessing(d) ==
    /\ upload[d].pc = "chunks" /\ upload[d].sent = Len(upload[d].rows)
    /\ batch' = [batch EXCEPT ![upload[d].batch].status = "processing"]
    /\ upload' = [upload EXCEPT ![d].pc = "completing"]
    /\ UNCHANGED <<row, ended, quarantine, stored>>

Taken(b)    == {c \in batch[b].chunks : c.id \notin Refused}
RejectedOf(b) == {c \in batch[b].chunks : c.id \in Refused}
Duplicates(b) == {c \in Taken(b) : stored[Uid(batch[b].device, c.id)].from # "none"}

(* The transaction: the payloads are merged into what has the same uid, the
   newer one on top. *)
CompleteBatch(d) ==
    LET b == upload[d].batch
        uids == {Uid(d, c.id) : c \in Taken(b)}
    IN  /\ upload[d].pc = "completing"
        /\ stored' = [x \in Uids |->
                        IF x \in uids
                        THEN [from |-> d, state |-> (CHOOSE c \in Taken(b) : Uid(d, c.id) = x).state]
                        ELSE stored[x]]
        /\ batch' = [batch EXCEPT ![b].status =
                       IF RejectedOf(b) = {} /\ Duplicates(b) = {}
                       THEN "completed" ELSE "completed_with_rejections"]
        /\ \E samples \in SUBSET {c.id : c \in RejectedOf(b)} :
             /\ Cardinality(samples) = IF Cardinality(RejectedOf(b)) < SampleLimit
                                       THEN Cardinality(RejectedOf(b)) ELSE SampleLimit
             /\ \/ upload' = [upload EXCEPT ![d].pc = "answered", ![d].answer = samples,
                                            ![d].accepted = Cardinality(Taken(b))]
                \/ upload' = [upload EXCEPT ![d] = NoUpload]  \* the answer is lost
        /\ UNCHANGED <<row, ended, quarantine>>

(* A chunk does not decode; a failed transaction or a stop leaves
   'processing'; any request of the upload fails: the rows stay. *)
UploadFails(d) ==
    LET b == upload[d].batch
    IN  /\ upload[d].pc \in {"chunks", "completing"}
        /\ \/ upload[d].pc = "completing" /\ batch' = [batch EXCEPT ![b].status = "failed"]
           \/ UNCHANGED batch
        /\ upload' = [upload EXCEPT ![d] = NoUpload]
        /\ UNCHANGED <<row, ended, quarantine, stored>>

AcceptedIdsMutant(u) == {u.rows[i].id : i \in {j \in DOMAIN u.rows : j <= u.accepted}}

(* _applyCompletionCleanup: the first rows, as many as were accepted, that
   are not known as rejected. *)
AcceptedIds(u) ==
    LET kept == {i \in DOMAIN u.rows : u.rows[i].id \notin u.answer}
    IN  {u.rows[i].id : i \in {j \in kept : Cardinality({k \in kept : k <= j}) <= u.accepted}}

Cleanup(d) ==
    LET u == upload[d]
        rejected == Cardinality(RejectedOf(u.batch))
        keepsAll == rejected > 0 /\ (u.accepted = 0 \/ u.answer = {})
    IN  /\ u.pc = "answered"
        /\ quarantine' = IF keepsAll THEN quarantine ELSE [quarantine EXCEPT ![d] = @ \cup u.answer]
        /\ row' = IF keepsAll THEN row
                  ELSE [row EXCEPT ![d] = [r \in RowIds |-> IF r \in AcceptedIds(u)
                                                            THEN "deleted" ELSE @[r]]]
        /\ upload' = [upload EXCEPT ![d] = NoUpload]
        /\ UNCHANGED <<ended, batch, stored>>

TrackNext ==
    \E d \in Trackers :
        \/ \E r \in RowIds : Track(d, r) \/ EndRecord(d, r)
        \/ \E b \in Batches, k \in Kinds : CreateBatch(d, b, k)
        \/ AppendChunk(d) \/ MarkProcessing(d) \/ CompleteBatch(d) \/ UploadFails(d) \/ Cleanup(d)

TrackSpec == TrackInit /\ [][TrackNext]_trackVars

-----------------------------------------------------------------------------
(* Properties *)

TrackTypeOK ==
    /\ row \in [Trackers -> [RowIds -> RowStates]]
    /\ \A b \in Batches : batch[b].status \in BatchStates
    /\ \A d \in Trackers : quarantine[d] \subseteq RowIds /\ upload[d].sent <= Len(upload[d].rows)

(* A log or an input event the device no longer holds is on the server, as
   the device wrote it, whichever answers were lost and whichever records
   the server refused (up to as many as an answer lists). *)
LogsArrive ==
    \A d \in Trackers, r \in RowIds \ RecordRows :
        row[d][r] = "deleted" => stored[Uid(d, r)] = [from |-> d, state |-> "final"]

(* The same of an activity record that has ended:
   activity_records_table.dart:9 has the row keep its "Total duration after
   the record is finalized", and the upload deletes "accepted source rows". *)
RecordsArrive ==
    \A d \in Trackers, r \in RecordRows :
        row[d][r] = "deleted" /\ r \in ended[d]
            => stored[Uid(d, r)] = [from |-> d, state |-> "final"]

(* What the theorem needs besides: a batch is of one upload and holds the rows
   it has sent so far, a log is final when it is sent, and an answer lists every
   row the server refused. *)
RowRecord == [id: RowIds, state: RowStates]

UploadOK(d) ==
    LET u == upload[d]
        b == u.batch
    IN  /\ b \in Batches /\ batch[b].device = d /\ batch[b].status # "none"
        /\ u.rows \in Seq(RowRecord) /\ u.sent \in 0..Len(u.rows)
        /\ \A i \in 1..Len(u.rows) : u.rows[i].id \notin RecordRows => u.rows[i].state = "final"
        /\ \A i, j \in 1..Len(u.rows) : u.rows[i].id = u.rows[j].id => i = j
        /\ batch[b].chunks = {u.rows[i] : i \in 1..u.sent}
        /\ u.pc \in {"completing", "answered"} => u.sent = Len(u.rows)
        /\ u.pc = "answered" =>
             /\ u.answer = {c.id : c \in RejectedOf(b)}
             /\ \A c \in Taken(b) : c.id \notin RecordRows =>
                  stored[Uid(d, c.id)] = [from |-> d, state |-> "final"]

LogsInv ==
    /\ row \in [Trackers -> [RowIds -> RowStates]]
    /\ \A d \in Trackers, r \in RowIds \ RecordRows : row[d][r] # "open"
    /\ DOMAIN upload = Trackers /\ DOMAIN batch = Batches
    /\ \A d \in Trackers :
         upload[d] = [pc |-> upload[d].pc, rows |-> upload[d].rows, batch |-> upload[d].batch,
                      sent |-> upload[d].sent, answer |-> upload[d].answer,
                      accepted |-> upload[d].accepted]
    /\ \A b \in Batches :
         batch[b] = [status |-> batch[b].status, device |-> batch[b].device,
                     chunks |-> batch[b].chunks]
    /\ \A d \in Trackers : upload[d].pc # "idle" => UploadOK(d)
    /\ LogsArrive
=============================================================================
