-------------------------------- MODULE Devices --------------------------------
(***************************************************************************)
(* DevicesService for one user: registration, heartbeats, revocation, and  *)
(* ensureDevice, with which every other request begins.  Each request is a *)
(* sequence of statements of its own, without a transaction.  A device     *)
(* calls itself by a uuid; its row may have that id, or one that the       *)
(* server drew when the device registered.                                 *)
(***************************************************************************)
EXTENDS Integers

CONSTANTS
    Clients,          \* the uuids that devices call themselves by
    DrawnIds,         \* the uuids the server may draw
    DeviceRequests,   \* requests that may run side by side
    MaxDeviceSteps    \* bound: requests

ASSUME IdsAssumption ==
    /\ Clients \cap DrawnIds = {}
    /\ "none" \notin Clients \cup DrawnIds

VARIABLES
    device,      \* devices: [DeviceIds -> the row or NoDevice]
    beat,        \* the age of last_heartbeat_at of each row
    request,     \* [DeviceRequests -> where the request is]
    requestsMade

deviceVars == <<device, beat, request, requestsMade>>

DeviceIds == Clients \cup DrawnIds
NoDevice  == [client |-> "none", stored |-> "offline", revoked |-> FALSE]
Ages      == {"never", "90 seconds", "10 minutes", "older"}
RequestKinds     == {"register", "heartbeat", "ensure", "revoke"}

(* late is history: the device was revoked before the request began. *)
NoRequest == [pc |-> "idle", kind |-> "none", client |-> "none", id |-> "none",
              target |-> "none", late |-> FALSE, answer |-> "none"]

DevicesInit ==
    /\ device = [i \in DeviceIds |-> NoDevice]
    /\ beat = [i \in DeviceIds |-> "never"]
    /\ request = [q \in DeviceRequests |-> NoRequest]
    /\ requestsMade = 0

Rows        == {i \in DeviceIds : device[i] # NoDevice}
RowsOf(c)   == {i \in Rows : device[i].client = c}
Revoked(c)  == \E i \in RowsOf(c) : device[i].revoked
\* What a device may call itself by: its own uuid or an id it was answered.
IdsOf(c)    == {c} \cup RowsOf(c)
Undrawn     == DrawnIds \ (Rows \cup {request[q].id : q \in DeviceRequests})

ClientIsTakenMutant(c) == FALSE

(* UNIQUE(user_id, client_device_id) *)
ClientIsTaken(c) == RowsOf(c) # {}

Free(q)      == request[q].pc \in {"idle", "answered"}
Moves(q, to) == request' = [request EXCEPT ![q] = to]
Answers(q, a) == Moves(q, [request[q] EXCEPT !.pc = "answered", !.answer = a])

-----------------------------------------------------------------------------
(* register: lookup by the client's id, upsert, connection event. *)

RegisterLookup(q, c) ==
    /\ Free(q) /\ requestsMade < MaxDeviceSteps
    /\ requestsMade' = requestsMade + 1
    /\ LET begun == [NoRequest EXCEPT !.kind = "register", !.client = c, !.late = Revoked(c)]
       IN  \/ Revoked(c) /\ Moves(q, [begun EXCEPT !.pc = "answered", !.answer = "revoked"])
           \/ \E i \in RowsOf(c) : ~Revoked(c) /\ Moves(q, [begun EXCEPT !.pc = "upsert", !.id = i])
           \/ \E i \in Undrawn : ~ClientIsTaken(c) /\ Moves(q, [begun EXCEPT !.pc = "upsert", !.id = i])
    /\ UNCHANGED <<device, beat>>

(* ON CONFLICT (user_id, client_device_id): the row that is there stays, and
   the request keeps the id it drew. *)
RegisterUpsert(q) ==
    LET c == request[q].client
        row == IF ClientIsTaken(c) THEN CHOOSE i \in RowsOf(c) : TRUE ELSE request[q].id
    IN  /\ request[q].kind = "register" /\ request[q].pc = "upsert"
        /\ device' = [device EXCEPT ![row] = [@ EXCEPT !.client = c, !.stored = "online"]]
        /\ beat' = [beat EXCEPT ![row] = "90 seconds"]
        /\ Moves(q, [request[q] EXCEPT !.pc = "event"])
        /\ UNCHANGED requestsMade

(* recordConnectionEvent: its device_id refers to devices. *)
EventRefers(id) == id \in Rows

RegisterEvent(q) ==
    /\ request[q].kind = "register" /\ request[q].pc = "event"
    /\ Answers(q, IF EventRefers(request[q].id) THEN "online" ELSE "error")
    /\ UNCHANGED <<device, beat, requestsMade>>

-----------------------------------------------------------------------------
(* heartbeat and ensureDevice: lookup by id, insert what is missing. *)

LookupDevice(q, c, id) ==
    /\ Free(q) /\ requestsMade < MaxDeviceSteps
    /\ requestsMade' = requestsMade + 1 /\ id \in IdsOf(c)
    /\ \E kind \in RequestKinds \ {"register"}, target \in Rows \cup {c} :
         LET begun == [NoRequest EXCEPT !.kind = kind, !.client = c, !.id = id,
                                        !.target = target, !.late = Revoked(c)]
         IN  Moves(q, IF device[id].revoked THEN [begun EXCEPT !.pc = "answered", !.answer = "revoked"]
                      ELSE IF id \in Rows /\ kind # "heartbeat" THEN [begun EXCEPT !.pc = "act"]
                      ELSE [begun EXCEPT !.pc = "insert"])
    /\ UNCHANGED <<device, beat>>

(* The inserted row has its own id for its client's; ON CONFLICT (id) does
   not catch a row of that client under another id. *)
InsertDevice(q) ==
    LET id == request[q].id
    IN  /\ request[q].pc = "insert"
        /\ \/ id \in Rows /\ Moves(q, [request[q] EXCEPT !.pc = "act"]) /\ UNCHANGED device
           \/ /\ id \notin Rows /\ ~ClientIsTaken(id)
              /\ device' = [device EXCEPT ![id] = [NoDevice EXCEPT !.client = id]]
              /\ Moves(q, [request[q] EXCEPT !.pc = "act"])
           \/ id \notin Rows /\ ClientIsTaken(id) /\ Answers(q, "error") /\ UNCHANGED device
        /\ UNCHANGED <<beat, requestsMade>>

(* heartbeat's UPDATE does not look at revoked_at again. *)
HeartbeatUpdate(q) ==
    LET id == request[q].id
    IN  /\ request[q].kind = "heartbeat" /\ request[q].pc = "act"
        /\ \E status \in {"online", "degraded"} : device' = [device EXCEPT ![id].stored = status]
        /\ beat' = [beat EXCEPT ![id] = "90 seconds"]
        /\ Answers(q, "online")
        /\ UNCHANGED requestsMade

EnsureDevice(q) ==
    /\ request[q].kind = "ensure" /\ request[q].pc = "act"
    /\ Answers(q, "online")
    /\ UNCHANGED <<device, beat, requestsMade>>

(* revoke: revoked_at keeps its first value and is never taken back. *)
Revoke(q) ==
    LET id == request[q].target
    IN  /\ request[q].kind = "revoke" /\ request[q].pc = "act"
        /\ device' = IF id \in Rows
                     THEN [device EXCEPT ![id].stored = "revoked", ![id].revoked = TRUE]
                     ELSE device
        /\ Answers(q, IF id \in Rows THEN "online" ELSE "error")
        /\ UNCHANGED <<beat, requestsMade>>

(* A statement fails, or the server stops: what was written stays. *)
FailDeviceRequest(q) ==
    /\ ~Free(q)
    /\ Answers(q, "error")
    /\ UNCHANGED <<device, beat, requestsMade>>

TimePasses(i) ==
    /\ beat[i] \in {"90 seconds", "10 minutes"}
    /\ beat' = [beat EXCEPT ![i] = IF @ = "90 seconds" THEN "10 minutes" ELSE "older"]
    /\ UNCHANGED <<device, request, requestsMade>>

DevicesNext ==
    \/ \E q \in DeviceRequests, c \in Clients :
         RegisterLookup(q, c) \/ \E id \in DeviceIds : LookupDevice(q, c, id)
    \/ \E q \in DeviceRequests :
         \/ RegisterUpsert(q) \/ RegisterEvent(q) \/ InsertDevice(q) \/ HeartbeatUpdate(q)
         \/ EnsureDevice(q) \/ Revoke(q) \/ FailDeviceRequest(q)
    \/ \E i \in DeviceIds : TimePasses(i)

DevicesSpec == DevicesInit /\ [][DevicesNext]_deviceVars

-----------------------------------------------------------------------------
(* What the list shows: the stored status is not asked. *)
ConnectionStatus(i) ==
    IF device[i].revoked THEN "revoked"
    ELSE CASE beat[i] = "never" -> "offline"
           [] beat[i] = "90 seconds" -> "online"
           [] beat[i] = "10 minutes" -> "degraded"
           [] beat[i] = "older" -> "offline"

(* Properties *)

DeviceSteps == {"idle", "upsert", "event", "insert", "act", "answered"}

DeviceRequest ==
    [pc: DeviceSteps, kind: RequestKinds \cup {"none"}, client: Clients \cup {"none"},
     id: DeviceIds \cup {"none"}, target: DeviceIds \cup {"none"}, late: BOOLEAN,
     answer: {"none", "revoked", "online", "error"}]

DevicesTypeOK ==
    /\ \A i \in Rows : device[i].client \in Clients
    /\ device \in [DeviceIds -> [client: Clients \cup {"none"}, revoked: BOOLEAN,
                                 stored: {"offline", "online", "degraded", "revoked"}]]
    /\ beat \in [DeviceIds -> Ages]
    /\ request \in [DeviceRequests -> DeviceRequest]

(* A revoked device does not get in again under any of the ids it has: a
   request that began after the revocation is refused or fails, registration
   and heartbeat alike, whatever requests from before still write; and it is
   listed as revoked though such a heartbeat stores 'online'. *)
RevokedStaysOut ==
    /\ \A q \in DeviceRequests :
         request[q].pc = "answered" /\ request[q].late => request[q].answer \in {"revoked", "error"}
    /\ \A c \in Clients : Revoked(c) =>
         \A i \in RowsOf(c) : ConnectionStatus(i) = "revoked"

(* What the theorem needs besides: a client has one row, under its own uuid
   or a drawn id; a drawn id is one request's until it has its row; and a
   late request can only fail, at the row it would insert a second time. *)
OneRowEach == \A i, j \in Rows : device[i].client = device[j].client => i = j
OwnIdsOwnRows == \A i \in Rows \cap Clients : device[i].client = i

UpsertsKnow ==
    \A q \in DeviceRequests : request[q].kind = "register" /\ request[q].pc = "upsert" =>
        /\ request[q].client \in Clients
        /\ \/ request[q].id \in RowsOf(request[q].client)
           \/ /\ request[q].id \in DrawnIds \ Rows
              /\ \A p \in DeviceRequests \ {q} : request[p].id # request[q].id

InsertsKnow ==
    \A q \in DeviceRequests :
        /\ request[q].pc = "insert" =>
              \/ request[q].id \in Rows
              \/ request[q].id \in Clients /\ request[q].id = request[q].client
        /\ request[q].kind = "heartbeat" /\ request[q].pc = "act" => request[q].id \in Rows

LateOnesFail ==
    \A q \in DeviceRequests : request[q].late /\ request[q].pc # "answered" =>
        /\ request[q].pc = "insert" /\ request[q].id = request[q].client
        /\ request[q].id \notin Rows /\ ClientIsTaken(request[q].id)

LateAnswers ==
    \A q \in DeviceRequests :
        request[q].pc = "answered" /\ request[q].late => request[q].answer \in {"revoked", "error"}

DevicesInv ==
    /\ DevicesTypeOK /\ OneRowEach /\ OwnIdsOwnRows
    /\ UpsertsKnow /\ InsertsKnow /\ LateOnesFail /\ LateAnswers
=============================================================================
