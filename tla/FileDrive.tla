------------------------------ MODULE FileDrive ------------------------------
(***************************************************************************)
(* FilesService and FileTreeService: the drive.  A root is a folder of the *)
(* server; scans turn it into file_nodes; uploads and registrations give a *)
(* node a storage object; devices keep copies, push the nodes they have    *)
(* cached, and ask whether a copy may be opened or must be downloaded.     *)
(*                                                                         *)
(* A scan reads the disk file by file and applies what it read in one      *)
(* transaction; the other requests are one transaction each.  What an      *)
(* upload or a download does on its way is in FileTransfer.                *)
(***************************************************************************)
EXTENDS Integers, FiniteSets

CONSTANTS
    Shared,      \* files of the shared folder
    Uploaded,    \* names under the root that uploads give
    Devices,
    Bytes,
    NoContent,
    Objects,     \* ids of file_storage_objects
    NoObject,
    Scans,       \* scan requests that may run side by side
    MaxRoots,    \* bound: how often the root is registered anew
    MaxRequests, \* bound: requests, edits
    MaxScanFaults    \* bound: crashes, failed transactions of a scan

ASSUME NoContentAssumption == NoContent \notin Bytes
ASSUME NoObjectAssumption == NoObject \notin Objects \cup Shared \cup Uploaded
ASSUME DisjointAssumption == Shared \cap Uploaded = {}
ASSUME DriveBounds == MaxRoots \in Nat /\ MaxRequests \in Nat /\ MaxScanFaults \in Nat

VARIABLES
    folder,        \* [Shared -> content, or NoContent when removed]
    root,        \* id of the file_roots row, 0 when there is none
    roots,       \* ids given so far
    status,      \* scan_status of the root
    node,        \* file_nodes
    stored,      \* file_storage_objects
    location,    \* file_node_device_locations: [Devices -> [Nodes -> path]]
    copy,        \* the file on the device
    cache,       \* file_nodes of the device's database: what it saw last
    scan,        \* [Scans -> where the request is]
    newest,      \* auxiliary: the content the server stored last for a node
    stale,       \* auxiliary: nodes whose hash an older source has overwritten
    requests, scanFaults

tables == <<root, roots, status, node, stored, location>>
device == <<copy, cache>>
ghosts == <<newest, stale>>
driveVars == <<folder, root, roots, status, node, stored, location, copy, cache, scan, newest,
               stale, requests, scanFaults>>

Nodes    == Shared \cup Uploaded
\* local_path: NULL, below the root, or on a device.
Paths    == {"none", "server", "own"}
Hashes   == Bytes \cup {NoContent}
Node     == [root: 0..MaxRoots, path: Paths, hash: Hashes, object: Objects \cup {NoObject}]
NoNode   == [root |-> 0, path |-> "none", hash |-> NoContent, object |-> NoObject]
\* node: metadata.fileNodeId.
Object   == [content: Hashes, node: Nodes \cup {NoObject}]
Unstored == [content |-> NoContent, node |-> NoObject]
Cached   == [root: 0..MaxRoots, path: Paths, hash: Hashes]
Scan     == [pc: {"idle", "read", "apply"}, root: 0..MaxRoots, todo: SUBSET Shared,
             seen: SUBSET Shared]
NoScan   == [pc |-> "idle", root |-> 0, todo |-> {}, seen |-> {}]

DriveInit ==
    /\ folder \in [Shared -> Bytes]
    /\ root = 0 /\ roots = 0 /\ status = "idle"
    /\ node = [f \in Nodes |-> NoNode]
    /\ stored = [o \in Objects |-> Unstored]
    /\ location = [d \in Devices |-> [f \in Nodes |-> "none"]]
    /\ copy = [d \in Devices |-> [f \in Nodes |-> NoContent]]
    /\ cache = [d \in Devices |-> [f \in Nodes |-> [root |-> 0, path |-> "none",
                                                    hash |-> NoContent]]]
    /\ scan = [s \in Scans |-> NoScan]
    /\ newest = [f \in Nodes |-> NoContent] /\ stale = {}
    /\ requests = 0 /\ scanFaults = 0

DriveRequest ==
    /\ requests < MaxRequests
    /\ requests' = requests + 1

Exists(f) == node[f].root # 0

-----------------------------------------------------------------------------
(* What happens outside the server.                                        *)

EditShared(f) ==
    /\ DriveRequest
    /\ \E c \in Hashes \ {folder[f]} : folder' = [folder EXCEPT ![f] = c]
    /\ UNCHANGED <<tables, device, scan, ghosts, scanFaults>>

EditCopy(d, f) ==
    /\ DriveRequest
    /\ \E c \in Bytes \ {copy[d][f]} : copy' = [copy EXCEPT ![d][f] = c]
    /\ UNCHANGED <<folder, tables, cache, scan, ghosts, scanFaults>>

-----------------------------------------------------------------------------
(* Roots and scans.                                                        *)

UpsertRoot ==
    /\ DriveRequest
    /\ root = 0 /\ roots < MaxRoots
    /\ root' = roots + 1 /\ roots' = roots + 1
    /\ status' = "idle"
    /\ UNCHANGED <<folder, node, stored, location, device, scan, ghosts, scanFaults>>

\* REFERENCES file_roots ON DELETE CASCADE.
Cascaded(f) == node[f].root = root

\* The storage objects stay; their metadata names nodes that are gone.
DeleteDriveRoot ==
    /\ DriveRequest
    /\ root # 0
    /\ root' = 0 /\ status' = "idle"
    /\ node' = [f \in Nodes |-> IF Cascaded(f) THEN NoNode ELSE node[f]]
    /\ location' = [d \in Devices |->
                      [f \in Nodes |-> IF Cascaded(f) THEN "none" ELSE location[d][f]]]
    /\ stored' = [o \in Objects |->
                    IF stored[o].node # NoObject /\ Cascaded(stored[o].node)
                    THEN [stored[o] EXCEPT !.node = NoObject] ELSE stored[o]]
    /\ newest' = [f \in Nodes |-> IF Cascaded(f) THEN NoContent ELSE newest[f]]
    /\ stale' = stale \ {f \in Nodes : Cascaded(f)}
    /\ UNCHANGED <<folder, roots, device, scan, scanFaults>>

\* readdir lists what is there; stat comes later, file by file.
ScanDriveRoot(s) ==
    /\ DriveRequest
    /\ scan[s].pc = "idle" /\ root # 0
    /\ status' = "scanning"
    /\ LET there == {f \in Shared : folder[f] # NoContent} IN
         scan' = [scan EXCEPT ![s] = [pc |-> "read", root |-> root, todo |-> there,
                                      seen |-> {}]]
    /\ UNCHANGED <<folder, root, roots, node, stored, location, device, ghosts, scanFaults>>

FailedStatusMutant == status
FailedStatus == "failed"

CollectLocalNode(s) ==
    /\ scan[s].pc = "read"
    /\ \/ /\ scan[s].todo = {}
          /\ scan' = [scan EXCEPT ![s].pc = "apply"]
          /\ UNCHANGED status
       \/ \E f \in scan[s].todo :
            /\ folder[f] # NoContent
            /\ scan' = [scan EXCEPT ![s].todo = @ \ {f}, ![s].seen = @ \cup {f}]
            /\ UNCHANGED status
       \/ \E f \in scan[s].todo :
            /\ folder[f] = NoContent
            /\ status' = IF root = scan[s].root THEN FailedStatus ELSE status
            /\ scan' = [scan EXCEPT ![s] = NoScan]
    /\ UNCHANGED <<folder, root, roots, node, stored, location, device, ghosts, requests,
                   scanFaults>>

\* Otherwise the INSERT of a node violates its foreign key, and all is rolled back.
RootIsThere(id) == id = root

\* applyNodeSnapshot with the scan's nodes: no node of a removed file is touched, every
\* node's hash becomes NULL, and the device that asked for the scan counts as having it.
ApplyScan(s, d) ==
    LET fresh(f) == f \in scan[s].seen IN
    /\ scan[s].pc = "apply"
    /\ scan' = [scan EXCEPT ![s] = NoScan]
    /\ IF RootIsThere(scan[s].root)
       THEN /\ node' = [f \in Nodes |->
                          IF fresh(f) THEN [node[f] EXCEPT !.root = scan[s].root,
                                              !.path = "server", !.hash = NoContent]
                          ELSE node[f]]
            /\ location' = [location EXCEPT ![d] =
                              [f \in Nodes |-> IF fresh(f) THEN "server" ELSE @[f]]]
            /\ status' = "completed"
            /\ stale' = stale \ scan[s].seen
       ELSE UNCHANGED <<node, location, status, stale>>
    /\ UNCHANGED <<folder, root, roots, stored, device, newest, requests, scanFaults>>

\* The transaction is outside the try block that would set 'failed'.
ApplyFails(s) ==
    /\ scan[s].pc = "apply" /\ scanFaults < MaxScanFaults
    /\ scan' = [scan EXCEPT ![s] = NoScan]
    /\ scanFaults' = scanFaults + 1
    /\ UNCHANGED <<folder, tables, device, ghosts, requests>>

Crash ==
    /\ scanFaults < MaxScanFaults
    /\ \E s \in Scans : scan[s].pc # "idle"
    /\ scan' = [s \in Scans |-> NoScan]
    /\ scanFaults' = scanFaults + 1
    /\ UNCHANGED <<folder, tables, device, ghosts, requests>>

-----------------------------------------------------------------------------
(* Storage objects.                                                        *)

Free == {o \in Objects : stored[o].content = NoContent}
NewObject == CHOOSE o \in Free : TRUE

UploadedHashMutant(f, c) == IF node[f].hash = NoContent THEN c ELSE node[f].hash
\* hash_sha256 = EXCLUDED.hash_sha256
UploadedHash(f, c) == c

\* completeUploadSession of a session whose metadata names the root.
CompleteUpload(f, c) ==
    /\ DriveRequest
    /\ root # 0 /\ Free # {}
    /\ stored' = [stored EXCEPT ![NewObject] = [content |-> c, node |-> f]]
    /\ node' = [node EXCEPT ![f] = [@ EXCEPT !.root = root, !.hash = UploadedHash(f, c),
                                             !.object = NewObject]]
    /\ newest' = [newest EXCEPT ![f] = c]
    /\ stale' = stale \ {f}
    /\ UNCHANGED <<folder, root, roots, status, location, device, scan, scanFaults>>

\* hash_sha256 = COALESCE(hash_sha256, ..): a second registration keeps the old hash.
RegisterStorageObject(d, f) ==
    /\ DriveRequest
    /\ Exists(f) /\ folder[f] # NoContent /\ Free # {}
    /\ stored' = [stored EXCEPT ![NewObject] = [content |-> folder[f], node |-> NoObject]]
    /\ node' = [node EXCEPT ![f].object = NewObject,
                            ![f].hash = IF @ = NoContent THEN folder[f] ELSE @]
    /\ location' = [location EXCEPT ![d][f] = "server"]
    /\ newest' = [newest EXCEPT ![f] = folder[f]]
    /\ stale' = IF node[f].hash \in {NoContent, folder[f]} THEN stale ELSE stale \cup {f}
    /\ UNCHANGED <<folder, root, roots, status, device, scan, scanFaults>>

-----------------------------------------------------------------------------
(* Devices.                                                                *)

\* refreshDriveNodes: an empty path keeps the one the device had.
RefreshDriveNodes(d) ==
    /\ DriveRequest
    /\ cache' = [cache EXCEPT ![d] = [f \in Nodes |->
                   IF Exists(f)
                   THEN [root |-> node[f].root, hash |-> node[f].hash,
                         path |-> IF location[d][f] = "none" THEN @[f].path
                                  ELSE location[d][f]]
                   ELSE @[f]]]
    /\ UNCHANGED <<folder, tables, copy, scan, ghosts, scanFaults>>

\* _pushLocalSnapshotToDrive: every node the device has cached, as it was then.
PushLocalSnapshot(d) ==
    LET pushed == {f \in Nodes : cache[d][f].root # 0} IN
    /\ DriveRequest
    /\ \A f \in pushed : RootIsThere(cache[d][f].root)
    /\ node' = [f \in Nodes |->
                  IF f \in pushed THEN [node[f] EXCEPT !.root = cache[d][f].root,
                                          !.path = cache[d][f].path,
                                          !.hash = cache[d][f].hash]
                  ELSE node[f]]
    /\ location' = [location EXCEPT ![d] = [f \in Nodes |->
                      IF f \in pushed /\ cache[d][f].path # "none" THEN cache[d][f].path
                      ELSE @[f]]]
    /\ stale' = stale \cup {f \in pushed : cache[d][f].hash \notin {NoContent, newest[f]}}
    /\ status' = IF root = 0 THEN status ELSE "completed"
    /\ UNCHANGED <<folder, root, roots, stored, device, scan, newest, scanFaults>>

RelinkDriveNode(d, f) ==
    /\ DriveRequest
    /\ Exists(f) /\ copy[d][f] # NoContent
    /\ node' = [node EXCEPT ![f].path = "own"]
    /\ location' = [location EXCEPT ![d][f] = "own"]
    /\ UNCHANGED <<folder, root, roots, status, stored, device, scan, ghosts, scanFaults>>

\* The objects driveNode joins; LIMIT 1 takes any of them.
Candidates(f) ==
    {o \in Objects : /\ stored[o].content # NoContent
                     /\ \/ o = node[f].object \/ stored[o].node = f
                        \/ stored[o].content = node[f].hash}

NodeHashes(f) ==
    IF node[f].hash # NoContent THEN {node[f].hash} ELSE {stored[o].content : o \in Candidates(f)}

\* driveOpenPlan answers open_local when the copy's hash is the node's.
MayOpenLocal(d, f) ==
    /\ Exists(f)
    /\ copy[d][f] \in NodeHashes(f)

OpenLocal(d, f) ==
    /\ DriveRequest
    /\ MayOpenLocal(d, f)
    /\ location' = [location EXCEPT ![d][f] = "own"]
    /\ UNCHANGED <<folder, root, roots, status, node, stored, device, scan, ghosts, scanFaults>>

\* What a download request may deliver: an object, or the file below the root.
Deliverable(f) ==
    IF Candidates(f) # {} THEN {stored[o].content : o \in Candidates(f)}
    ELSE IF f \in Shared /\ node[f].path = "server" THEN {folder[f]} \ {NoContent} ELSE {}

DownloadNode(d, f) ==
    /\ DriveRequest
    /\ Exists(f)
    /\ \E c \in Deliverable(f) : copy' = [copy EXCEPT ![d][f] = c]
    /\ location' = [location EXCEPT ![d][f] = "own"]
    /\ UNCHANGED <<folder, root, roots, status, node, stored, cache, scan, ghosts, scanFaults>>

-----------------------------------------------------------------------------
ScanStep(s) == CollectLocalNode(s) \/ \E d \in Devices : ApplyScan(s, d)

DriveNext ==
    \/ UpsertRoot \/ DeleteDriveRoot \/ Crash
    \/ \E s \in Scans : ScanDriveRoot(s) \/ ScanStep(s) \/ ApplyFails(s)
    \/ \E f \in Shared : EditShared(f) \/ \E d \in Devices : RegisterStorageObject(d, f)
    \/ \E f \in Uploaded, c \in Bytes : CompleteUpload(f, c)
    \/ \E d \in Devices : RefreshDriveNodes(d) \/ PushLocalSnapshot(d)
    \/ \E d \in Devices, f \in Nodes :
         EditCopy(d, f) \/ RelinkDriveNode(d, f) \/ OpenLocal(d, f) \/ DownloadNode(d, f)

DriveSpec == DriveInit /\ [][DriveNext]_driveVars

\* A scan that was started goes on by itself.
DriveFairness == \A s \in Scans : WF_driveVars(ScanStep(s))

-----------------------------------------------------------------------------
\* A device is never told to open a copy in place of what the server stored last for the
\* node.  The exceptions: a second registration, which keeps the first one's hash, and a
\* device that pushes the hash it saw before an upload.
OpensNewest ==
    \A d \in Devices, f \in Nodes \ stale : MayOpenLocal(d, f) => copy[d][f] = newest[f]

\* A scan comes to an end that its status tells, whatever happens to the files and the
\* root meanwhile, unless the server stops or the transaction fails.
ScanSettles == (status = "scanning") ~> (status # "scanning" \/ scanFaults > 0)

\* What the theorem needs besides: nodes are of the root that is there, an upload's node has a
\* hash wherever it is told, and a node's object holds what was stored last for it.
DriveTypes ==
    /\ node \in [Nodes -> Node] /\ stored \in [Objects -> Object] /\ scan \in [Scans -> Scan]
    /\ cache \in [Devices -> [Nodes -> Cached]] /\ location \in [Devices -> [Nodes -> Paths]]
    /\ folder \in [Shared -> Hashes] /\ newest \in [Nodes -> Hashes]
    /\ root \in 0..roots /\ roots \in 0..MaxRoots
    /\ \A s \in Scans : scan[s].pc # "idle" => scan[s].root # 0

NodeFits(f) ==
    /\ Exists(f) => node[f].root = root
    /\ ~Exists(f) => node[f].object = NoObject /\ newest[f] = NoContent
    /\ Exists(f) /\ f \notin stale /\ node[f].hash # NoContent => node[f].hash = newest[f]
    /\ f \in Uploaded /\ Exists(f) => node[f].hash # NoContent

ObjectFits(f) ==
    node[f].object # NoObject =>
        /\ stored[node[f].object].content # NoContent
        /\ f \in Shared => stored[node[f].object].content = newest[f]

CacheFits(d, f) ==
    /\ cache[d][f].root <= roots
    /\ cache[d][f].root = root /\ root # 0 /\ f \in Uploaded => cache[d][f].hash # NoContent

DriveInv ==
    /\ DriveTypes
    /\ \A f \in Nodes : NodeFits(f) /\ ObjectFits(f)
    /\ \A d \in Devices, f \in Nodes : CacheFits(d, f)
    /\ \A o \in Objects : stored[o].node \notin Shared
=============================================================================
