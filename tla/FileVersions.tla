------------------------------ MODULE FileVersions ------------------------------
(***************************************************************************)
(* FileVersionService and KopiaService: snapshots of files are taken and   *)
(* listed into version records, and a version is copied to a path inside   *)
(* one database transaction around a call of the kopia program.  kopia,    *)
(* the disk and a user who works on it are modelled as the service uses    *)
(* them.                                                                   *)
(***************************************************************************)
EXTENDS Integers, FiniteSets

CONSTANTS
    VersionedFiles,  \* file ids, each with its path
    SnapshotIds,     \* snapshots kopia may take
    CopyTargets,     \* target paths
    Copies,          \* downloads of version copies, each with its request row
    Listings,        \* refreshes of versions that may run side by side
    FileConflicts,   \* file_conflict_candidates
    MaxUserFiles     \* bound: files the user puts at targets

ASSUME VersionBounds == MaxUserFiles \in Nat

VARIABLES
    taken,       \* kopia's repository: <<file, snapshot>>
    records,     \* file_version_records by version_uid: <<file, snapshot>>
    listing,     \* [Listings -> what kopia listed and what is upserted]
    copy,        \* [Copies -> where the transaction is]
    copyRow,     \* file_version_download_requests, committed
    disk,        \* [CopyTargets -> what is there]
    putFiles,    \* auxiliary: targets where the user put a file before any copy
    fileConflict \* status of each

versionVars == <<taken, records, listing, copy, copyRow, disk, putFiles, fileConflict>>

VersionUids == VersionedFiles \X SnapshotIds
RequestStates == {"none", "pending_confirmation", "running", "completed", "failed"}
NoRow     == [status |-> "none", target |-> "none"]
NoListing == [pc |-> "idle", file |-> "none", todo |-> {}, saved |-> {}]
NoCopy == [pc |-> "idle", uid |-> <<>>, target |-> "none"]

VersionsInit ==
    /\ taken = {} /\ records = {}
    /\ listing = [l \in Listings |-> NoListing]
    /\ copy = [c \in Copies |-> NoCopy]
    /\ copyRow = [c \in Copies |-> NoRow]
    /\ disk = [t \in CopyTargets |-> "none"]
    /\ putFiles = {}
    /\ fileConflict = [k \in FileConflicts |-> "none"]

-----------------------------------------------------------------------------
(* createKopiaSnapshot: kopia's work stays, whatever is answered. *)
CreateKopiaSnapshot(f, s) ==
    /\ <<f, s>> \notin taken /\ taken' = taken \cup {<<f, s>>}
    /\ UNCHANGED <<records, listing, copy, copyRow, disk, putFiles, fileConflict>>

(* buildKopiaVersionUid: file, snapshot and path. *)
VersionUid(f, s) == <<f, s>>

(* refreshKopiaVersions: kopia lists, then one transaction upserts. *)
ListSnapshots(l, f) ==
    /\ listing[l].pc = "idle"
    /\ listing' = [listing EXCEPT ![l] = [NoListing EXCEPT !.pc = "save", !.file = f,
                                            !.todo = {v \in taken : v[1] = f}]]
    /\ UNCHANGED <<taken, records, copy, copyRow, disk, putFiles, fileConflict>>

SaveVersion(l, v) ==
    /\ listing[l].pc = "save" /\ v \in listing[l].todo
    /\ listing' = [listing EXCEPT ![l].todo = @ \ {v},
                                  ![l].saved = @ \cup {VersionUid(v[1], v[2])}]
    /\ UNCHANGED <<taken, records, copy, copyRow, disk, putFiles, fileConflict>>

RefreshEnds(l) ==
    /\ listing[l].pc = "save"
    /\ \/ listing[l].todo = {} /\ records' = records \cup listing[l].saved
       \/ UNCHANGED records        \* kopia or a statement fails: the audit alone is written
    /\ listing' = [listing EXCEPT ![l] = NoListing]
    /\ UNCHANGED <<taken, copy, copyRow, disk, putFiles, fileConflict>>

-----------------------------------------------------------------------------
(* createVersionDownloadRequest: nothing ever takes such a request up. *)
CreateVersionDownloadRequest(c) ==
    /\ copyRow[c] = NoRow /\ copy[c].pc = "idle" /\ records # {}
    /\ \E t \in CopyTargets :
         copyRow' = [copyRow EXCEPT ![c] = [status |-> "pending_confirmation", target |-> t]]
    /\ UNCHANGED <<taken, records, listing, copy, disk, putFiles, fileConflict>>

(* downloadVersionCopy inserts its row as 'running', for itself to see ... *)
BeginCopy(c, u, t) ==
    /\ copyRow[c] = NoRow /\ copy[c].pc = "idle" /\ u \in records
    /\ copy' = [copy EXCEPT ![c] = [pc |-> "stat", uid |-> u, target |-> t]]
    /\ UNCHANGED <<copyRow, taken, records, listing, disk, putFiles, fileConflict>>

TargetIsFreeMutant(t) == TRUE

(* ... kopia is called only for a target that is not there ... *)
TargetIsFree(t) == disk[t] = "none"

StatTarget(c) ==
    /\ copy[c].pc = "stat"
    /\ copy' = [copy EXCEPT ![c].pc = IF TargetIsFree(copy[c].target) THEN "restore" ELSE "failed"]
    /\ UNCHANGED <<taken, records, listing, copyRow, disk, putFiles, fileConflict>>

(* ... it writes the file, or fails or runs out of time with a part of it ... *)
Restore(c) ==
    /\ copy[c].pc = "restore"
    /\ \/ /\ disk' = [disk EXCEPT ![copy[c].target] = "copy"]
          /\ copy' = [copy EXCEPT ![c].pc = "completed"]
       \/ /\ disk' \in {disk, [disk EXCEPT ![copy[c].target] = "part"]}
          /\ copy' = [copy EXCEPT ![c].pc = "failed"]
    /\ UNCHANGED <<taken, records, listing, copyRow, putFiles, fileConflict>>

(* ... and what came of it is committed with the row, or is lost with it: a
   statement fails, the connection or the process ends. *)
CommitCopy(c) ==
    /\ copy[c].pc \in {"completed", "failed"}
    /\ copyRow' = [copyRow EXCEPT ![c] = [status |-> copy[c].pc, target |-> copy[c].target]]
    /\ copy' = [copy EXCEPT ![c] = NoCopy]
    /\ UNCHANGED <<taken, records, listing, disk, putFiles, fileConflict>>

LoseCopy(c) ==
    /\ copy[c].pc # "idle"
    /\ copy' = [copy EXCEPT ![c] = NoCopy]
    /\ UNCHANGED <<taken, records, listing, copyRow, disk, putFiles, fileConflict>>

(* The user puts a file where no copy is on its way. *)
PutFile(t) ==
    /\ disk[t] = "none" /\ \A c \in Copies : copy[c].pc = "restore" => copy[c].target # t
    /\ Cardinality(putFiles) < MaxUserFiles
    /\ disk' = [disk EXCEPT ![t] = "user"] /\ putFiles' = putFiles \cup {t}
    /\ UNCHANGED <<taken, records, listing, copy, copyRow, fileConflict>>

-----------------------------------------------------------------------------
(* createConflict, resolveConflict: WHERE status = 'open' is looked at again
   when the row was held by another resolution. *)
CreateFileConflict(k) ==
    /\ fileConflict[k] = "none" /\ fileConflict' = [fileConflict EXCEPT ![k] = "open"]
    /\ UNCHANGED <<taken, records, listing, copy, copyRow, disk, putFiles>>

ResolveFileConflict(k) ==
    /\ fileConflict[k] = "open"
    /\ fileConflict' = [fileConflict EXCEPT ![k] = "resolved"]
    /\ UNCHANGED <<taken, records, listing, copy, copyRow, disk, putFiles>>

VersionsNext ==
    \/ \E f \in VersionedFiles, s \in SnapshotIds : CreateKopiaSnapshot(f, s)
    \/ \E l \in Listings : \/ RefreshEnds(l)
                           \/ \E f \in VersionedFiles : ListSnapshots(l, f)
                           \/ \E v \in VersionUids : SaveVersion(l, v)
    \/ \E c \in Copies : \/ CreateVersionDownloadRequest(c) \/ StatTarget(c) \/ Restore(c)
                         \/ CommitCopy(c) \/ LoseCopy(c)
                         \/ \E u \in VersionUids, t \in CopyTargets : BeginCopy(c, u, t)
    \/ \E t \in CopyTargets : PutFile(t)
    \/ \E k \in FileConflicts : CreateFileConflict(k) \/ ResolveFileConflict(k)

VersionsSpec == VersionsInit /\ [][VersionsNext]_versionVars

-----------------------------------------------------------------------------
(* Properties *)

VersionsTypeOK ==
    /\ taken \subseteq VersionUids /\ records \subseteq taken
    /\ copyRow \in [Copies -> [status: RequestStates, target: CopyTargets \cup {"none"}]]
    /\ disk \in [CopyTargets -> {"none", "user", "part", "copy"}]
    /\ fileConflict \in [FileConflicts -> {"none", "open", "resolved"}]

(* A copy never takes the place of a file of the user's, and a request tells
   what came of it: nobody ever sees one 'running', whatever ended it, and
   what reads 'completed' has a file at its target. *)
CopiesKeepFiles ==
    /\ \A t \in putFiles : disk[t] = "user"
    /\ \A c \in Copies :
         /\ copyRow[c].status # "running"
         /\ copyRow[c].status = "completed" => disk[copyRow[c].target] \notin {"none", "user"}

(* What the theorem needs besides: kopia is called for no target where a file
   of the user's is, and what it wrote is there until the row says so. *)
CopiesInv ==
    /\ DOMAIN disk = CopyTargets /\ putFiles \subseteq CopyTargets
    /\ DOMAIN copyRow = Copies /\ DOMAIN copy = Copies
    /\ \A c \in Copies :
         /\ copy[c].pc \in {"idle", "stat", "restore", "completed", "failed"}
         /\ copy[c].pc # "idle" => copy[c].target \in CopyTargets
         /\ copy[c].pc = "restore" => disk[copy[c].target] # "user"
         /\ copy[c].pc = "completed" => disk[copy[c].target] \notin {"none", "user"}
         /\ copyRow[c].status = "completed" => copyRow[c].target \in CopyTargets
    /\ CopiesKeepFiles
=============================================================================
