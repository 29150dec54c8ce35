---------------------------- MODULE ClientImport ----------------------------
(***************************************************************************)
(* ClientService: remote settings and the import of a device's snapshot.   *)
(* A session is prepared, shown with its conflicts, and confirmed or       *)
(* cancelled, perhaps from two windows at once.  confirmImport is one      *)
(* transaction that locks the session's row and imports object by object;  *)
(* each object is looked up and then written, while others edit objects.   *)
(***************************************************************************)
EXTENDS Integers, FiniteSets

CONSTANTS
    Imports,       \* client_import_sessions
    Confirms,      \* confirm requests that may run side by side
    Imported,      \* uids of the objects in the snapshots
    SettingKeys,   \* config keys of the snapshots' settings
    DeviceKeys,    \* those with a device-local prefix
    MaxImportSteps \* bound: requests and edits

ASSUME ImportBounds == MaxImportSteps \in Nat /\ DeviceKeys \subseteq SettingKeys

VARIABLES
    session,      \* client_import_sessions: status, snapshot, conflicts shown
    confirm,      \* [Confirms -> where the transaction is]
    live,         \* sync_objects by uid: is there a live row, how often written
    setting,      \* admin_remote_configs: the version of each key
    imports,      \* auxiliary: how often a session's import was committed
    importSteps

importVars == <<session, confirm, live, setting, imports, importSteps>>

SessionStates == {"none", "needs_confirmation", "importing", "completed", "cancelled"}
NoSession == [status |-> "none", objects |-> {}, removed |-> {}, conflicts |-> {}]
NoConfirm == [pc |-> "idle", import |-> 0, todo |-> {}, found |-> FALSE, object |-> "none",
              wrote |-> {}]

ImportInit ==
    /\ session = [s \in Imports |-> NoSession]
    /\ confirm = [c \in Confirms |-> NoConfirm]
    /\ live \in [Imported -> [is: BOOLEAN, version: {0}]]
    /\ setting = [k \in SettingKeys |-> 0]
    /\ imports = [s \in Imports |-> 0]
    /\ importSteps = 0

ImportStep == importSteps < MaxImportSteps /\ importSteps' = importSteps + 1
Bumped(o) == [is |-> TRUE, version |-> live[o].version + 1]

-----------------------------------------------------------------------------
(* createLocalSnapshotImport: the conflicts are what is live now; some rows of
   the snapshot carry a deletedAt. *)
CreateLocalSnapshotImport(s) ==
    /\ ImportStep /\ session[s].status = "none"
    /\ \E objects \in SUBSET Imported \ {{}} : \E removed \in SUBSET objects :
         session' = [session EXCEPT ![s] =
                       [status |-> "needs_confirmation", objects |-> objects, removed |-> removed,
                        conflicts |-> {o \in objects : live[o].is}]]
    /\ UNCHANGED <<confirm, live, setting, imports>>

RowIsFreeMutant(s) == TRUE

(* SELECT ... FOR UPDATE: one transaction at a time holds the session. *)
RowIsFree(s) == \A c \in Confirms : confirm[c].pc = "idle" \/ confirm[c].import # s

(* confirmImport answers at once for a session that is missing, completed or
   cancelled; otherwise it sets 'importing' and goes on. *)
ConfirmImport(c, s) ==
    /\ ImportStep /\ confirm[c].pc = "idle" /\ RowIsFree(s)
    /\ session[s].status \in {"needs_confirmation", "importing"}
    /\ confirm' = [confirm EXCEPT ![c] = [NoConfirm EXCEPT !.pc = "next", !.import = s,
                                                           !.todo = session[s].objects]]
    /\ UNCHANGED <<session, live, setting, imports>>

ImportLookup(c, o) ==
    /\ confirm[c].pc = "next" /\ o \in confirm[c].todo
    /\ confirm' = [confirm EXCEPT ![c].pc = "write", ![c].object = o, ![c].found = live[o].is,
                                  ![c].todo = @ \ {o}]
    /\ UNCHANGED <<session, live, setting, imports, importSteps>>

(* importObject: an object that was there is updated if it still is, and
   then stays live whatever the snapshot says; one that was not is inserted
   if no other row has taken the uid meanwhile, as a tombstone if the
   snapshot has it removed. *)
PendingElsewhere(c, o) == \E d \in Confirms \ {c} : o \in confirm[d].wrote

LivesAfter(c, o) ==
    IF confirm[c].found THEN live[o].is ELSE o \notin session[confirm[c].import].removed

ImportObject(c) ==
    LET o == confirm[c].object
    IN  /\ confirm[c].pc = "write" /\ ~PendingElsewhere(c, o)
        /\ \/ confirm[c].found
           \/ o \in session[confirm[c].import].removed
           \/ ~live[o].is
        /\ confirm' = [confirm EXCEPT ![c].pc = "next",
                         ![c].wrote = IF LivesAfter(c, o) THEN @ \cup {o} ELSE @]
        /\ UNCHANGED <<session, live, setting, imports, importSteps>>

(* The settings, the session's end and the commit.  A device's own keys are
   not taken. *)
CommitImport(c) ==
    LET s == confirm[c].import
    IN  /\ confirm[c].pc = "next" /\ confirm[c].todo = {}
        /\ live' = [o \in Imported |->
                      IF o \in confirm[c].wrote THEN Bumped(o) ELSE live[o]]
        /\ setting' = [k \in SettingKeys |-> IF k \in DeviceKeys THEN setting[k] ELSE setting[k] + 1]
        /\ session' = [session EXCEPT ![s].status = "completed"]
        /\ imports' = [imports EXCEPT ![s] = @ + 1]
        /\ confirm' = [confirm EXCEPT ![c] = NoConfirm]
        /\ UNCHANGED importSteps

(* A failed statement (a uid that was taken meanwhile), a lost connection. *)
RollbackImport(c) ==
    /\ confirm[c].pc # "idle"
    /\ confirm' = [confirm EXCEPT ![c] = NoConfirm]
    /\ UNCHANGED <<session, live, setting, imports, importSteps>>

(* cancelImport waits for the row; it answers 'cancelled' in any case. *)
MayCancel(s) == session[s].status # "completed"

CancelImport(s) ==
    /\ ImportStep /\ session[s].status # "none" /\ RowIsFree(s)
    /\ session' = IF MayCancel(s) THEN [session EXCEPT ![s].status = "cancelled"] ELSE session
    /\ UNCHANGED <<confirm, live, setting, imports>>

(* updateSetting takes any key. *)
UpdateSetting(k) ==
    /\ ImportStep
    /\ setting' = [setting EXCEPT ![k] = @ + 1]
    /\ UNCHANGED <<session, confirm, live, imports>>

(* Others write and delete objects that no import holds. *)
EditObject(o) ==
    /\ ImportStep /\ \A c \in Confirms : o \notin confirm[c].wrote
    /\ live' = [live EXCEPT ![o] = [is |-> ~@.is, version |-> @.version + 1]]
    /\ UNCHANGED <<session, confirm, setting, imports>>

ImportNext ==
    \/ \E s \in Imports : CreateLocalSnapshotImport(s) \/ CancelImport(s)
    \/ \E c \in Confirms, s \in Imports : ConfirmImport(c, s)
    \/ \E c \in Confirms, o \in Imported : ImportLookup(c, o)
    \/ \E c \in Confirms : ImportObject(c) \/ CommitImport(c) \/ RollbackImport(c)
    \/ \E k \in SettingKeys : UpdateSetting(k)
    \/ \E o \in Imported : EditObject(o)

ImportSpec == ImportInit /\ [][ImportNext]_importVars

-----------------------------------------------------------------------------
(* Properties *)

(* A session is imported once when it is 'completed' and not at all
   otherwise: two confirmations and a cancellation that meet neither import
   twice, nor leave what a failed one wrote, nor cancel what was imported. *)
ImportedOnce ==
    \A s \in Imports : imports[s] = IF session[s].status = "completed" THEN 1 ELSE 0

(* What the theorem needs besides: a transaction that holds the row of a
   session holds it alone, and the session is not finished meanwhile. *)
HeldAlone ==
    \A c, d \in Confirms :
        confirm[c].pc # "idle" /\ confirm[d].pc # "idle" /\ confirm[c].import = confirm[d].import
            => c = d

HeldIsOpen ==
    \A c \in Confirms : confirm[c].pc # "idle" =>
        confirm[c].import \in Imports /\ session[confirm[c].import].status = "needs_confirmation"

(* 'importing' is written and overwritten by one transaction. *)
NoneIsImporting == \A s \in Imports : session[s].status # "importing"

ImportInv ==
    /\ DOMAIN session = Imports /\ DOMAIN imports = Imports /\ DOMAIN confirm = Confirms
    /\ ImportedOnce /\ HeldAlone /\ HeldIsOpen /\ NoneIsImporting
=============================================================================
