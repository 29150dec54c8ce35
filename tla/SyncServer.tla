----------------------------- MODULE SyncServer -----------------------------
(***************************************************************************)
(* The server side of synchronisation: SyncService (push, pull, ack,       *)
(* resolveConflict, purgeStaleMutations) and the object writes of          *)
(* WebService, over the four tables they share.  Each request that writes  *)
(* is one PostgreSQL transaction under READ COMMITTED; a session runs its  *)
(* statements one by one, so the steps of two requests interleave exactly  *)
(* where two connections of the pool can.                                  *)
(*                                                                         *)
(* What is kept: which statement reads or writes which row, the row locks  *)
(* an UPDATE or INSERT holds until the transaction ends, the unique index  *)
(* on live uids, the foreign key of sync_mutations, the sequence behind    *)
(* sync_changes.id, and rollback.  What is abstracted: a payload is a      *)
(* function from Fields to the write that last set the field; a uuid is    *)
(* the next unused number.                                                 *)
(***************************************************************************)
EXTENDS Integers, Sequences, FiniteSets

CONSTANTS
    Sessions,        \* connections of the pool that run transactions
    Devices,         \* devices of one user
    Readers,         \* the devices among them that pull
    Writes,          \* writes users make: a mutation uid, or a web/client request
    Author,          \* [Writes -> Devices]: the device that makes the write
    Via,             \* [Writes -> {"push", "web"}]: the endpoint it goes through
    Patch,           \* [Writes -> SUBSET Fields]: the payload fields it carries
    Outlook,         \* writes whose payload marks it as Outlook, read-only
    MaxObject,       \* bound: rows ever created in sync_objects
    Uids, Fields,
    Priority,        \* [1..MaxObject -> 0..3]: the pull priority of its type
    Blank,           \* a payload field nobody has set; also "no uid"
    Strategies,      \* strategies users pick when they resolve a conflict
    Overlap,         \* TRUE: a retry may start while the first delivery still runs
    MaxBatch,        \* bound: mutations in one push (200 in the code)
    MaxRequests,     \* bound: writing requests ever begun
    MaxPurges,       \* bound: purges of the mutation log
    PageLimit        \* LIMIT of a pull

Objects  == 1..MaxObject
NoObject == 0

ASSUME BoundsAssumption ==
    /\ MaxObject \in Nat /\ MaxBatch \in Nat /\ MaxRequests \in Nat
    /\ MaxPurges \in Nat /\ PageLimit \in Nat \ {0}
ASSUME WritesAssumption ==
    /\ Devices # {}
    /\ Author \in [Writes -> Devices]
    /\ Via \in [Writes -> {"push", "web"}]
    /\ Patch \in [Writes -> SUBSET Fields]
    /\ Priority \in [Objects -> 0..3]
    /\ Readers \subseteq Devices
    /\ Blank \notin Writes
    /\ Blank \notin Uids
ASSUME SwitchAssumption ==
    /\ Strategies \subseteq {"use_local", "use_server", "keep_both", "ignore"}
    /\ Overlap \in BOOLEAN

VARIABLES
    rows,       \* sync_objects: [Objects -> Row], committed
    changes,    \* sync_changes: a set of Change, committed
    outcomes,   \* sync_mutations: [Writes -> Outcome], committed
    conflicts,  \* sync_conflicts: a sequence of Conflict, committed
    seq,        \* last value handed out by the sequence of sync_changes.id
    intent,     \* [Writes -> Intent]: what the user asked for
    pc,         \* [Sessions -> next statement of the session]
    job,        \* [Sessions -> Job]: the request it serves
    todo,       \* [Sessions -> Seq(Writes)]: mutations of the request still to do
    target,     \* [Sessions -> Objects \cup {NoObject}]: findTargetObject's answer
    seen,       \* [Sessions -> Row]: the row as that SELECT returned it
    draft,      \* [Sessions -> partial Objects -> Row]: rows written, and locked
    logged,     \* [Sessions -> set of Change]: inserted, uncommitted
    noted,      \* [Sessions -> partial Writes -> Outcome]: inserted, uncommitted
    raised,     \* [Sessions -> Seq(Conflict)]: inserted, uncommitted
    replies,    \* [Sessions -> set of Answer]: the response being built
    answers,    \* every answer a device was ever given
    cursor,     \* [Devices -> Nat]: the device's pull cursor
    got,        \* [Devices -> set of change ids the device was ever given]
    begun,      \* writing requests begun
    purges      \* purges run

tables  == <<rows, changes, outcomes, conflicts>>
devices == <<cursor, got>>
private == <<draft, logged, noted, raised>>
bounds  == <<begun, purges>>
vars == <<tables, seq, intent, pc, job, todo, target, seen, private, replies,
          answers, devices, bounds>>

-----------------------------------------------------------------------------
(* Rows, payloads and the records of the tables                            *)

Row == [state   : {"absent", "live", "deleted", "purged"},
        uid     : Uids \cup {Blank},
        version : Nat,
        payload : [Fields -> Writes \cup {Blank}]]

EmptyPayload == [f \in Fields |-> Blank]
AbsentRow == [state |-> "absent", uid |-> Blank, version |-> 0, payload |-> EmptyPayload]
PurgedRow == [AbsentRow EXCEPT !.state = "purged"]

\* by is auxiliary: the write that made the change (sync_changes has no such column).
Change   == [id : Nat \ {0}, obj : Objects, device : Devices, version : Nat,
             action : {"upsert", "delete"}, by : Writes \cup {Blank},
             payload : [Fields -> Writes \cup {Blank}]]
Outcome  == [result : {"none", "accepted", "conflict", "rejected"},
             obj : Objects \cup {NoObject}]
Conflict == [write : Writes \cup {Blank}, obj : Objects, version : Nat,
             status : {"open", "resolved"}]
Answer   == [write : Writes, result : {"accepted", "conflict", "rejected"},
             obj : Objects \cup {NoObject}, version : Nat]
Intent   == [issued : BOOLEAN, action : {"upsert", "delete"},
             obj : Objects \cup {NoObject}, uid : Uids \cup {Blank}, base : Nat]
Job      == [kind : {"none", "push", "create", "update", "delete", "resolve"},
             device : Devices, writes : SUBSET Writes, conflict : Nat,
             strategy : Strategies \cup {"none"}]

NotRecorded == [result |-> "none", obj |-> NoObject]
NotIssued   == [issued |-> FALSE, action |-> "upsert", obj |-> NoObject,
                uid |-> Blank, base |-> 0]
NoJob       == [kind |-> "none", device |-> CHOOSE d \in Devices : TRUE,
                writes |-> {}, conflict |-> 0, strategy |-> "none"]

Exists(r) == r.state \in {"live", "deleted"}

\* payload || patch
Merge(payload, w) == [f \in Fields |-> IF f \in Patch[w] THEN w ELSE payload[f]]

\* f with f[x] = v, whether or not x was in its domain
Put(f, x, v) == [y \in DOMAIN f \cup {x} |-> IF y = x THEN v ELSE f[y]]
Nothing == [x \in {} |-> x]

-----------------------------------------------------------------------------
(* What a statement of session s sees, and what makes it wait              *)

Visible(s, o) == IF o \in DOMAIN draft[s] THEN draft[s][o] ELSE rows[o]
Locked(s, o) == \E t \in Sessions \ {s} : o \in DOMAIN draft[t]
OutcomeOf(s, w) == IF w \in DOMAIN noted[s] THEN noted[s][w] ELSE outcomes[w]

LiveWith(u, s) == {o \in Objects : Visible(s, o).state = "live" /\ Visible(s, o).uid = u}

\* sync_objects_user_type_uid_idx: another live row has the uid ...
UidTaken(s, u, o) == u # Blank /\ LiveWith(u, s) \ {o} # {}
\* ... or a transaction still running has written such a row: the statement waits.
UidPending(s, u, o) ==
    /\ u # Blank
    /\ \E t \in Sessions \ {s} : \E p \in DOMAIN draft[t] \ {o} :
          \E r \in {draft[t][p], rows[p]} : r.state = "live" /\ r.uid = u

Unused == {o \in Objects : rows[o].state = "absent"
                           /\ \A t \in Sessions : o \notin DOMAIN draft[t]}
FreshObject == CHOOSE o \in Unused : TRUE

W(s) == Head(todo[s])

-----------------------------------------------------------------------------
(* What users ask for, and the requests that carry it                      *)

\* A user edits on a device that knows object o at its current version: a new
\* object (o = NoObject), or a patch or deletion whose base is that version
\* (0: the device sends no base).
Edit(w, a, o, u, b) ==
    /\ ~intent[w].issued
    /\ Via[w] = "web" /\ o = NoObject => a = "upsert"
    /\ IF o = NoObject THEN u # Blank /\ b = 0
                       ELSE Exists(rows[o]) /\ u = rows[o].uid /\ b \in {0, rows[o].version}
    /\ intent' = [intent EXCEPT ![w] = [issued |-> TRUE, action |-> a, obj |-> o,
                                        uid |-> u, base |-> b]]
    /\ UNCHANGED <<tables, seq, pc, job, todo, target, seen, private, replies,
                   answers, devices, bounds>>

InFlight == UNION {job[s].writes : s \in Sessions}

Begin(s, j, writes, statement, obj) ==
    /\ pc[s] = "idle"
    /\ begun < MaxRequests
    /\ \A w \in j.writes : intent[w].issued
    /\ Overlap \/ j.writes \cap InFlight = {}
    /\ job' = [job EXCEPT ![s] = j]
    /\ todo' = [todo EXCEPT ![s] = writes]
    /\ pc' = [pc EXCEPT ![s] = statement]
    /\ target' = [target EXCEPT ![s] = obj]
    /\ begun' = begun + 1
    /\ UNCHANGED <<tables, seq, intent, seen, private, replies, answers, devices, purges>>

\* POST /sync/push: a first delivery or a retry, each mutation once per batch.
BeginPush(s, batch) ==
    LET writes == {batch[i] : i \in DOMAIN batch} IN
    /\ \A i, j \in DOMAIN batch : i # j => batch[i] # batch[j]
    /\ \A w \in writes : Via[w] = "push" /\ Author[w] = Author[batch[1]]
    /\ Begin(s, [kind |-> "push", device |-> Author[batch[1]], writes |-> writes,
                 conflict |-> 0, strategy |-> "none"], batch, "lookup", NoObject)

WebKind(w) == IF intent[w].obj = NoObject THEN "create"
              ELSE IF intent[w].action = "delete" THEN "delete" ELSE "update"

\* createObject and updateObject read before they write; deleteObject does not.
BeginWeb(s, w) ==
    /\ Via[w] = "web"
    /\ Begin(s, [kind |-> WebKind(w), device |-> Author[w], writes |-> {w},
                 conflict |-> 0, strategy |-> "none"], <<w>>,
             IF WebKind(w) = "delete" THEN "write" ELSE "find", intent[w].obj)

BeginResolve(s, d, c, strategy) ==
    Begin(s, [kind |-> "resolve", device |-> d, writes |-> {}, conflict |-> c,
              strategy |-> strategy], <<conflicts[c].write>>, "find", NoObject)

-----------------------------------------------------------------------------
(* Statements of a push                                                    *)

\* After a mutation is dealt with: the next one, or COMMIT.
NextMutation(s) ==
    /\ todo' = [todo EXCEPT ![s] = Tail(@)]
    /\ pc' = [pc EXCEPT ![s] = IF Len(todo[s]) = 1 THEN "commit" ELSE "lookup"]

Reply(s, result, obj, version) ==
    replies' = [replies EXCEPT ![s] =
        @ \cup {[write |-> W(s), result |-> result, obj |-> obj, version |-> version]}]

ProcessedHereMutant(s) == W(s) \in DOMAIN noted[s]   \* only this batch is looked at
Processed(s) == OutcomeOf(s, W(s)).result # "none"

\* findProcessedMutation finds nothing.
LookupMiss(s) ==
    /\ pc[s] = "lookup" /\ ~Processed(s)
    /\ pc' = [pc EXCEPT ![s] = "find"]
    /\ UNCHANGED <<tables, seq, intent, job, todo, target, seen, private, replies,
                   answers, devices, bounds>>

\* It finds a row: the answer is rebuilt from it.  The version of an accepted
\* answer is read through the LEFT JOIN, from the object as it is now; the
\* conflict, when its row is still there, from sync_conflicts.
Replay(s) ==
    LET outcome == OutcomeOf(s, W(s))
        known   == {c \in {conflicts[i] : i \in DOMAIN conflicts}
                           \cup {raised[s][i] : i \in DOMAIN raised[s]} : c.write = W(s)}
    IN
    /\ pc[s] = "lookup" /\ Processed(s)
    /\ \/ /\ outcome.result = "accepted"
          /\ Reply(s, "accepted", outcome.obj, Visible(s, outcome.obj).version)
       \/ /\ outcome.result = "conflict"
          /\ IF known = {} THEN UNCHANGED replies
             ELSE \E c \in known : Reply(s, "conflict", c.obj, c.version)
       \/ /\ outcome.result = "rejected"
          /\ Reply(s, "rejected", outcome.obj, 0)
    /\ NextMutation(s)
    /\ UNCHANGED <<tables, seq, intent, job, target, seen, private, answers, devices, bounds>>

\* findTargetObject: by server id, deleted or not; else the live row with the uid.
FindTargetObject(s, i) ==
    IF i.obj # NoObject /\ Exists(Visible(s, i.obj)) THEN i.obj
    ELSE IF i.uid # Blank /\ LiveWith(i.uid, s) # {}
         THEN CHOOSE o \in LiveWith(i.uid, s) : TRUE
         ELSE NoObject

RowOf(s, o) == IF o = NoObject THEN AbsentRow ELSE Visible(s, o)

\* isOutlookReadOnlyMutation: the mutation or the stored object is marked.
OutlookReadOnly(w, r) == w \in Outlook \/ \E f \in Fields : r.payload[f] \in Outlook

StaleUpsertMutant(i, r) == i.action = "upsert" /\ i.base # 0 /\ r.version # i.base
\* The optimistic check of push and of updateObject.
Stale(i, r) == i.base # 0 /\ r.version # i.base

\* The SELECT and the decisions taken on the row it returned.  Nothing locks the
\* row: the write below happens in a later statement.
FindForPush(s) ==
    LET i == intent[W(s)]
        o == FindTargetObject(s, i)
        r == RowOf(s, o)
    IN
    /\ pc[s] = "find" /\ job[s].kind = "push"
    /\ target' = [target EXCEPT ![s] = o]
    /\ seen' = [seen EXCEPT ![s] = r]
    /\ pc' = [pc EXCEPT ![s] =
           CASE OutlookReadOnly(W(s), r) -> "reject"
             [] ~OutlookReadOnly(W(s), r) /\ o # NoObject /\ Stale(i, r) -> "refuse"
             [] OTHER -> "write"]
    /\ UNCHANGED <<tables, seq, intent, job, todo, private, replies, answers, devices, bounds>>

-----------------------------------------------------------------------------
(* The reads of the other requests                                         *)

\* createObject: a live row with the uid means the request is a replay.
\* updateObject: no live row, or another version than the base, writes nothing.
FindForWeb(s) ==
    LET i    == intent[W(s)]
        r    == RowOf(s, i.obj)
        done == IF job[s].kind = "create" THEN LiveWith(i.uid, s) # {}
                ELSE r.state # "live" \/ Stale(i, r)
    IN
    /\ pc[s] = "find" /\ job[s].kind \in {"create", "update"}
    /\ seen' = [seen EXCEPT ![s] = r]
    /\ pc' = [pc EXCEPT ![s] = IF done THEN "commit" ELSE "write"]
    /\ UNCHANGED <<tables, seq, intent, job, todo, target, private, replies, answers,
                   devices, bounds>>

AnyConflictMutant(c) == c.status \in {"open", "resolved"}
IsOpen(c) == c.status = "open"

\* resolveConflict reads the conflict if it is open; nothing locks it either.
FindConflict(s) ==
    LET c == conflicts[job[s].conflict] IN
    /\ pc[s] = "find" /\ job[s].kind = "resolve"
    /\ IF IsOpen(c)
       THEN /\ target' = [target EXCEPT ![s] = c.obj]
            /\ pc' = [pc EXCEPT ![s] = IF job[s].strategy = "ignore" THEN "commit" ELSE "write"]
       ELSE pc' = [pc EXCEPT ![s] = "commit"] /\ UNCHANGED target
    /\ UNCHANGED <<tables, seq, intent, job, todo, seen, private, replies, answers,
                   devices, bounds>>

-----------------------------------------------------------------------------
(* The statements that write a row of sync_objects                         *)

ToLog(s, o, written) ==
    /\ draft' = [draft EXCEPT ![s] = written]
    /\ target' = [target EXCEPT ![s] = o]
    /\ pc' = [pc EXCEPT ![s] = "log"]

\* An SQL error: PostgreSQL refuses every later statement of the transaction.
SqlError(s) == pc' = [pc EXCEPT ![s] = "failed"] /\ UNCHANGED <<draft, target>>

\* INSERT INTO sync_objects: version 1; a pushed deletion of an unknown object
\* inserts a tombstone; keep_both inserts the local copy under a uid of its own.
InsertRow(s) ==
    LET kept == job[s].kind = "resolve"
        uid  == IF kept THEN Blank ELSE intent[W(s)].uid
        row  == [state   |-> IF ~kept /\ intent[W(s)].action = "delete"
                             THEN "deleted" ELSE "live",
                 uid     |-> uid,
                 version |-> 1,
                 payload |-> Merge(EmptyPayload, W(s))]
    IN
    /\ pc[s] = "write"
    /\ IF kept THEN job[s].strategy = "keep_both" ELSE target[s] = NoObject
    /\ Unused # {}
    /\ row.state = "live" => ~UidPending(s, uid, NoObject)
    /\ IF row.state = "live" /\ UidTaken(s, uid, NoObject) THEN SqlError(s)
       ELSE ToLog(s, FreshObject, Put(draft[s], FreshObject, row))
    /\ UNCHANGED <<tables, seq, intent, job, todo, seen, logged, noted, raised, replies,
                   answers, devices, bounds>>

\* The UPDATE matched no row.  A push then fails on object.id and its catch
\* records the mutation as rejected; web requests write nothing; a resolution
\* goes on to close the conflict.
RowGone(s) ==
    /\ pc' = [pc EXCEPT ![s] = IF job[s].kind = "push" THEN "reject" ELSE "commit"]
    /\ UNCHANGED <<draft, target>>

\* Tombstones of the same uid that upsertObject deletes when it restores a row.
StaleTombstones(s, o) ==
    IF job[s].kind = "push" /\ seen[s].state = "deleted" /\ intent[W(s)].uid # Blank
    THEN {p \in Objects \ {o} : Visible(s, p).state = "deleted"
                                /\ Visible(s, p).uid = intent[W(s)].uid}
    ELSE {}

\* sync_mutations.server_object_id has no ON DELETE action.
Referenced(s, p) == \E w \in Writes : OutcomeOf(s, w).obj = p
ReferencePending(s, p) ==
    \E t \in Sessions \ {s} : \E w \in DOMAIN noted[t] : noted[t][w].obj = p

NewUid(s, row) == IF intent[W(s)].uid # Blank THEN intent[W(s)].uid ELSE row.uid

\* A restored row starts again at version 1.
PatchRestartMutant(s, row) ==
    [state |-> "live", uid |-> NewUid(s, row),
     version |-> IF row.state = "deleted" THEN 1 ELSE row.version + 1,
     payload |-> Merge(row.payload, W(s))]
\* SET payload = payload || patch, uid = COALESCE(..), deleted_at = NULL, version + 1
PatchRow(s, row) ==
    [state |-> "live", uid |-> NewUid(s, row), version |-> row.version + 1,
     payload |-> Merge(row.payload, W(s))]

\* The UPDATE of upsertObject and of updateObject.
UpdateRow(s) ==
    LET o     == target[s]
        row   == Visible(s, o)
        uid   == NewUid(s, row)
        stale == StaleTombstones(s, o)
    IN
    /\ pc[s] = "write" /\ o # NoObject /\ ~Locked(s, o)
    /\ job[s].kind = "update" \/ (job[s].kind = "push" /\ intent[W(s)].action = "upsert")
    /\ IF ~Exists(row) \/ (job[s].kind = "update" /\ row.state # "live") THEN RowGone(s)
       ELSE /\ ~UidPending(s, uid, o)
            /\ \A p \in stale : ~Locked(s, p) /\ ~ReferencePending(s, p)
            /\ IF UidTaken(s, uid, o) \/ \E p \in stale : Referenced(s, p) THEN SqlError(s)
               ELSE ToLog(s, o, [p \in DOMAIN draft[s] \cup {o} \cup stale |->
                                   IF p = o THEN PatchRow(s, row)
                                   ELSE IF p \in stale THEN PurgedRow ELSE draft[s][p]])
    /\ UNCHANGED <<tables, seq, intent, job, todo, seen, logged, noted, raised, replies,
                   answers, devices, bounds>>

DeletedRow(row) ==
    [state |-> "deleted", uid |-> row.uid, version |-> row.version + 1,
     payload |-> row.payload]

\* UPDATE .. SET deleted_at = now(), version + 1.  A push deletes again what is
\* already deleted; deleteObject only deletes a live row.
DeleteRow(s) ==
    LET o   == target[s]
        row == Visible(s, o)
    IN
    /\ pc[s] = "write" /\ o # NoObject /\ ~Locked(s, o)
    /\ job[s].kind = "delete" \/ (job[s].kind = "push" /\ intent[W(s)].action = "delete")
    /\ IF ~Exists(row) \/ (job[s].kind = "delete" /\ row.state # "live") THEN RowGone(s)
       ELSE ToLog(s, o, Put(draft[s], o, DeletedRow(row)))
    /\ UNCHANGED <<tables, seq, intent, job, todo, seen, logged, noted, raised, replies,
                   answers, devices, bounds>>

\* use_local and merge patch the row, use_server only bumps its version; neither
\* looks at deleted_at.
ResolvedRow(s, row) ==
    [state |-> row.state, uid |-> row.uid, version |-> row.version + 1,
     payload |-> IF job[s].strategy = "use_local" THEN Merge(row.payload, W(s))
                 ELSE row.payload]

ResolveRow(s) ==
    LET o   == target[s]
        row == Visible(s, o)
    IN
    /\ pc[s] = "write" /\ job[s].kind = "resolve" /\ ~Locked(s, o)
    /\ job[s].strategy \in {"use_local", "use_server"}
    /\ IF ~Exists(row) THEN RowGone(s)
       ELSE ToLog(s, o, Put(draft[s], o, ResolvedRow(s, row)))
    /\ UNCHANGED <<tables, seq, intent, job, todo, seen, logged, noted, raised, replies,
                   answers, devices, bounds>>

-----------------------------------------------------------------------------
(* The rest of the transaction                                             *)

IsWebDeletionMutant(s) == job[s].kind = "delete"
IsDeletion(s) == job[s].kind \in {"push", "delete"} /\ intent[W(s)].action = "delete"

\* MAX(id) + 1 over the committed rows.
MaxIdMutant(s) == IF changes = {} THEN 1
                  ELSE 1 + (CHOOSE c \in changes : \A b \in changes : b.id <= c.id).id
NextChangeId(s) == seq + 1

PatchPayloadMutant(s) == Merge(EmptyPayload, W(s))   \* the patch, not the row
ChangePayload(s) == draft[s][target[s]].payload

\* recordChange: the id comes from the sequence now, the row is visible at COMMIT.
LogChange(s) ==
    /\ pc[s] = "log"
    /\ seq' = seq + 1
    /\ logged' = [logged EXCEPT ![s] = @ \cup
          {[id |-> NextChangeId(s), obj |-> target[s], device |-> job[s].device,
            version |-> draft[s][target[s]].version, payload |-> ChangePayload(s),
            action |-> IF IsDeletion(s) THEN "delete" ELSE "upsert",
            by |-> IF job[s].kind = "resolve" THEN Blank ELSE W(s)]}]
    /\ pc' = [pc EXCEPT ![s] = IF job[s].kind = "push" THEN "record" ELSE "commit"]
    /\ UNCHANGED <<tables, intent, job, todo, target, seen, draft, noted, raised, replies,
                   answers, devices, bounds>>

\* INSERT INTO sync_mutations .. ON CONFLICT DO NOTHING: waits for a running
\* transaction that inserted the same key, and then keeps the row that is there.
RecordMutation(s, result, obj) ==
    /\ \A t \in Sessions \ {s} : W(s) \notin DOMAIN noted[t]
    /\ noted' = [noted EXCEPT ![s] =
          IF OutcomeOf(s, W(s)).result # "none" THEN @
          ELSE Put(@, W(s), [result |-> result, obj |-> obj])]

RecordAccepted(s) ==
    /\ pc[s] = "record"
    /\ RecordMutation(s, "accepted", target[s])
    /\ Reply(s, "accepted", target[s], draft[s][target[s]].version)
    /\ NextMutation(s)
    /\ UNCHANGED <<tables, seq, intent, job, target, seen, draft, logged, raised, answers,
                   devices, bounds>>

\* Outlook objects, and the catch of push when the transaction is still sound.
RecordRejected(s) ==
    LET obj == IF Exists(RowOf(s, target[s])) THEN target[s] ELSE NoObject IN
    /\ pc[s] = "reject"
    /\ RecordMutation(s, "rejected", obj)
    /\ Reply(s, "rejected", obj, 0)
    /\ NextMutation(s)
    /\ UNCHANGED <<tables, seq, intent, job, target, seen, draft, logged, raised, answers,
                   devices, bounds>>

\* The code falls through to upsertObject.
FallThroughMutant(s) == pc' = [pc EXCEPT ![s] = "write"] /\ UNCHANGED todo
AfterConflict(s) == NextMutation(s)

\* recordMutation, then createConflict with the version the SELECT had returned.
\* A tombstone purged in between breaks the foreign key of the conflict.
RecordConflict(s) ==
    LET o == target[s] IN
    /\ pc[s] = "refuse"
    /\ \A t \in Sessions \ {s} : o \in DOMAIN draft[t] => draft[t][o].state # "purged"
    /\ IF ~Exists(Visible(s, o))
       THEN SqlError(s) /\ UNCHANGED <<noted, raised, replies, todo>>
       ELSE /\ RecordMutation(s, "conflict", o)
            /\ raised' = [raised EXCEPT ![s] = Append(@,
                   [write |-> W(s), obj |-> o, version |-> seen[s].version,
                    status |-> "open"])]
            /\ Reply(s, "conflict", o, seen[s].version)
            /\ AfterConflict(s)
            /\ UNCHANGED <<draft, target>>
    /\ UNCHANGED <<tables, seq, intent, job, seen, logged, answers, devices, bounds>>

\* The connection goes back to the pool.
Release(s) ==
    /\ pc' = [pc EXCEPT ![s] = "idle"]
    /\ job' = [job EXCEPT ![s] = NoJob]
    /\ todo' = [todo EXCEPT ![s] = <<>>]
    /\ target' = [target EXCEPT ![s] = NoObject]
    /\ seen' = [seen EXCEPT ![s] = AbsentRow]
    /\ draft' = [draft EXCEPT ![s] = Nothing]
    /\ logged' = [logged EXCEPT ![s] = {}]
    /\ noted' = [noted EXCEPT ![s] = Nothing]
    /\ raised' = [raised EXCEPT ![s] = <<>>]
    /\ replies' = [replies EXCEPT ![s] = {}]

\* Closing the conflict is the last statement of a resolution that found it open.
Settled(s) ==
    [i \in DOMAIN conflicts |->
       IF job[s].kind = "resolve" /\ target[s] # NoObject /\ i = job[s].conflict
       THEN [conflicts[i] EXCEPT !.status = "resolved"] ELSE conflicts[i]]

\* COMMIT, and the response.  Deleting a row deletes its changes (ON DELETE CASCADE).
Commit(s) ==
    /\ pc[s] = "commit"
    /\ rows' = [o \in Objects |-> Visible(s, o)]
    /\ changes' = {c \in changes \cup logged[s] : Visible(s, c.obj).state # "purged"}
    /\ outcomes' = [w \in Writes |-> OutcomeOf(s, w)]
    /\ conflicts' = Settled(s) \o raised[s]
    /\ answers' = answers \cup replies[s]
    /\ Release(s)
    /\ UNCHANGED <<seq, intent, devices, bounds>>

\* ROLLBACK after an SQL error: the catch of push tries to record the mutation,
\* which the aborted transaction refuses, so the whole batch is undone.
Rollback(s) ==
    /\ pc[s] = "failed"
    /\ Release(s)
    /\ UNCHANGED <<tables, seq, intent, answers, devices, bounds>>

\* The response is sent although the transaction ends in a rollback.
AnswerFirstMutant(s) ==
    /\ pc[s] \notin {"idle", "failed"}
    /\ answers' = answers \cup replies[s]
    /\ Release(s)
    /\ UNCHANGED <<tables, seq, intent, devices, bounds>>
\* The connection or the server dies, or the session is a deadlock's victim.
Abort(s) ==
    /\ pc[s] \notin {"idle", "failed"}
    /\ Release(s)
    /\ UNCHANGED <<tables, seq, intent, answers, devices, bounds>>

-----------------------------------------------------------------------------
(* Reading the log, and housekeeping                                       *)

\* One SELECT: the first PageLimit changes above the cursor, other devices' only.
Candidates(d) == {c \in changes : c.id > cursor[d] /\ c.device # d}
\* LIMIT cuts the rows after they were sorted by type priority.
PageByPriorityMutant(d) == {c \in Candidates(d) :
    Cardinality({b \in Candidates(d) :
        \/ Priority[b.obj] < Priority[c.obj]
        \/ Priority[b.obj] = Priority[c.obj] /\ b.id < c.id}) < PageLimit}
Page(d) == {c \in Candidates(d) :
               Cardinality({b \in Candidates(d) : b.id < c.id}) < PageLimit}

\* rows.sort by type priority, then id: the one that comes last.
LastOf(c, page) == \A b \in page : \/ Priority[b.obj] < Priority[c.obj]
                                   \/ Priority[b.obj] = Priority[c.obj] /\ b.id <= c.id

\* GET /sync/pull, all of the page applied, and its nextCursor saved: the id of
\* the change that comes last after the sort.
Pull(d) ==
    /\ got' = [got EXCEPT ![d] = @ \cup {c.id : c \in Page(d)}]
    /\ \E last \in Page(d) : LastOf(last, Page(d))
                             /\ cursor' = [cursor EXCEPT ![d] = last.id]
    /\ UNCHANGED <<tables, seq, intent, pc, job, todo, target, seen, private, replies,
                   answers, bounds>>

\* purgeStaleMutations: some old mutations, none of an open conflict.  Conflicts
\* that are closed lose their reference (ON DELETE SET NULL); a conflict another
\* transaction is inserting holds the mutation it refers to.
Purge(old) ==
    LET referred == {c.write : c \in {conflicts[i] : i \in {j \in DOMAIN conflicts :
                                        conflicts[j].status = "open"}}}
        held == UNION {{raised[s][i].write : i \in DOMAIN raised[s]} : s \in Sessions}
    IN
    /\ purges < MaxPurges
    /\ old # {} /\ old \cap (referred \cup held) = {}
    /\ \A w \in old : outcomes[w].result # "none"
    /\ outcomes' = [w \in Writes |-> IF w \in old THEN NotRecorded ELSE outcomes[w]]
    /\ conflicts' = [i \in DOMAIN conflicts |->
                       IF conflicts[i].write \in old
                       THEN [conflicts[i] EXCEPT !.write = Blank] ELSE conflicts[i]]
    /\ purges' = purges + 1
    /\ UNCHANGED <<rows, changes, seq, intent, pc, job, todo, target, seen, private,
                   replies, answers, devices, begun>>

-----------------------------------------------------------------------------

Init ==
    /\ rows = [o \in Objects |-> AbsentRow]
    /\ changes = {}
    /\ outcomes = [w \in Writes |-> NotRecorded]
    /\ conflicts = <<>>
    /\ seq = 0
    /\ intent = [w \in Writes |-> NotIssued]
    /\ pc = [s \in Sessions |-> "idle"]
    /\ job = [s \in Sessions |-> NoJob]
    /\ todo = [s \in Sessions |-> <<>>]
    /\ target = [s \in Sessions |-> NoObject]
    /\ seen = [s \in Sessions |-> AbsentRow]
    /\ draft = [s \in Sessions |-> Nothing]
    /\ logged = [s \in Sessions |-> {}]
    /\ noted = [s \in Sessions |-> Nothing]
    /\ raised = [s \in Sessions |-> <<>>]
    /\ replies = [s \in Sessions |-> {}]
    /\ answers = {}
    /\ cursor = [d \in Devices |-> 0]
    /\ got = [d \in Devices |-> {}]
    /\ begun = 0
    /\ purges = 0

UserStep ==
    \E w \in Writes, a \in {"upsert", "delete"}, o \in Objects \cup {NoObject},
       u \in Uids \cup {Blank} :
       \E b \in {0} \cup {rows[p].version : p \in Objects} : Edit(w, a, o, u, b)

BeginStep(s) ==
    \/ \E n \in 1..MaxBatch : \E batch \in [1..n -> Writes] : BeginPush(s, batch)
    \/ \E w \in Writes : BeginWeb(s, w)
    \/ \E d \in Devices, c \in DOMAIN conflicts, st \in Strategies : BeginResolve(s, d, c, st)

ReadStep(s) == LookupMiss(s) \/ Replay(s) \/ FindForPush(s) \/ FindForWeb(s) \/ FindConflict(s)
WriteStep(s) == InsertRow(s) \/ UpdateRow(s) \/ DeleteRow(s) \/ ResolveRow(s)
RecordStep(s) == LogChange(s) \/ RecordAccepted(s) \/ RecordRejected(s) \/ RecordConflict(s)
EndStep(s) == Commit(s) \/ Rollback(s) \/ Abort(s)

Next ==
    \/ UserStep
    \/ \E s \in Sessions : BeginStep(s) \/ ReadStep(s) \/ WriteStep(s)
                           \/ RecordStep(s) \/ EndStep(s)
    \/ \E d \in Readers : Pull(d)
    \/ \E old \in SUBSET Writes : Purge(old)

Spec == Init /\ [][Next]_vars

-----------------------------------------------------------------------------
(* Properties                                                              *)

\* Every session has a partial function from keys to values.
PartialMaps(m, keys, values) ==
    /\ m = [s \in Sessions |-> m[s]]
    /\ \A s \in Sessions : DOMAIN m[s] \in SUBSET keys /\ m[s] \in [DOMAIN m[s] -> values]

TypeOK ==
    /\ rows \in [Objects -> Row]
    /\ changes \in SUBSET Change
    /\ outcomes \in [Writes -> Outcome]
    /\ conflicts \in Seq(Conflict)
    /\ seq \in Nat
    /\ intent \in [Writes -> Intent]
    /\ pc \in [Sessions -> {"idle", "lookup", "find", "write", "log", "record",
                            "reject", "refuse", "failed", "commit"}]
    /\ job \in [Sessions -> Job]
    /\ todo \in [Sessions -> Seq(Writes \cup {Blank})]
    /\ target \in [Sessions -> Objects \cup {NoObject}]
    /\ seen \in [Sessions -> Row]
    /\ PartialMaps(draft, Objects, Row)
    /\ logged \in [Sessions -> SUBSET Change]
    /\ PartialMaps(noted, Writes, Outcome)
    /\ raised \in [Sessions -> Seq(Conflict)]
    /\ replies \in [Sessions -> SUBSET Answer]
    /\ answers \in SUBSET Answer
    /\ cursor \in [Devices -> Nat]
    /\ got \in [Devices -> SUBSET (Nat \ {0})]
    /\ begun \in Nat
    /\ purges \in Nat

\* What the statements take for granted about the request they belong to.
Requests ==
    \A s \in Sessions :
        /\ pc[s] \notin {"idle", "commit", "failed"} => todo[s] # <<>>
        /\ pc[s] \in {"lookup", "record", "reject", "refuse"} => job[s].kind = "push"
        /\ job[s].kind # "resolve" => todo[s] \in Seq(Writes)
        /\ job[s].kind = "resolve" => job[s].conflict \in DOMAIN conflicts
        /\ pc[s] \in {"log", "record"} => target[s] \in DOMAIN draft[s]
        /\ pc[s] = "refuse" \/ (pc[s] = "write" /\ job[s].kind = "resolve") =>
              target[s] # NoObject

\* An accepted mutation names the object it was applied to.
AcceptedHaveObjects ==
    /\ \A w \in Writes : outcomes[w].result = "accepted" => outcomes[w].obj # NoObject
    /\ \A s \in Sessions : \A w \in DOMAIN noted[s] :
          noted[s][w].result = "accepted" => noted[s][w].obj # NoObject

LogOf(o) == {c \in changes : c.obj = o}

\* The change log of an object that was not purged tells its whole history: each
\* version from 1 to the row's own is there exactly once, whatever transactions
\* ran side by side, aborted or were undone.
VersionsDense ==
    \A o \in Objects : rows[o].state # "purged" =>
        /\ {c.version : c \in LogOf(o)} = 1..rows[o].version
        /\ \A c, d \in LogOf(o) : c.version = d.version => c = d

\* For one object, ids grow with versions: the row lock is held from the UPDATE
\* past nextval to COMMIT, so a device that reads changes in id order never sees
\* an object go back to an older version.
LogInVersionOrder ==
    \A c, d \in changes : c.obj = d.obj /\ c.version < d.version => c.id < d.id

\* What makes the two inductive.  A set of changes tells the history of object o
\* up to version n ...
Tells(H, o, n) ==
    /\ \A v \in 1..n : \E c \in H : c.obj = o /\ c.version = v
    /\ \A c \in H : c.obj = o => c.version \in 1..n
    /\ \A c, d \in H : c.obj = o /\ d.obj = o =>
          /\ c.version = d.version => c = d
          /\ c.version < d.version => c.id < d.id

\* ... the version of a row the session has logged: all but the write it is about to log.
LoggedVersion(s, o) ==
    IF pc[s] = "log" /\ target[s] = o THEN Visible(s, o).version - 1 ELSE Visible(s, o).version

\* A row has one writer at a time; what a session has inserted is about rows it
\* holds, and nobody writes a row that was physically deleted.
LocksExclusive ==
    /\ \A s, t \in Sessions : s # t => DOMAIN draft[s] \cap DOMAIN draft[t] = {}
    /\ \A s \in Sessions : \A c \in logged[s] : c.obj \in DOMAIN draft[s]
    /\ \A s \in Sessions : \A o \in DOMAIN draft[s] :
          rows[o].state # "purged" /\ draft[s][o].state # "absent"
    /\ \A s \in Sessions : pc[s] = "log" => draft[s][target[s]].state # "purged"

\* The log, as everybody sees it and as each session sees it, is dense and ordered.
LogTellsRows ==
    /\ \A s \in Sessions, o \in Objects : \A r \in {rows[o], Visible(s, o)} :
          r.version = 0 <=> r.state \in {"absent", "purged"}
    /\ \A o \in Objects : rows[o].state # "purged" => Tells(changes, o, rows[o].version)
    /\ \A c \in changes : c.id <= seq /\ rows[c.obj].state # "purged"
    /\ \A s \in Sessions : \A c \in logged[s] : c.id <= seq
    /\ \A s \in Sessions, o \in Objects : Visible(s, o).state # "purged" =>
          Tells(changes \cup logged[s], o, LoggedVersion(s, o))

IInv == TypeOK /\ Requests /\ AcceptedHaveObjects /\ LocksExclusive /\ LogTellsRows

\* The newest change of an object carries the payload of its row: what a device
\* that reads to the end of the log holds is what the server holds.
NewestChangeIsRow ==
    \A o \in Objects : \A c \in LogOf(o) :
        c.version = rows[o].version => c.payload = rows[o].payload

\* The newest change says deleted exactly when the row is deleted.
NewestChangeTellsDeletion ==
    \A o \in Objects : \A c \in LogOf(o) :
        c.version = rows[o].version => (c.action = "delete" <=> rows[o].state = "deleted")

Pushed(c) == c.by # Blank /\ Via[c.by] = "push"

\* No pushed mutation is applied twice, however often it is retried.
AppliedOnce == \A c, d \in changes : Pushed(c) /\ c.by = d.by => c = d

\* The mutation log and the change log agree: a mutation that changed an object
\* is on record as accepted for that object, and the other way round.
OutcomeMatchesEffect ==
    /\ \A c \in changes : Pushed(c) =>
          outcomes[c.by] = [result |-> "accepted", obj |-> c.obj]
    /\ \A w \in Writes : outcomes[w].result = "accepted" => \E c \in changes : c.by = w

\* An answer given is committed: what a device was told is accepted is in the log
\* of that object, at a version no newer than the one it was told.
AnswersAreDurable ==
    \A a \in answers : a.result = "accepted" =>
        \E c \in changes : c.by = a.write /\ c.obj = a.obj /\ c.version <= a.version

HasBase(c) == c.by # Blank /\ intent[c.by].base # 0
                           /\ (Via[c.by] = "push" \/ c.action = "upsert")

\* A write that names its base version was applied to that very version, or made anew an
\* object that was physically deleted meanwhile.
BaseRespected ==
    \A c \in changes : HasBase(c) => c.version \in {1, intent[c.by].base + 1}

\* Once a device's cursor is past a change of another device, it has had the change.
NoSkippedChange ==
    \A d \in Devices : \A c \in changes :
        c.device # d /\ c.id <= cursor[d] => c.id \in got[d]

\* A conflict is resolved once: there are no more changes made by resolutions than
\* conflicts resolved.
ResolvedOnce ==
    Cardinality({c \in changes : c.by = Blank})
        <= Cardinality({i \in DOMAIN conflicts : conflicts[i].status = "resolved"})

-----------------------------------------------------------------------------
(* What the change log promises, see VersionLog                            *)

Entry(o, v) ==
    LET c == CHOOSE c \in changes : c.obj = o /\ c.version = v
    IN  [action |-> c.action, payload |-> c.payload, by |-> c.by]

History == [o \in Objects |-> [v \in 1..rows[o].version |-> Entry(o, v)]]
Erased  == {o \in Objects : rows[o].state = "purged"}

Log == INSTANCE VersionLog WITH history <- History, erased <- Erased

\* The server's tables implement the append-only history of VersionLog.
ImplementsVersionLog == Log!Spec
=============================================================================
