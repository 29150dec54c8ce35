----------------------------- MODULE SyncDevice -----------------------------
(***************************************************************************)
(* One Flutter client: ServerSyncEngine.pullChanges, the change applier,   *)
(* the table sync_object_states, the pull cursor, and the writes that go   *)
(* to the server first (TaskEventServerFirstStore), against a server whose *)
(* log SyncServer describes.  Every await is a point where another pull,   *)
(* another write of the user interface or a crash comes in, so every       *)
(* statement and every request is an action of its own.                    *)
(*                                                                         *)
(* What is abstracted: the server commits in the order of its change ids   *)
(* (SyncServer's run sync_skipped shows what happens when it does not),    *)
(* and the content of an object is the version it has there: one version   *)
(* has one payload (VersionsDense, NewestChangeIsRow).                     *)
(***************************************************************************)
EXTENDS Integers, Sequences, FiniteSets

CONSTANTS
    Objects,         \* server objects of the user
    Pulls,           \* calls of pullChanges that may run: background sync, Outlook page
    Edits,           \* writes the user makes on this device
    Kinds,           \* what they are: a subset of {"create", "update", "delete"}
    Editable,        \* the objects they are about: events and tasks
    ServerPriority,  \* [Objects -> Nat]: the order of types in pull's sort
    ClientPriority,  \* [Objects -> Nat]: _changePriority
    Limit,           \* page size
    FirstId,         \* id of the first change: 9 makes the ids pass a power of ten
    MaxChanges,      \* bound: changes in the log
    MaxLocal,        \* bound: local rows
    MaxFaults,       \* bound: crashes, failed requests, lost answers, failed statements
    Concurrent,      \* TRUE: pulls and edits overlap; FALSE: one at a time
    Restore          \* TRUE: others bring deleted objects back

LocalIds == 1..MaxLocal
NoRow    == 0

ASSUME BoundsAssumption ==
    /\ Limit \in Nat \ {0} /\ FirstId \in Nat \ {0}
    /\ MaxChanges \in Nat /\ MaxLocal \in Nat /\ MaxFaults \in Nat
ASSUME TypesAssumption ==
    /\ Objects # {}
    /\ Kinds \subseteq {"create", "update", "delete"} /\ Editable \subseteq Objects
    /\ ServerPriority \in [Objects -> Nat]
    /\ ClientPriority \in [Objects -> Nat]
    /\ Concurrent \in BOOLEAN /\ Restore \in BOOLEAN

VARIABLES
    log,      \* sync_changes: a sequence of Change; its order is the id order
    server,   \* sync_objects: [Objects -> ServerRow]
    copy,     \* the local rows: [some LocalIds -> Copy]
    states,   \* sync_object_states: [some LocalIds -> State]
    cursor,   \* server.sync.pull_cursor; 0 when there is none
    pc,       \* [Pulls -> next statement of the pull]
    at,       \* [Pulls -> Nat]: the cursor the pull goes on from
    page,     \* [Pulls -> set of changes of the response still to apply]
    next,     \* [Pulls -> Nat]: the response's nextCursor
    full,     \* [Pulls -> BOOLEAN]: the response had as many changes as asked for
    now,      \* [Pulls -> the change being applied]
    found,    \* [Pulls -> LocalIds \cup {NoRow}]: getStateByServerId's answer
    failed,   \* [Pulls -> BOOLEAN]: a change of the page could not be applied
    stage,    \* [Edits -> next step of the edit]
    form,     \* [Edits -> Form]
    handled,  \* auxiliary: changes this device has applied or skipped on purpose
    faults    \* faults so far

database == <<copy, states, cursor>>
pulling  == <<pc, at, page, next, full, now, found, failed>>
editing  == <<stage, form>>
vars == <<log, server, database, pulling, editing, handled, faults>>

-----------------------------------------------------------------------------
(* Records                                                                 *)

\* mine: made by this device; seen is auxiliary: the version the user saw.
Change    == [obj : Objects, version : Nat, action : {"upsert", "delete"},
              mine : BOOLEAN, seen : Nat]
ServerRow == [version : Nat, live : BOOLEAN]
\* extra: the row also shows a patch no server version has.
Copy      == [obj : Objects, version : Nat, extra : BOOLEAN]
\* version 0: server_version is null.
State     == [obj : Objects, version : Nat]
Form      == [kind : Kinds \cup {"none"}, local : LocalIds \cup {NoRow},
              obj : Objects, seen : Nat, base : Nat, reply : Nat]

NoForm == [kind |-> "none", local |-> NoRow, obj |-> CHOOSE o \in Objects : TRUE,
           seen |-> 0, base |-> 0, reply |-> 0]

Put(f, x, v)  == [y \in DOMAIN f \cup {x} |-> IF y = x THEN v ELSE f[y]]
Remove(f, x)  == [y \in DOMAIN f \ {x} |-> f[y]]
Nothing       == [x \in {} |-> x]

\* AUTOINCREMENT never hands an id out twice; ids nothing names are as good as new.
Named == DOMAIN copy \cup DOMAIN states \cup {found[p] : p \in Pulls}
         \cup {form[e].local : e \in Edits}
FreshRow == CHOOSE l \in LocalIds \ Named : TRUE

Quiet == /\ \A p \in Pulls : pc[p] = "idle"
         /\ \A e \in Edits : stage[e] \in {"idle", "done"}
MayStart == Concurrent \/ Quiet

\* Bound: the log has room for one more change beside those under way.
Room == Len(log) + Cardinality({e \in Edits : stage[e] \in {"open", "send"}}) < MaxChanges

Fault == faults < MaxFaults /\ faults' = faults + 1

-----------------------------------------------------------------------------
(* The server: web requests of this device, and everybody else             *)

\* What a request that writes object o does to the row and to the log.
Write(o, action, mine, seen) ==
    /\ server' = [server EXCEPT ![o] = [version |-> server[o].version + 1,
                                        live    |-> action = "upsert"]]
    /\ log' = Append(log, [obj |-> o, version |-> server[o].version + 1,
                           action |-> action, mine |-> mine, seen |-> seen])

\* A new object has a new uid: nobody else creates it.
BornHere(o) == \E e \in Edits : form[e].kind = "create" /\ form[e].obj = o

\* Another device creates, updates, deletes or restores object o.
OtherWrite(o, action) ==
    /\ Room
    /\ server[o].version = 0 => ~BornHere(o)
    /\ action = "delete" => server[o].live
    /\ Restore \/ server[o].live \/ server[o].version = 0
    /\ Write(o, action, FALSE, server[o].version)
    /\ UNCHANGED <<database, pulling, editing, handled, faults>>

-----------------------------------------------------------------------------
(* pullChanges                                                             *)

\* The server sorts a page by type, then by id; the last id is nextCursor.
SortedBefore(i, j) ==
    \/ ServerPriority[log[i].obj] < ServerPriority[log[j].obj]
    \/ ServerPriority[log[i].obj] = ServerPriority[log[j].obj] /\ i <= j

\* The changes of other devices above the cursor, and the first Limit of them.
Theirs(from) == {i \in DOMAIN log : i > from /\ ~log[i].mine}
Page(from) == {i \in Theirs(from) : Cardinality({j \in Theirs(from) : j < i}) < Limit}

\* compareTo on the ids as strings of decimal digits (two are enough here).
Digits(n) == IF n < 10 THEN <<n>> ELSE <<n \div 10, n % 10>>
StringBefore(s, t) ==
    \E k \in 1..Len(t) : /\ \A m \in 1..(k - 1) : m <= Len(s) /\ s[m] = t[m]
                         /\ k > Len(s) \/ s[k] < t[k]
ChangeId(i) == FirstId + i - 1

\* Relies on the order of the response, which List.sort need not keep.
TypeOnlyMutant(i, j) == ClientPriority[log[i].obj] <= ClientPriority[log[j].obj]
\* The applier sorts again: by its own priority of types, then by id as a string.
AppliedBefore(i, j) ==
    \/ ClientPriority[log[i].obj] < ClientPriority[log[j].obj]
    \/ /\ ClientPriority[log[i].obj] = ClientPriority[log[j].obj]
       /\ StringBefore(Digits(ChangeId(i)), Digits(ChangeId(j)))

StartPull(p) ==
    /\ pc[p] = "idle" /\ MayStart
    /\ pc' = [pc EXCEPT ![p] = "fetch"]
    /\ at' = [at EXCEPT ![p] = cursor]
    /\ UNCHANGED <<log, server, database, page, next, full, now, found, failed,
                   editing, handled, faults>>

\* GET /sync/pull; nothing above the cursor gives the cursor back.
Fetch(p) ==
    /\ pc[p] = "fetch"
    /\ page' = [page EXCEPT ![p] = Page(at[p])]
    /\ full' = [full EXCEPT ![p] = Cardinality(Page(at[p])) = Limit]
    /\ \/ Page(at[p]) = {} /\ next' = [next EXCEPT ![p] = at[p]]
       \/ \E last \in Page(at[p]) : /\ \A i \in Page(at[p]) : SortedBefore(i, last)
                                    /\ next' = [next EXCEPT ![p] = last]
    /\ failed' = [failed EXCEPT ![p] = FALSE]
    /\ pc' = [pc EXCEPT ![p] = "read"]
    /\ UNCHANGED <<log, server, database, at, now, found, editing, handled, faults>>

\* applyChange returns (or throws): its locals are gone and the loop goes on.
Return(p, i) ==
    /\ page' = [page EXCEPT ![p] = @ \ {i}]
    /\ now' = [now EXCEPT ![p] = 0]
    /\ found' = [found EXCEPT ![p] = NoRow]
    /\ pc' = [pc EXCEPT ![p] = "read"]

Handle(p, i) == Return(p, i) /\ handled' = handled \cup {i}

Examine(p, i, l, step) ==
    /\ now' = [now EXCEPT ![p] = i]
    /\ found' = [found EXCEPT ![p] = l]
    /\ pc' = [pc EXCEPT ![p] = step]
    /\ UNCHANGED <<page, handled>>

\* pullChanges returns (or throws), and its locals are gone too.
Leave(p) ==
    /\ pc' = [pc EXCEPT ![p] = "idle"]
    /\ at' = [at EXCEPT ![p] = 0]
    /\ page' = [page EXCEPT ![p] = {}]
    /\ next' = [next EXCEPT ![p] = 0]
    /\ full' = [full EXCEPT ![p] = FALSE]
    /\ failed' = [failed EXCEPT ![p] = FALSE]
    /\ UNCHANGED <<now, found>>

\* The applier refuses an upsert that is not newer; deletions have no such test.
IsOld(i, l) == l # NoRow /\ states[l].version # 0 /\ log[i].version <= states[l].version

\* getStateByServerId (LIMIT 1, in no order), and the early returns of applyChange.
ReadState(p, i, l) ==
    /\ pc[p] = "read"
    /\ i \in page[p] /\ \A j \in page[p] \ {i} : AppliedBefore(i, j)
    /\ IF \E m \in DOMAIN states : states[m].obj = log[i].obj
       THEN l \in DOMAIN states /\ states[l].obj = log[i].obj
       ELSE l = NoRow
    /\ IF log[i].action = "upsert"
       THEN IF IsOld(i, l) THEN Handle(p, i) ELSE Examine(p, i, l, "upsert")
       ELSE IF l = NoRow THEN Handle(p, i) ELSE Examine(p, i, l, "delete")
    /\ UNCHANGED <<log, server, database, at, next, full, failed, editing, faults>>

\* _deleteLocal, then removeState.
DeleteCopy(p) ==
    /\ pc[p] = "delete"
    /\ copy' = Remove(copy, found[p])
    /\ pc' = [pc EXCEPT ![p] = "forget"]
    /\ UNCHANGED <<log, server, states, cursor, at, page, next, full, now, found,
                   failed, editing, handled, faults>>

RemoveState(p) ==
    /\ pc[p] = "forget"
    /\ states' = Remove(states, found[p])
    /\ Handle(p, now[p])
    /\ UNCHANGED <<log, server, copy, cursor, at, next, full, failed, editing, faults>>

\* _upsertLocal inserts when there was no state, and otherwise replaces the row of
\* that id, if it is still there; then markSynced.
UpsertCopy(p) ==
    LET c   == log[now[p]]
        new == [obj |-> c.obj, version |-> c.version, extra |-> FALSE]
    IN
    /\ pc[p] = "upsert"
    /\ IF found[p] = NoRow
       THEN /\ LocalIds \ Named # {}
            /\ found' = [found EXCEPT ![p] = FreshRow]
            /\ copy' = Put(copy, FreshRow, new)
       ELSE /\ copy' = IF found[p] \in DOMAIN copy THEN Put(copy, found[p], new) ELSE copy
            /\ UNCHANGED found
    /\ pc' = [pc EXCEPT ![p] = "mark"]
    /\ UNCHANGED <<log, server, states, cursor, at, page, next, full, now, failed,
                   editing, handled, faults>>

MarkSynced(p) ==
    /\ pc[p] = "mark"
    /\ states' = Put(states, found[p], [obj     |-> log[now[p]].obj,
                                        version |-> log[now[p]].version])
    /\ Handle(p, now[p])
    /\ UNCHANGED <<log, server, copy, cursor, at, next, full, failed, editing, faults>>

\* A statement throws: the change counts as failed and the next one is tried.
ChangeFails(p) ==
    /\ pc[p] \in {"delete", "forget", "upsert", "mark"}
    /\ Fault
    /\ failed' = [failed EXCEPT ![p] = TRUE]
    /\ Return(p, now[p])
    /\ UNCHANGED <<log, server, database, at, next, full, editing, handled>>

AckAnywayMutant(p) == TRUE   \* failures are counted and reported, not thrown
MayAck(p) == ~failed[p]

\* The page is applied; a failure throws, and neither ack nor cursor follows.
EndPage(p) ==
    /\ pc[p] = "read" /\ page[p] = {}
    /\ IF MayAck(p)
       THEN /\ pc' = [pc EXCEPT ![p] = "ack"]
            /\ UNCHANGED <<at, page, next, full, now, found, failed>>
       ELSE Leave(p)
    /\ UNCHANGED <<log, server, database, editing, handled, faults>>

\* POST /sync/ack: the server's sync_cursors only feed its reports.
Ack(p) ==
    /\ pc[p] = "ack"
    /\ pc' = [pc EXCEPT ![p] = "save"]
    /\ UNCHANGED <<log, server, database, at, page, next, full, now, found, failed,
                   editing, handled, faults>>

\* A request of the pull fails: pullChanges throws.
RequestFails(p) ==
    /\ pc[p] \in {"fetch", "ack"}
    /\ Fault
    /\ Leave(p)
    /\ UNCHANGED <<log, server, database, editing, handled>>

\* The cursor is saved only when another page follows.
SaveLaterMutant(p) == IF full[p] THEN next[p] ELSE cursor
SavedCursor(p) == next[p]

\* savePullCursor overwrites whatever is there; a full page is followed by another.
SaveCursor(p) ==
    /\ pc[p] = "save"
    /\ cursor' = SavedCursor(p)
    /\ IF full[p] /\ next[p] # at[p]
       THEN /\ at' = [at EXCEPT ![p] = next[p]]
            /\ pc' = [pc EXCEPT ![p] = "fetch"]
            /\ UNCHANGED <<page, next, full, now, found, failed>>
       ELSE Leave(p)
    /\ UNCHANGED <<log, server, copy, states, editing, handled, faults>>

-----------------------------------------------------------------------------
(* The user's writes: server first, then the local row, then its state     *)

Fill(e, f) == form' = [form EXCEPT ![e] = f]
Move(e, to) == stage' = [stage EXCEPT ![e] = to]

\* A page is opened on a local row and shows it as it is now.
OpenForm(e, kind, l) ==
    /\ stage[e] = "idle" /\ MayStart /\ Room
    /\ kind \in Kinds \ {"create"} /\ l \in DOMAIN copy /\ copy[l].obj \in Editable
    /\ Move(e, "open")
    /\ Fill(e, [kind |-> kind, local |-> l, obj |-> copy[l].obj, seen |-> copy[l].version,
                base |-> 0, reply |-> 0])
    /\ UNCHANGED <<log, server, database, pulling, handled, faults>>

\* Saving reads the object's state: without a server id nothing is sent.
ReadBase(e) ==
    LET f == form[e] IN
    /\ stage[e] = "open"
    /\ IF f.local \in DOMAIN states
       THEN /\ Move(e, "send")
            /\ Fill(e, [kind |-> f.kind, local |-> f.local, obj |-> states[f.local].obj,
                        seen |-> f.seen, base |-> states[f.local].version, reply |-> 0])
       ELSE Move(e, "done") /\ UNCHANGED form
    /\ UNCHANGED <<log, server, database, pulling, handled, faults>>

\* The user makes a new object.
StartCreate(e, o) ==
    /\ stage[e] = "idle" /\ MayStart /\ Room
    /\ "create" \in Kinds /\ o \in Editable /\ server[o].version = 0 /\ ~BornHere(o)
    /\ Move(e, "send")
    /\ Fill(e, [kind |-> "create", local |-> NoRow, obj |-> o, seen |-> 0, base |-> 0,
                reply |-> 0])
    /\ UNCHANGED <<log, server, database, pulling, handled, faults>>

\* updateObject compares the base when there is one; deleteObject never does.
NeverStaleMutant(f) == f.base < 0
IsStale(f) == f.kind = "update" /\ f.base # 0 /\ server[f.obj].version # f.base

\* What the request does: a stale base answers 409, a row that is gone answers
\* without a version (0 here), and otherwise the write is committed.
Serve(f) ==
    IF f.kind = "create"
    THEN Write(f.obj, "upsert", TRUE, 0)
    ELSE IF server[f.obj].live /\ ~IsStale(f)
         THEN Write(f.obj, IF f.kind = "delete" THEN "delete" ELSE "upsert", TRUE, f.seen)
         ELSE UNCHANGED <<log, server>>

Answered(f, version) ==
    [kind |-> f.kind, local |-> f.local, obj |-> f.obj, seen |-> f.seen,
     base |-> f.base, reply |-> version]

\* The request and its answer.  A conflict leaves the form open with its fields.
Send(e) ==
    LET f == form[e] IN
    /\ stage[e] = "send"
    /\ Serve(f)
    /\ IF f.kind # "create" /\ server[f.obj].live /\ IsStale(f)
       THEN Move(e, "open") /\ UNCHANGED form
       ELSE /\ Move(e, "local")
            /\ Fill(e, Answered(f, IF f.kind = "create" \/ server[f.obj].live
                                   THEN server[f.obj].version + 1 ELSE 0))
    /\ UNCHANGED <<database, pulling, handled, faults>>

\* The request never arrives, or it is served and the answer is lost; the form
\* stays open, and a new object saved again gets a new uid.
AnswerLost(e) ==
    /\ stage[e] = "send"
    /\ Fault
    /\ Serve(form[e]) \/ UNCHANGED <<log, server>>
    /\ Move(e, IF form[e].kind = "create" THEN "done" ELSE "open")
    /\ UNCHANGED <<database, pulling, form, handled>>

\* _createLocalTask, _updateLocalTask or the deletion.  Without an item in the
\* answer _payloadForLocal falls back to the user's patch.
WriteCopy(e) ==
    LET f == form[e]
        l == IF f.kind = "create" THEN FreshRow ELSE f.local
    IN
    /\ stage[e] = "local"
    /\ f.kind = "create" => LocalIds \ Named # {}
    /\ copy' = CASE f.kind = "delete" -> Remove(copy, l)
                 [] f.kind = "create" ->
                       Put(copy, l, [obj |-> f.obj, version |-> f.reply, extra |-> FALSE])
                 [] OTHER ->
                       IF l \notin DOMAIN copy THEN copy
                       ELSE Put(copy, l, [obj     |-> f.obj,
                                          version |-> IF f.reply = 0 THEN copy[l].version
                                                      ELSE f.reply,
                                          extra   |-> f.reply = 0])
    /\ Move(e, "mark")
    /\ Fill(e, [kind |-> f.kind, local |-> l, obj |-> f.obj, seen |-> f.seen,
                base |-> f.base, reply |-> f.reply])
    /\ UNCHANGED <<log, server, states, cursor, pulling, handled, faults>>

\* _markSyncedFromResult: markSynced with the version of the answer, or markPending,
\* which leaves the version that is there.  Both insert the row when it is gone.
MarkResult(e) ==
    LET f   == form[e]
        old == IF f.local \in DOMAIN states THEN states[f.local].version ELSE 0
    IN
    /\ stage[e] = "mark"
    /\ states' = Put(states, f.local,
                     [obj |-> f.obj, version |-> IF f.reply = 0 THEN old ELSE f.reply])
    /\ Move(e, "done")
    /\ UNCHANGED <<log, server, copy, cursor, pulling, form, handled, faults>>

\* The user closes the form, or the app is killed: the database stays.
CloseForm(e) ==
    /\ stage[e] = "open"
    /\ Move(e, "done")
    /\ UNCHANGED <<log, server, database, pulling, form, handled, faults>>

Crash ==
    /\ ~Quiet
    /\ Fault
    /\ pc' = [p \in Pulls |-> "idle"]
    /\ at' = [p \in Pulls |-> 0]
    /\ page' = [p \in Pulls |-> {}]
    /\ next' = [p \in Pulls |-> 0]
    /\ full' = [p \in Pulls |-> FALSE]
    /\ now' = [p \in Pulls |-> 0]
    /\ found' = [p \in Pulls |-> NoRow]
    /\ failed' = [p \in Pulls |-> FALSE]
    /\ stage' = [e \in Edits |-> IF stage[e] = "idle" THEN "idle" ELSE "done"]
    /\ UNCHANGED <<log, server, database, form, handled>>

-----------------------------------------------------------------------------

Init ==
    /\ log = <<>>
    /\ server = [o \in Objects |-> [version |-> 0, live |-> FALSE]]
    /\ copy = Nothing
    /\ states = Nothing
    /\ cursor = 0
    /\ pc = [p \in Pulls |-> "idle"]
    /\ at = [p \in Pulls |-> 0]
    /\ page = [p \in Pulls |-> {}]
    /\ next = [p \in Pulls |-> 0]
    /\ full = [p \in Pulls |-> FALSE]
    /\ now = [p \in Pulls |-> 0]
    /\ found = [p \in Pulls |-> NoRow]
    /\ failed = [p \in Pulls |-> FALSE]
    /\ stage = [e \in Edits |-> "idle"]
    /\ form = [e \in Edits |-> NoForm]
    /\ handled = {}
    /\ faults = 0

ApplyStep(p) ==
    \/ \E i \in page[p], l \in LocalIds \cup {NoRow} : ReadState(p, i, l)
    \/ DeleteCopy(p) \/ RemoveState(p) \/ UpsertCopy(p) \/ MarkSynced(p)
PullStep(p) == Fetch(p) \/ ApplyStep(p) \/ EndPage(p) \/ Ack(p) \/ SaveCursor(p)
EditStep(e) == ReadBase(e) \/ Send(e) \/ WriteCopy(e) \/ MarkResult(e)

Next ==
    \/ \E o \in Objects, a \in {"upsert", "delete"} : OtherWrite(o, a)
    \/ \E p \in Pulls : StartPull(p) \/ PullStep(p) \/ ChangeFails(p) \/ RequestFails(p)
    \/ \E e \in Edits :
          \/ \E kind \in Kinds, l \in LocalIds : OpenForm(e, kind, l)
          \/ \E o \in Objects : StartCreate(e, o)
          \/ EditStep(e) \/ CloseForm(e) \/ AnswerLost(e)
    \/ Crash

Spec == Init /\ [][Next]_vars

\* Timers start pulls for ever, and a pull that can go on does, because nothing
\* it waits for is held by anybody else.
Fairness == \A p \in Pulls : WF_vars(StartPull(p)) /\ WF_vars(PullStep(p))

FairSpec == Spec /\ Fairness

-----------------------------------------------------------------------------
(* Properties                                                              *)

PartialMap(f, keys, values) == DOMAIN f \subseteq keys /\ f \in [DOMAIN f -> values]

TypeOK ==
    /\ log \in Seq(Change)
    /\ server \in [Objects -> ServerRow]
    /\ PartialMap(copy, LocalIds, Copy)
    /\ PartialMap(states, LocalIds, State)
    /\ cursor \in Nat
    /\ pc \in [Pulls -> {"idle", "fetch", "read", "delete", "forget", "upsert", "mark",
                         "ack", "save"}]
    /\ at \in [Pulls -> Nat]
    /\ page \in [Pulls -> SUBSET (Nat \ {0})]
    /\ next \in [Pulls -> Nat]
    /\ full \in [Pulls -> BOOLEAN]
    /\ now \in [Pulls -> Nat]
    /\ found \in [Pulls -> LocalIds \cup {NoRow}]
    /\ failed \in [Pulls -> BOOLEAN]
    /\ stage \in [Edits -> {"idle", "open", "send", "local", "mark", "done"}]
    /\ form \in [Edits -> Form]
    /\ handled \in SUBSET (Nat \ {0})
    /\ faults \in Nat

\* The saved cursor never passes a change of another device that was not applied
\* or skipped on purpose, whatever fails, whichever pull saves last, and however
\* the page was sorted: what a crash or an error leaves undone is pulled again.
NothingSkipped == \A i \in Theirs(0) : i <= cursor => i \in handled

CaughtUp == Theirs(cursor) = {}

\* The device shows object o once, as the server has it, and knows its version;
\* of an object the server does not have, it shows nothing.
Mirrors(o) ==
    LET shown == {l \in DOMAIN copy : copy[l].obj = o} IN
    IF ~server[o].live THEN shown = {}
    ELSE /\ Cardinality(shown) = 1
         /\ \A l \in shown :
               /\ copy[l] = [obj |-> o, version |-> server[o].version, extra |-> FALSE]
               /\ l \in DOMAIN states
               /\ states[l] = [obj |-> o, version |-> server[o].version]

\* A device that has pulled to the end and has nothing under way holds what the
\* server holds: the read cache is the consequence of what the server accepted.
Converged == Quiet /\ CaughtUp => \A o \in Objects : Mirrors(o)

\* The same as long as nothing has failed.
ConvergedUnlessFailed == faults = 0 => Converged

\* An update of this device replaced the very version its user had on the screen.
NoBlindOverwrite ==
    \A i \in DOMAIN log : log[i].mine /\ log[i].action = "upsert" =>
        log[i].version = log[i].seen + 1

\* What the steps of a pull and of an edit rely on: the page names logged changes,
\* and whatever is about to be written has a local row.
StepsKnow ==
    /\ \A p \in Pulls :
          /\ page[p] \subseteq DOMAIN log
          /\ pc[p] \in {"delete", "forget", "upsert", "mark"} => now[p] \in DOMAIN log
          /\ pc[p] \in {"delete", "forget", "mark"} => found[p] # NoRow
    /\ \A e \in Edits :
          /\ stage[e] \in {"open", "send", "local"} /\ form[e].kind # "create"
                => form[e].local # NoRow
          /\ stage[e] = "mark" => form[e].local # NoRow

\* Everything of other devices up to n has been applied or skipped on purpose.
Reached(n) == n \in 0..Len(log) /\ \A i \in Theirs(0) : i <= n => i \in handled

\* Why NothingSkipped holds: a pull goes on from a place that was reached; up to its
\* nextCursor everything is handled or still in its page, unless a change failed,
\* and then it neither acknowledges nor saves.
CursorsReached ==
    /\ Reached(cursor)
    /\ \A p \in Pulls :
          /\ Reached(at[p])
          /\ next[p] \in 0..Len(log)
          /\ pc[p] \in {"read", "delete", "forget", "upsert", "mark"} /\ ~failed[p] =>
                \A i \in Theirs(0) : i <= next[p] => i \in handled \cup page[p]
          /\ pc[p] \in {"ack", "save"} => Reached(next[p])

\* The inductive invariant of the proofs.
IInv == TypeOK /\ StepsKnow /\ CursorsReached

\* Why NoBlindOverwrite holds when nothing overlaps: a row is at least as new as its state
\* says and never newer than the server, so that an update whose base the server still has
\* was made on that very version.
Busy(e) == stage[e] \in {"open", "send", "local", "mark"}

OneAtATime ==
    /\ \A p, q \in Pulls : pc[p] # "idle" /\ pc[q] # "idle" => p = q
    /\ \A d, e \in Edits : Busy(d) /\ Busy(e) => d = e
    /\ \A p \in Pulls, e \in Edits : pc[p] = "idle" \/ ~Busy(e)

LogFits == \A i \in DOMAIN log : log[i].version \in 1..server[log[i].obj].version

RowFits(l) ==
    /\ l \in DOMAIN states => states[l].version # 0
    /\ l \in DOMAIN copy => copy[l].version <= server[copy[l].obj].version
    /\ l \in DOMAIN states \cap DOMAIN copy =>
         copy[l].obj = states[l].obj /\ states[l].version <= copy[l].version

PullFits(p) ==
    LET l == found[p]
        c == log[now[p]] IN
    /\ pc[p] = "upsert" /\ l # NoRow =>
         l \in DOMAIN states /\ states[l].obj = c.obj /\ states[l].version < c.version
    /\ pc[p] = "mark" /\ l \in DOMAIN copy =>
         copy[l].obj = c.obj /\ copy[l].version = c.version

EditFits(e) ==
    LET f == form[e]
        l == f.local IN
    /\ Busy(e) => f.kind # "none"
    /\ stage[e] = "open" => f.kind # "create"
    /\ stage[e] \in {"open", "send"} /\ f.kind # "create" =>
         l \in DOMAIN copy /\ f.seen = copy[l].version
    /\ stage[e] = "send" /\ f.kind # "create" => l \in DOMAIN states /\ f.base = states[l].version
    /\ stage[e] = "send" /\ f.kind = "create" => f.seen = 0 /\ server[f.obj].version = 0
    /\ stage[e] \in {"send", "local", "mark"} /\ f.kind # "create" =>
         l \in DOMAIN states /\ f.obj = states[l].obj
    /\ stage[e] \in {"local", "mark"} =>
         /\ f.reply <= server[f.obj].version
         /\ f.kind = "create" => f.reply # 0
    /\ stage[e] = "local" /\ f.kind = "update" /\ f.reply # 0 => f.base < f.reply
    /\ stage[e] = "local" /\ f.kind = "update" => f.base = states[l].version
    /\ stage[e] = "mark" /\ l \in DOMAIN copy =>
         copy[l].obj = f.obj /\ (f.reply # 0 => f.reply <= copy[l].version)

SerialInv ==
    /\ IInv
    /\ OneAtATime /\ LogFits /\ NoBlindOverwrite
    /\ \A l \in LocalIds : RowFits(l)
    /\ \A p \in Pulls : PullFits(p)
    /\ \A e \in Edits : EditFits(e)

\* Why ConvergedUnlessFailed holds when nothing overlaps, nobody restores and the ids have
\* the same number of digits: of an object the server has, every change the device does not
\* know is still due to it; of one the server has no more, the deletion is due, or the
\* device shows nothing and knows whatever is due (Agrees).
OneLength == \A i, j \in 1..MaxChanges : Len(Digits(ChangeId(i))) = Len(Digits(ChangeId(j)))

\* Change i is above the saved cursor, and a pull that runs still has it before it.
Due(i) ==
    /\ ~log[i].mine /\ i > cursor
    /\ \A p \in Pulls : /\ pc[p] = "fetch" => i > at[p]
                        /\ pc[p] \notin {"idle", "fetch"} => i > next[p] \/ i \in page[p]

\* A state, or an answer on its way into one, is at least as new as change i.
Known(i) ==
    \/ \E l \in DOMAIN states : states[l].obj = log[i].obj /\ log[i].version <= states[l].version
    \/ \E e \in Edits : /\ stage[e] \in {"local", "mark"} /\ form[e].obj = log[i].obj
                        /\ log[i].version <= form[e].reply

\* A row whose state is about to be saved.
Marking(l) == \/ \E p \in Pulls : pc[p] = "mark" /\ found[p] = l
              \/ \E e \in Edits : stage[e] = "mark" /\ form[e].local = l

NoneOf(o) == /\ \A l \in DOMAIN states : states[l].obj # o
             /\ \A l \in DOMAIN copy : copy[l].obj # o
Doomed(o) == \E d \in DOMAIN log : log[d].obj = o /\ log[d].action = "delete" /\ Due(d)
Shows(l, o, v) == l \in DOMAIN copy /\ copy[l] = [obj |-> o, version |-> v, extra |-> FALSE]

LogTells ==
    /\ \A i, j \in DOMAIN log :
          i < j /\ log[i].obj = log[j].obj => log[i].version < log[j].version
    /\ \A i \in DOMAIN log : log[i].action = "delete" =>
          ~server[log[i].obj].live /\ log[i].version = server[log[i].obj].version
    /\ \A o \in Objects : server[o].live =>
          \E i \in DOMAIN log : log[i].obj = o /\ log[i].version = server[o].version
    /\ Len(log) <= MaxChanges
    /\ (\E e \in Edits : stage[e] \in {"open", "send"}) => Len(log) < MaxChanges

OneRow ==
    /\ \A l \in DOMAIN states : states[l].version <= server[states[l].obj].version
    /\ \A l \in DOMAIN copy : l \in DOMAIN states \/ Marking(l)
    /\ \A l, m \in DOMAIN states : states[l].obj = states[m].obj => l = m
    /\ \A l, m \in DOMAIN copy : copy[l].obj = copy[m].obj => l = m
    /\ \A l \in DOMAIN copy, m \in DOMAIN states : copy[l].obj = states[m].obj => l = m

PullHolds(p) ==
    LET i == now[p]
        c == log[i]
        l == found[p] IN
    /\ ~failed[p]
    /\ pc[p] # "idle" => at[p] = cursor
    /\ pc[p] \notin {"idle", "fetch"} => at[p] <= next[p]
    /\ pc[p] \in {"idle", "fetch", "ack", "save"} => page[p] = {}
    /\ \A j \in page[p] : ~log[j].mine /\ j > cursor
    /\ pc[p] \in {"delete", "forget", "upsert", "mark"} =>
         /\ i \in page[p]
         /\ \A j \in page[p] : log[j].obj = c.obj => i <= j
         /\ c.action = "upsert" <=> pc[p] \in {"upsert", "mark"}
    /\ pc[p] \in {"delete", "forget"} => l \in DOMAIN states /\ states[l].obj = c.obj
    /\ pc[p] = "forget" => l \notin DOMAIN copy
    /\ pc[p] = "upsert" /\ l = NoRow => NoneOf(c.obj)
    /\ pc[p] = "mark" =>
         /\ l \in DOMAIN copy \cup DOMAIN states
         /\ l \in DOMAIN states => states[l].obj = c.obj /\ states[l].version < c.version
         /\ server[c.obj].live => Shows(l, c.obj, c.version)

EditHolds(e) ==
    LET f == form[e]
        l == f.local IN
    stage[e] \in {"local", "mark"} =>
      /\ f.reply = 0 \/ f.kind = "delete" => ~server[f.obj].live /\ server[f.obj].version # 0
      /\ f.kind # "create" /\ f.reply # 0 => states[l].version <= f.reply
      /\ stage[e] = "local" /\ f.kind = "create" =>
           NoneOf(f.obj) /\ (server[f.obj].live \/ Doomed(f.obj))
      /\ stage[e] = "mark" /\ f.kind = "create" => l \in DOMAIN copy \ DOMAIN states
      /\ stage[e] = "mark" /\ server[f.obj].live => Shows(l, f.obj, f.reply)

Agrees(o) ==
    IF server[o].live
    THEN /\ \A i \in DOMAIN log : log[i].obj = o => Known(i) \/ Due(i)
         /\ \A l \in DOMAIN states :
               states[l].obj = o => Marking(l) \/ Shows(l, o, states[l].version)
    ELSE \/ Doomed(o)
         \/ /\ \A i \in DOMAIN log : log[i].obj = o /\ Due(i) => Known(i)
            /\ \A l \in DOMAIN copy : copy[l].obj = o =>
                  \E e \in Edits : /\ stage[e] = "local" /\ form[e].kind = "delete"
                                   /\ form[e].local = l

Mirroring ==
    /\ LogTells /\ OneRow
    /\ \A p \in Pulls : PullHolds(p)
    /\ \A e \in Edits : EditHolds(e)
    /\ \A o \in Objects : Agrees(o)

MirrorInv == SerialInv /\ (faults = 0 => Mirroring)

\* Once the other devices and the faults stop, the device reads the log to its
\* end and its cursor stays there.
CatchesUp == <>[]CaughtUp
=============================================================================
