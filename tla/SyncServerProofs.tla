-------------------------- MODULE SyncServerProofs --------------------------
(***************************************************************************)
(* Theorems about SyncServer for any number of sessions, devices, writes,  *)
(* objects and requests.  The argument is one inductive invariant, IInv:   *)
(* a row written by a running transaction is locked by it (LocksExclusive) *)
(* and the change log, as committed and as each transaction sees it, tells *)
(* the versions of every row it shows (LogTellsRows).  From it follow that *)
(* the committed log is dense and ordered and that the tables implement    *)
(* the append-only history of VersionLog.                                  *)
(***************************************************************************)
EXTENDS SyncServer, SequenceTheorems, TLAPS

USE DEF tables, devices, private, bounds

\* Empty tables and idle sessions are well typed.
LEMMA TypeInit == Init => TypeOK
  BY BoundsAssumption, WritesAssumption, SwitchAssumption
  DEF Init, TypeOK, PartialMaps, AbsentRow, EmptyPayload, NotRecorded, NotIssued, NoJob,
      Nothing, Row, Outcome, Intent, Job, Objects, NoObject

\* A user's edit keeps the types.
LEMMA TypeEdit ==
    ASSUME TypeOK, NEW w \in Writes, NEW a \in {"upsert", "delete"},
           NEW o \in Objects \cup {NoObject}, NEW u \in Uids \cup {Blank}, NEW b \in Nat,
           Edit(w, a, o, u, b)
    PROVE  TypeOK'
  BY DEF TypeOK, Edit, PartialMaps, Intent

\* So does taking a connection for a request, whatever the request.
LEMMA TypeBegin ==
    ASSUME TypeOK, NEW s \in Sessions, NEW j \in Job, NEW ws \in Seq(Writes \cup {Blank}),
           NEW st \in {"lookup", "find", "write"}, NEW o \in Objects \cup {NoObject},
           Begin(s, j, ws, st, o)
    PROVE  TypeOK'
  BY DEF TypeOK, Begin, PartialMaps

\* So does findProcessedMutation when it finds nothing.
LEMMA TypeLookupMiss == ASSUME TypeOK, NEW s \in Sessions, LookupMiss(s) PROVE TypeOK'
  BY DEF TypeOK, LookupMiss, PartialMaps

\* So does a pull: cursors and change ids stay numbers.
LEMMA TypePull == ASSUME TypeOK, NEW d \in Devices, Pull(d) PROVE TypeOK'
  <1>1. Page(d) \subseteq Change BY DEF TypeOK, Page, Candidates
  <1>2. got' \in [Devices -> SUBSET (Nat \ {0})] BY <1>1 DEF TypeOK, Pull, Change
  <1>3. cursor' \in [Devices -> Nat]
    <2>1. PICK last \in Page(d) : cursor' = [cursor EXCEPT ![d] = last.id] BY DEF Pull
    <2> QED BY <1>1, <2>1 DEF TypeOK, Change
  <1> QED BY <1>2, <1>3 DEF TypeOK, Pull, PartialMaps

\* Updating the elements of a sequence one by one gives a sequence.
LEMMA SeqMap ==
    ASSUME NEW S, NEW q \in Seq(S), NEW F, F \in [DOMAIN q -> S]
    PROVE  F \in Seq(S)
  OBVIOUS

\* So does the purge of old mutations.
LEMMA TypePurge == ASSUME TypeOK, NEW old \in SUBSET Writes, Purge(old) PROVE TypeOK'
  <1>1. outcomes' \in [Writes -> Outcome]
    <2>1. NotRecorded \in Outcome BY DEF NotRecorded, Outcome, NoObject
    <2> QED BY <2>1 DEF TypeOK, Purge
  <1>2. conflicts' \in Seq(Conflict)
    <2>1. \A c \in Conflict : [c EXCEPT !.write = Blank] \in Conflict BY DEF Conflict
    <2>2. \A i \in DOMAIN conflicts : conflicts[i] \in Conflict BY DEF TypeOK
    <2>3. conflicts' \in [DOMAIN conflicts -> Conflict] BY <2>1, <2>2 DEF Purge
    <2> QED BY <2>3, SeqMap DEF TypeOK
  <1>3. /\ UNCHANGED <<rows, changes, seq, intent, pc, job, todo, target, seen, private,
                      replies, answers, devices, begun>>
        /\ purges' = purges + 1
    BY DEF Purge
  <1> QED BY <1>1, <1>2, <1>3 DEF TypeOK, PartialMaps

\* The head and the tail of a non-empty queue of mutations.
LEMMA RestOfTodo ==
    ASSUME TypeOK, NEW s \in Sessions, todo[s] # <<>>
    PROVE  W(s) \in Writes \cup {Blank} /\ Tail(todo[s]) \in Seq(Writes \cup {Blank})
  BY DEF TypeOK, W

\* recordChange inserts a well-typed change.
LEMMA TypeLogChange == ASSUME TypeOK, Requests, NEW s \in Sessions, LogChange(s) PROVE TypeOK'
  <1> DEFINE row == draft[s][target[s]]
             by  == IF job[s].kind = "resolve" THEN Blank ELSE W(s)
             new == [id |-> NextChangeId(s), obj |-> target[s], device |-> job[s].device,
                     version |-> draft[s][target[s]].version, payload |-> ChangePayload(s),
                     action |-> IF IsDeletion(s) THEN "delete" ELSE "upsert",
                     by |-> by]
  <1>1. target[s] \in Objects /\ row \in Row
    BY DEF TypeOK, Requests, LogChange, PartialMaps
  <1>2. by \in Writes \cup {Blank}
    BY RestOfTodo DEF TypeOK, Requests, LogChange
  <1>3. job[s].device \in Devices BY DEF TypeOK, Job
  <1>4. NextChangeId(s) \in Nat \ {0} BY DEF TypeOK, NextChangeId
  <1>5. new \in Change
    <2> HIDE DEF by
    <2> QED BY <1>1, <1>2, <1>3, <1>4 DEF Change, Row, ChangePayload
  <1>6. logged' = [logged EXCEPT ![s] = @ \cup {new}] BY DEF LogChange
  <1>7. logged' \in [Sessions -> SUBSET Change]
    <2> HIDE DEF new
    <2> QED BY <1>5, <1>6 DEF TypeOK
  <1>8. /\ pc' = [pc EXCEPT ![s] = IF job[s].kind = "push" THEN "record" ELSE "commit"]
        /\ seq' = seq + 1
        /\ UNCHANGED <<tables, intent, job, todo, target, seen, draft, noted, raised,
                       replies, answers, devices, bounds>>
    BY DEF LogChange
  <1> QED BY <1>7, <1>8 DEF TypeOK, PartialMaps

\* A session that ends, by COMMIT or ROLLBACK, leaves well-typed tables behind.
LEMMA TypeRelease ==
    ASSUME TypeOK, NEW s \in Sessions, Release(s),
           rows' \in [Objects -> Row], changes' \in SUBSET Change,
           outcomes' \in [Writes -> Outcome], conflicts' \in Seq(Conflict),
           answers' \in SUBSET Answer, UNCHANGED <<seq, intent, devices, bounds>>
    PROVE  TypeOK'
  <1>1. NoJob \in Job /\ AbsentRow \in Row
    BY WritesAssumption DEF NoJob, AbsentRow, EmptyPayload, Job, Row
  <1>2. Nothing \in [{} -> Row] /\ Nothing \in [{} -> Outcome] /\ DOMAIN Nothing = {}
    BY DEF Nothing
  <1>3. PartialMaps(draft', Objects, Row)
    BY <1>2 DEF TypeOK, Release, PartialMaps
  <1>4. PartialMaps(noted', Writes, Outcome)
    BY <1>2 DEF TypeOK, Release, PartialMaps
  <1> QED BY <1>1, <1>3, <1>4 DEF TypeOK, Release

\* What a session sees of an object is a row.
LEMMA VisibleRow ==
    ASSUME TypeOK, NEW s \in Sessions, NEW o \in Objects
    PROVE  Visible(s, o) \in Row
  BY DEF TypeOK, PartialMaps, Visible

\* The same, when the SELECT may have found no object.
LEMMA RowOfRow ==
    ASSUME TypeOK, NEW s \in Sessions, NEW o \in Objects \cup {NoObject} PROVE RowOf(s, o) \in Row
  BY VisibleRow DEF RowOf, AbsentRow, EmptyPayload, Row, NoObject

\* findTargetObject returns an object or nothing.
LEMMA FoundObject ==
    ASSUME TypeOK, NEW s \in Sessions, NEW i \in Intent
    PROVE  FindTargetObject(s, i) \in Objects \cup {NoObject}
  BY DEF FindTargetObject, LiveWith, Intent

\* Outside resolveConflict the head of the queue is a mutation a user made.
LEMMA CurrentMutation ==
    ASSUME TypeOK, Requests, NEW s \in Sessions, todo[s] # <<>>, job[s].kind # "resolve"
    PROVE  W(s) \in Writes /\ intent[W(s)] \in Intent
  BY DEF TypeOK, Requests, W

\* A replayed answer is well typed, and so is what is left of the batch.
LEMMA TypeReplay ==
    ASSUME TypeOK, Requests, AcceptedHaveObjects, NEW s \in Sessions, Replay(s) PROVE TypeOK'
  <1>1. todo[s] # <<>> /\ job[s].kind = "push" /\ pc[s] = "lookup" BY DEF Requests, Replay
  <1>2. W(s) \in Writes BY <1>1, CurrentMutation
  <1> DEFINE outcome == OutcomeOf(s, W(s))
  <1>3. outcome \in Outcome BY <1>2 DEF OutcomeOf, TypeOK, PartialMaps
  <1>4. replies' \in [Sessions -> SUBSET Answer]
    <2>1. CASE outcome.result = "accepted" /\ Reply(s, "accepted", outcome.obj, Visible(s, outcome.obj).version)
      <3>1. outcome.obj \in Objects
        BY <1>2, <1>3, <2>1 DEF AcceptedHaveObjects, OutcomeOf, Outcome
      <3>2. Visible(s, outcome.obj).version \in Nat BY <3>1, VisibleRow DEF Row
      <3> QED BY <1>2, <2>1, <3>1, <3>2 DEF TypeOK, Reply, Answer
    <2>2. CASE UNCHANGED replies BY <2>2 DEF TypeOK
    <2>3. ASSUME NEW c \in {conflicts[i] : i \in DOMAIN conflicts}
                           \cup {raised[s][i] : i \in DOMAIN raised[s]},
                 Reply(s, "conflict", c.obj, c.version)
          PROVE  replies' \in [Sessions -> SUBSET Answer]
      <3>1. c \in Conflict BY DEF TypeOK
      <3> QED BY <1>2, <2>3, <3>1 DEF TypeOK, Reply, Answer, Conflict
    <2>4. CASE Reply(s, "rejected", outcome.obj, 0)
      BY <1>2, <1>3, <2>4 DEF TypeOK, Reply, Answer, Outcome
    <2> QED BY <2>1, <2>2, <2>3, <2>4 DEF Replay
  <1> QED BY <1>1, <1>4, RestOfTodo DEF TypeOK, Replay, NextMutation, PartialMaps

\* The SELECT of a push keeps the types.
LEMMA TypeFindForPush ==
    ASSUME TypeOK, Requests, NEW s \in Sessions, FindForPush(s) PROVE TypeOK'
  <1>1. W(s) \in Writes /\ intent[W(s)] \in Intent BY CurrentMutation DEF Requests, FindForPush
  <1>2. FindTargetObject(s, intent[W(s)]) \in Objects \cup {NoObject} BY <1>1, FoundObject
  <1>3. RowOf(s, FindTargetObject(s, intent[W(s)])) \in Row BY <1>2, RowOfRow
  <1> QED BY <1>2, <1>3 DEF TypeOK, FindForPush, PartialMaps

\* The SELECT of a web request keeps the types.
LEMMA TypeFindForWeb ==
    ASSUME TypeOK, Requests, NEW s \in Sessions, FindForWeb(s) PROVE TypeOK'
  <1>1. intent[W(s)] \in Intent BY CurrentMutation DEF Requests, FindForWeb
  <1>2. RowOf(s, intent[W(s)].obj) \in Row BY <1>1, RowOfRow DEF Intent
  <1> QED BY <1>2 DEF TypeOK, FindForWeb, PartialMaps

\* The SELECT of resolveConflict keeps the types.
LEMMA TypeFindConflict == ASSUME TypeOK, Requests, NEW s \in Sessions, FindConflict(s) PROVE TypeOK'
  <1>1. conflicts[job[s].conflict] \in Conflict BY DEF TypeOK, Requests, FindConflict
  <1> QED BY <1>1 DEF TypeOK, FindConflict, PartialMaps, Conflict

\* The frame of the four statements that write a row.
LEMMA TypeToLog ==
    ASSUME TypeOK, NEW s \in Sessions, NEW o \in Objects, NEW new,
           DOMAIN new \subseteq Objects, new \in [DOMAIN new -> Row], ToLog(s, o, new),
           UNCHANGED <<tables, seq, intent, job, todo, seen, logged, noted, raised, replies,
                       answers, devices, bounds>>
    PROVE  TypeOK'
  <1>1. PartialMaps(draft', Objects, Row) BY DEF TypeOK, ToLog, PartialMaps
  <1> QED BY <1>1 DEF TypeOK, ToLog, PartialMaps

\* The frame of a statement that matched no row or raised an SQL error.
LEMMA TypeNoWrite ==
    ASSUME TypeOK, NEW s \in Sessions, SqlError(s) \/ RowGone(s),
           UNCHANGED <<tables, seq, intent, job, todo, seen, logged, noted, raised, replies,
                       answers, devices, bounds>>
    PROVE  TypeOK'
  BY DEF TypeOK, SqlError, RowGone, PartialMaps

\* payload || patch is a payload.
LEMMA MergeType ==
    ASSUME NEW p \in [Fields -> Writes \cup {Blank}], NEW w \in Writes \cup {Blank}
    PROVE  Merge(p, w) \in [Fields -> Writes \cup {Blank}]
  BY DEF Merge

\* A new uuid is one nobody uses.
LEMMA FreshIsUnused == Unused # {} => FreshObject \in Unused
  BY DEF FreshObject

\* What a session has written, after it wrote one more row.
LEMMA PutType ==
    ASSUME TypeOK, NEW s \in Sessions, NEW o \in Objects, NEW r \in Row
    PROVE  /\ DOMAIN Put(draft[s], o, r) = DOMAIN draft[s] \cup {o}
           /\ DOMAIN Put(draft[s], o, r) \subseteq Objects
           /\ Put(draft[s], o, r) \in [DOMAIN Put(draft[s], o, r) -> Row]
           /\ Put(draft[s], o, r)[o] = r
           /\ \A p \in DOMAIN draft[s] \ {o} : Put(draft[s], o, r)[p] = draft[s][p]
  BY DEF TypeOK, PartialMaps, Put

\* One row written, then the change is logged.
LEMMA TypePut ==
    ASSUME TypeOK, NEW s \in Sessions, NEW o \in Objects, NEW r \in Row,
           ToLog(s, o, Put(draft[s], o, r)),
           UNCHANGED <<tables, seq, intent, job, todo, seen, logged, noted, raised, replies,
                       answers, devices, bounds>>
    PROVE  TypeOK'
  <1> DEFINE put == Put(draft[s], o, r)
  <1>1. DOMAIN put \subseteq Objects /\ put \in [DOMAIN put -> Row] BY PutType
  <1>2. ToLog(s, o, put) OBVIOUS
  <1> HIDE DEF put
  <1> QED BY <1>1, <1>2, TypeToLog

\* INSERT INTO sync_objects keeps the types.
LEMMA TypeInsertRow ==
    ASSUME TypeOK, Requests, NEW s \in Sessions, InsertRow(s) PROVE TypeOK'
  <1> DEFINE kept == job[s].kind = "resolve"
             uid  == IF kept THEN Blank ELSE intent[W(s)].uid
             row  == [state   |-> IF ~kept /\ intent[W(s)].action = "delete"
                                  THEN "deleted" ELSE "live",
                      uid     |-> uid,
                      version |-> 1,
                      payload |-> Merge(EmptyPayload, W(s))]
  <1>1. pc[s] = "write" /\ todo[s] # <<>> BY DEF InsertRow, Requests
  <1>2. uid \in Uids \cup {Blank}
    BY <1>1, CurrentMutation DEF Intent
  <1>3. Merge(EmptyPayload, W(s)) \in [Fields -> Writes \cup {Blank}]
    <2>1. EmptyPayload \in [Fields -> Writes \cup {Blank}] BY DEF EmptyPayload
    <2> QED BY <1>1, <2>1, RestOfTodo, MergeType
  <1>4. row \in Row
    <2> HIDE DEF uid, kept
    <2> QED BY <1>2, <1>3 DEF Row
  <1>5. FreshObject \in Objects BY FreshIsUnused DEF InsertRow, Unused
  <1>6. UNCHANGED <<tables, seq, intent, job, todo, seen, logged, noted, raised, replies,
                    answers, devices, bounds>>
    BY DEF InsertRow
  <1>7. SqlError(s) \/ ToLog(s, FreshObject, Put(draft[s], FreshObject, row))
    BY DEF InsertRow
  <1>8. CASE SqlError(s) BY <1>6, <1>8, TypeNoWrite
  <1>9. CASE ToLog(s, FreshObject, Put(draft[s], FreshObject, row))
    <2> HIDE DEF row
    <2> QED BY <1>4, <1>5, <1>6, <1>9, TypePut
  <1> QED BY <1>7, <1>8, <1>9

\* The soft deletion keeps the types.
LEMMA TypeDeleteRow ==
    ASSUME TypeOK, NEW s \in Sessions, DeleteRow(s) PROVE TypeOK'
  <1> DEFINE o == target[s]
             new == DeletedRow(Visible(s, o))
  <1>1. o \in Objects BY DEF TypeOK, DeleteRow
  <1>2. new \in Row BY <1>1, VisibleRow DEF Row, DeletedRow
  <1>3. UNCHANGED <<tables, seq, intent, job, todo, seen, logged, noted, raised, replies,
                    answers, devices, bounds>>
    BY DEF DeleteRow
  <1>4. CASE RowGone(s) BY <1>3, <1>4, TypeNoWrite
  <1>5. CASE ToLog(s, o, Put(draft[s], o, new)) BY <1>1, <1>2, <1>3, <1>5, TypePut
  <1> QED BY <1>4, <1>5 DEF DeleteRow

\* The UPDATE of resolveConflict keeps the types.
LEMMA TypeResolveRow ==
    ASSUME TypeOK, Requests, NEW s \in Sessions, ResolveRow(s) PROVE TypeOK'
  <1> DEFINE o == target[s]
             new == ResolvedRow(s, Visible(s, o))
  <1>1. o \in Objects BY DEF TypeOK, Requests, ResolveRow
  <1>2. new \in Row
    <2>1. Visible(s, o) \in Row BY <1>1, VisibleRow
    <2>2. W(s) \in Writes \cup {Blank} BY RestOfTodo DEF Requests, ResolveRow
    <2>3. Merge(Visible(s, o).payload, W(s)) \in [Fields -> Writes \cup {Blank}]
      BY <2>1, <2>2, MergeType DEF Row
    <2> QED BY <2>1, <2>3 DEF Row, ResolvedRow
  <1>3. UNCHANGED <<tables, seq, intent, job, todo, seen, logged, noted, raised, replies,
                    answers, devices, bounds>>
    BY DEF ResolveRow
  <1>4. CASE RowGone(s) BY <1>3, <1>4, TypeNoWrite
  <1>5. CASE ToLog(s, o, Put(draft[s], o, new)) BY <1>1, <1>2, <1>3, <1>5, TypePut
  <1> QED BY <1>4, <1>5 DEF ResolveRow

\* The UPDATE of upsertObject and updateObject keeps the types.
LEMMA TypeUpdateRow ==
    ASSUME TypeOK, Requests, NEW s \in Sessions, UpdateRow(s) PROVE TypeOK'
  <1> DEFINE o == target[s]
             row == Visible(s, o)
             stale == StaleTombstones(s, o)
             new == [p \in DOMAIN draft[s] \cup {o} \cup stale |->
                       IF p = o THEN PatchRow(s, row)
                       ELSE IF p \in stale THEN PurgedRow ELSE draft[s][p]]
  <1>1. o \in Objects BY DEF TypeOK, UpdateRow
  <1>2. row \in Row BY <1>1, VisibleRow
  <1>3. todo[s] # <<>> /\ job[s].kind # "resolve" BY DEF Requests, UpdateRow
  <1>4. W(s) \in Writes /\ intent[W(s)].uid \in Uids \cup {Blank}
    BY <1>3, CurrentMutation DEF Intent
  <1>5. PatchRow(s, row) \in Row
    <2>1. Merge(row.payload, W(s)) \in [Fields -> Writes \cup {Blank}]
      BY <1>2, <1>4, MergeType DEF Row
    <2> QED BY <1>2, <1>4, <2>1 DEF Row, PatchRow, NewUid
  <1>6. PurgedRow \in Row BY DEF PurgedRow, AbsentRow, EmptyPayload, Row
  <1>7. stale \subseteq Objects BY DEF StaleTombstones
  <1>8. DOMAIN new \subseteq Objects /\ new \in [DOMAIN new -> Row]
    <2> HIDE DEF row, stale
    <2> QED BY <1>1, <1>5, <1>6, <1>7 DEF TypeOK, PartialMaps
  <1>9. UNCHANGED <<tables, seq, intent, job, todo, seen, logged, noted, raised, replies,
                    answers, devices, bounds>>
    BY DEF UpdateRow
  <1>10. RowGone(s) \/ SqlError(s) \/ ToLog(s, o, new) BY DEF UpdateRow
  <1>11. CASE RowGone(s) \/ SqlError(s) BY <1>9, <1>11, TypeNoWrite
  <1>12. CASE ToLog(s, o, new)
    <2> HIDE DEF new
    <2> QED BY <1>1, <1>8, <1>9, <1>12, TypeToLog
  <1> QED BY <1>10, <1>11, <1>12

\* What the three ways of recording a mutation have in common.
LEMMA TypeRecord ==
    ASSUME TypeOK, Requests, NEW s \in Sessions, todo[s] # <<>>, job[s].kind # "resolve",
           NEW result \in {"accepted", "conflict", "rejected"},
           NEW obj \in Objects \cup {NoObject}, NEW version \in Nat,
           RecordMutation(s, result, obj), Reply(s, result, obj, version), NextMutation(s)
    PROVE  /\ PartialMaps(noted', Writes, Outcome)
           /\ replies' \in [Sessions -> SUBSET Answer]
           /\ todo' \in [Sessions -> Seq(Writes \cup {Blank})]
           /\ pc' = [pc EXCEPT ![s] = IF Len(todo[s]) = 1 THEN "commit" ELSE "lookup"]
  <1>1. W(s) \in Writes BY CurrentMutation
  <1>2. PartialMaps(noted', Writes, Outcome)
    <2> DEFINE new == [result |-> result, obj |-> obj]
               put == Put(noted[s], W(s), new)
    <2>1. new \in Outcome BY DEF Outcome
    <2>2. DOMAIN put \subseteq Writes /\ put \in [DOMAIN put -> Outcome]
      <3> HIDE DEF new
      <3> QED BY <1>1, <2>1 DEF Put, TypeOK, PartialMaps
    <2>3. noted' = [noted EXCEPT ![s] = put] \/ noted' = [noted EXCEPT ![s] = @]
      BY DEF RecordMutation
    <2> HIDE DEF put
    <2> QED BY <2>2, <2>3 DEF TypeOK, PartialMaps
  <1>3. replies' \in [Sessions -> SUBSET Answer]
    BY <1>1 DEF TypeOK, Reply, Answer
  <1> QED BY <1>2, <1>3, RestOfTodo DEF TypeOK, NextMutation

\* Recording an accepted mutation keeps the types.
LEMMA TypeRecordAccepted ==
    ASSUME TypeOK, Requests, NEW s \in Sessions, RecordAccepted(s) PROVE TypeOK'
  <1>1. todo[s] # <<>> /\ job[s].kind = "push" BY DEF Requests, RecordAccepted
  <1>2. target[s] \in Objects /\ draft[s][target[s]].version \in Nat
    BY DEF TypeOK, Requests, RecordAccepted, PartialMaps, Row
  <1> QED BY <1>1, <1>2, TypeRecord DEF TypeOK, RecordAccepted, PartialMaps

\* Recording a rejected mutation keeps the types.
LEMMA TypeRecordRejected ==
    ASSUME TypeOK, Requests, NEW s \in Sessions, RecordRejected(s) PROVE TypeOK'
  <1> DEFINE obj == IF Exists(RowOf(s, target[s])) THEN target[s] ELSE NoObject
  <1>1. todo[s] # <<>> /\ job[s].kind = "push" BY DEF Requests, RecordRejected
  <1>2. obj \in Objects \cup {NoObject} BY DEF TypeOK
  <1>3. /\ RecordMutation(s, "rejected", obj) /\ Reply(s, "rejected", obj, 0) /\ NextMutation(s)
        /\ UNCHANGED <<tables, seq, intent, job, target, seen, draft, logged, raised,
                       answers, devices, bounds>>
    BY DEF RecordRejected
  <1> HIDE DEF obj
  <1> QED BY <1>1, <1>2, <1>3, TypeRecord DEF TypeOK, PartialMaps

\* Recording a conflict keeps the types.
LEMMA TypeRecordConflict ==
    ASSUME TypeOK, Requests, NEW s \in Sessions, RecordConflict(s) PROVE TypeOK'
  <1>1. todo[s] # <<>> /\ job[s].kind = "push" BY DEF Requests, RecordConflict
  <1>2. target[s] \in Objects BY DEF TypeOK, Requests, RecordConflict
  <1>3. UNCHANGED <<tables, seq, intent, job, seen, logged, answers, devices, bounds>>
    BY DEF RecordConflict
  <1>4. CASE SqlError(s) /\ UNCHANGED <<noted, raised, replies, todo>>
    BY <1>3, <1>4 DEF TypeOK, SqlError, PartialMaps
  <1>5. CASE /\ RecordMutation(s, "conflict", target[s])
             /\ Reply(s, "conflict", target[s], seen[s].version)
             /\ AfterConflict(s)
             /\ UNCHANGED <<draft, target>>
             /\ raised' = [raised EXCEPT ![s] = Append(@,
                   [write |-> W(s), obj |-> target[s], version |-> seen[s].version,
                    status |-> "open"])]
    <2> DEFINE new == [write |-> W(s), obj |-> target[s], version |-> seen[s].version,
                       status |-> "open"]
    <2>1. seen[s].version \in Nat BY DEF TypeOK, Row
    <2>2. W(s) \in Writes BY <1>1, CurrentMutation
    <2>3. new \in Conflict BY <1>2, <2>1, <2>2 DEF Conflict
    <2>4. raised' \in [Sessions -> Seq(Conflict)]
      <3> HIDE DEF new
      <3>1. Append(raised[s], new) \in Seq(Conflict) BY <2>3 DEF TypeOK
      <3> QED BY <1>5, <3>1 DEF TypeOK, new
    <2> QED BY <1>1, <1>2, <1>3, <1>5, <2>1, <2>4, TypeRecord
        DEF TypeOK, PartialMaps, AfterConflict
  <1> QED BY <1>4, <1>5 DEF RecordConflict

\* Closing a conflict keeps sync_conflicts a sequence of conflicts.
LEMMA TypeSettled ==
    ASSUME TypeOK, NEW s \in Sessions PROVE Settled(s) \in Seq(Conflict)
  <1>1. \A c \in Conflict : [c EXCEPT !.status = "resolved"] \in Conflict BY DEF Conflict
  <1>2. \A i \in DOMAIN conflicts : conflicts[i] \in Conflict BY DEF TypeOK
  <1>3. Settled(s) \in [DOMAIN conflicts -> Conflict] BY <1>1, <1>2 DEF Settled
  <1> QED BY <1>3, SeqMap DEF TypeOK

\* COMMIT keeps the types.
LEMMA TypeCommit ==
    ASSUME TypeOK, NEW s \in Sessions, Commit(s) PROVE TypeOK'
  <1>1. rows' \in [Objects -> Row] BY VisibleRow DEF Commit
  <1>2. changes' \in SUBSET Change BY DEF TypeOK, Commit
  <1>3. outcomes' \in [Writes -> Outcome]
    BY DEF TypeOK, Commit, OutcomeOf, PartialMaps
  <1>4. conflicts' \in Seq(Conflict)
    <2>1. Settled(s) \in Seq(Conflict) /\ raised[s] \in Seq(Conflict)
      BY TypeSettled DEF TypeOK
    <2> QED BY <2>1 DEF Commit
  <1>5. answers' \in SUBSET Answer BY DEF TypeOK, Commit
  <1>6. Release(s) /\ UNCHANGED <<seq, intent, devices, bounds>> BY DEF Commit
  <1> QED BY <1>1, <1>2, <1>3, <1>4, <1>5, <1>6, TypeRelease

\* ROLLBACK keeps the types.
LEMMA TypeUndo ==
    ASSUME TypeOK, NEW s \in Sessions, Rollback(s) \/ Abort(s) PROVE TypeOK'
  BY TypeRelease DEF Rollback, Abort, TypeOK

-----------------------------------------------------------------------------
(* Requests: the program counter, the queue and the target fit together.   *)

\* A request begins with a queue and a statement that fit its kind.
LEMMA BegunRequest ==
    ASSUME TypeOK, Requests, NEW s \in Sessions, NEW j \in Job,
           NEW ws \in Seq(Writes \cup {Blank}), ws # <<>>,
           NEW st \in {"lookup", "find", "write"}, NEW o \in Objects \cup {NoObject},
           st = "lookup" => j.kind = "push",
           j.kind # "resolve" => ws \in Seq(Writes),
           j.kind = "resolve" => j.conflict \in DOMAIN conflicts /\ st = "find",
           Begin(s, j, ws, st, o)
    PROVE  TypeOK' /\ Requests'
  <1>1. TypeOK' BY TypeBegin
  <1>2. Requests' BY DEF TypeOK, Requests, Begin
  <1> QED BY <1>1, <1>2

\* ... in particular a push,
LEMMA BegunPush ==
    ASSUME TypeOK, Requests, NEW s \in Sessions, NEW n \in 1..MaxBatch,
           NEW batch \in [1..n -> Writes], BeginPush(s, batch)
    PROVE  TypeOK' /\ Requests'
  <1> DEFINE writes == {batch[i] : i \in DOMAIN batch}
             j == [kind |-> "push", device |-> Author[batch[1]], writes |-> writes,
                   conflict |-> 0, strategy |-> "none"]
  <1>1. n \in Nat /\ n > 0 BY BoundsAssumption
  <1>2. batch \in Seq(Writes) /\ batch \in Seq(Writes \cup {Blank}) /\ batch # <<>>
    BY <1>1
  <1>3. j \in Job
    <2>1. batch[1] \in Writes BY <1>1
    <2> QED BY <2>1, WritesAssumption DEF Job
  <1>4. Begin(s, j, batch, "lookup", NoObject) BY DEF BeginPush
  <1>5. j.kind = "push" OBVIOUS
  <1> HIDE DEF j
  <1> QED BY <1>2, <1>3, <1>4, <1>5, BegunRequest DEF NoObject

\* ... a web request,
LEMMA BegunWeb ==
    ASSUME TypeOK, Requests, NEW s \in Sessions, NEW w \in Writes, BeginWeb(s, w)
    PROVE  TypeOK' /\ Requests'
  <1> DEFINE j == [kind |-> WebKind(w), device |-> Author[w], writes |-> {w},
                   conflict |-> 0, strategy |-> "none"]
             st == IF WebKind(w) = "delete" THEN "write" ELSE "find"
  <1>1. j \in Job BY WritesAssumption DEF Job, WebKind
  <1>2. j.kind \notin {"resolve", "push"} BY DEF WebKind
  <1>3. intent[w].obj \in Objects \cup {NoObject} BY DEF TypeOK, Intent
  <1>4. Begin(s, j, <<w>>, st, intent[w].obj) BY DEF BeginWeb
  <1>5. st \in {"find", "write"} OBVIOUS
  <1>6. <<w>> \in Seq(Writes) /\ <<w>> \in Seq(Writes \cup {Blank}) /\ <<w>> # <<>> OBVIOUS
  <1> HIDE DEF j, st
  <1> QED BY <1>1, <1>2, <1>3, <1>4, <1>5, <1>6, BegunRequest

\* ... and a resolution, of a conflict that exists.
LEMMA BegunResolve ==
    ASSUME TypeOK, Requests, NEW s \in Sessions, NEW d \in Devices,
           NEW c \in DOMAIN conflicts, NEW st \in Strategies, BeginResolve(s, d, c, st)
    PROVE  TypeOK' /\ Requests'
  <1> DEFINE j == [kind |-> "resolve", device |-> d, writes |-> {}, conflict |-> c,
                   strategy |-> st]
  <1>1. c \in Nat BY DEF TypeOK
  <1>2. j \in Job BY <1>1 DEF Job
  <1>3. <<conflicts[c].write>> \in Seq(Writes \cup {Blank})
        /\ <<conflicts[c].write>> # <<>>
    <2>1. conflicts[c] \in Conflict BY DEF TypeOK
    <2>2. conflicts[c].write \in Writes \cup {Blank} BY <2>1 DEF Conflict
    <2> QED BY <2>2
  <1>4. Begin(s, j, <<conflicts[c].write>>, "find", NoObject) BY DEF BeginResolve
  <1>5. j.kind = "resolve" /\ j.conflict = c /\ "find" # "lookup" OBVIOUS
  <1> HIDE DEF j
  <1> QED BY <1>2, <1>3, <1>4, <1>5, BegunRequest

\* Going on with the next mutation of the batch keeps the request consistent.
LEMMA RequestsAfterMutation ==
    ASSUME TypeOK, Requests, NEW s \in Sessions, todo[s] # <<>>, job[s].kind = "push",
           NextMutation(s), UNCHANGED <<conflicts, job, target, draft>>
    PROVE  Requests'
  <1>1. todo[s] \in Seq(Writes) BY DEF Requests
  <1>2. /\ Tail(todo[s]) \in Seq(Writes) /\ Len(Tail(todo[s])) = Len(todo[s]) - 1
        /\ Len(todo[s]) \in Nat \ {0}
    BY <1>1, HeadTailProperties, EmptySeq
  <1>3. ASSUME Len(todo[s]) # 1 PROVE Tail(todo[s]) # <<>>
    <2>1. Len(Tail(todo[s])) # 0 BY <1>2, <1>3
    <2>2. Len(<<>>) = 0 OBVIOUS
    <2> QED BY <2>1, <2>2, Zenon
  <1> QED BY <1>2, <1>3 DEF TypeOK, Requests, NextMutation

\* The SELECTs keep the request consistent.
LEMMA RequestsReads ==
    ASSUME TypeOK, Requests, NEW s \in Sessions, ReadStep(s) PROVE Requests'
  <1>1. CASE LookupMiss(s) BY <1>1 DEF TypeOK, Requests, LookupMiss
  <1>2. CASE Replay(s)
    BY <1>2, RequestsAfterMutation DEF Requests, Replay
  <1>3. CASE FindForPush(s) BY <1>3 DEF TypeOK, Requests, FindForPush
  <1>4. CASE FindForWeb(s) BY <1>4 DEF TypeOK, Requests, FindForWeb
  <1>5. CASE FindConflict(s)
    <2>1. conflicts[job[s].conflict] \in Conflict BY <1>5 DEF TypeOK, Requests, FindConflict
    <2>2. conflicts[job[s].conflict].obj # NoObject
      BY <2>1 DEF Conflict, Objects, NoObject
    <2> QED BY <1>5, <2>2 DEF TypeOK, Requests, FindConflict
  <1> QED BY <1>1, <1>2, <1>3, <1>4, <1>5 DEF ReadStep

\* After a row was written, the target is among the rows the session holds.
LEMMA RequestsToLog ==
    ASSUME TypeOK, Requests, NEW s \in Sessions, pc[s] = "write", NEW o, NEW new,
           o \in DOMAIN new, ToLog(s, o, new), UNCHANGED <<conflicts, job, todo>>
    PROVE  Requests'
  BY DEF TypeOK, PartialMaps, Requests, ToLog

\* After a statement that wrote nothing, the request is still consistent.
LEMMA RequestsNoWrite ==
    ASSUME TypeOK, Requests, NEW s \in Sessions, pc[s] = "write", SqlError(s) \/ RowGone(s),
           UNCHANGED <<conflicts, job, todo>>
    PROVE  Requests'
  BY DEF TypeOK, Requests, SqlError, RowGone

\* The statements that write a row keep the request consistent.
LEMMA RequestsWrites ==
    ASSUME TypeOK, Requests, NEW s \in Sessions, WriteStep(s) PROVE Requests'
  <1>1. CASE InsertRow(s)
    <2>1. FreshObject \in Objects BY <1>1, FreshIsUnused DEF InsertRow, Unused
    <2>2. CASE SqlError(s) BY <1>1, <2>2, RequestsNoWrite DEF InsertRow
    <2>3. ASSUME NEW r, ToLog(s, FreshObject, Put(draft[s], FreshObject, r)) PROVE Requests'
      <3>1. FreshObject \in DOMAIN Put(draft[s], FreshObject, r) BY DEF Put
      <3> QED BY <1>1, <2>3, <3>1, RequestsToLog DEF InsertRow
    <2> QED BY <1>1, <2>2, <2>3 DEF InsertRow
  <1>2. CASE UpdateRow(s)
    <2> DEFINE new == [p \in DOMAIN draft[s] \cup {target[s]} \cup StaleTombstones(s, target[s]) |->
                         IF p = target[s] THEN PatchRow(s, Visible(s, target[s]))
                         ELSE IF p \in StaleTombstones(s, target[s]) THEN PurgedRow
                              ELSE draft[s][p]]
    <2>1. target[s] \in DOMAIN new OBVIOUS
    <2>2. CASE RowGone(s) \/ SqlError(s) BY <1>2, <2>2, RequestsNoWrite DEF UpdateRow
    <2>3. CASE ToLog(s, target[s], new)
      <3> HIDE DEF new
      <3> QED BY <1>2, <2>1, <2>3, RequestsToLog DEF UpdateRow
    <2> QED BY <1>2, <2>2, <2>3 DEF UpdateRow
  <1>3. CASE DeleteRow(s)
    <2>1. target[s] \in DOMAIN Put(draft[s], target[s], DeletedRow(Visible(s, target[s])))
      BY DEF Put
    <2> QED BY <1>3, <2>1, RequestsToLog, RequestsNoWrite DEF DeleteRow
  <1>4. CASE ResolveRow(s)
    <2>1. target[s] \in DOMAIN Put(draft[s], target[s], ResolvedRow(s, Visible(s, target[s])))
      BY DEF Put
    <2> QED BY <1>4, <2>1, RequestsToLog, RequestsNoWrite DEF ResolveRow
  <1> QED BY <1>1, <1>2, <1>3, <1>4 DEF WriteStep

\* recordChange, recordMutation and createConflict keep the request consistent.
LEMMA RequestsRecords ==
    ASSUME TypeOK, Requests, NEW s \in Sessions, RecordStep(s) PROVE Requests'
  <1>1. CASE LogChange(s) BY <1>1 DEF TypeOK, Requests, LogChange
  <1>2. CASE RecordAccepted(s)
    BY <1>2, RequestsAfterMutation DEF Requests, RecordAccepted
  <1>3. CASE RecordRejected(s)
    BY <1>3, RequestsAfterMutation DEF Requests, RecordRejected
  <1>4. CASE RecordConflict(s)
    <2>1. CASE SqlError(s) /\ UNCHANGED todo
      BY <1>4, <2>1 DEF TypeOK, Requests, RecordConflict, SqlError
    <2>2. CASE AfterConflict(s) /\ UNCHANGED <<draft, target>>
      BY <1>4, <2>2, RequestsAfterMutation DEF Requests, RecordConflict, AfterConflict
    <2> QED BY <1>4, <2>1, <2>2 DEF RecordConflict
  <1> QED BY <1>1, <1>2, <1>3, <1>4 DEF RecordStep

\* A session that ends leaves the other requests consistent.
LEMMA RequestsReleased ==
    ASSUME TypeOK, Requests, NEW s \in Sessions, Release(s),
           DOMAIN conflicts \subseteq DOMAIN conflicts'
    PROVE  Requests'
  BY DEF TypeOK, Requests, Release, NoJob

\* COMMIT and ROLLBACK keep the requests consistent.
LEMMA RequestsEnds ==
    ASSUME TypeOK, Requests, NEW s \in Sessions, EndStep(s) PROVE Requests'
  <1>1. CASE Commit(s)
    <2>1. Settled(s) \in Seq(Conflict) /\ raised[s] \in Seq(Conflict)
          /\ DOMAIN Settled(s) = DOMAIN conflicts
      BY TypeSettled DEF TypeOK, Settled
    <2>2. DOMAIN Settled(s) \subseteq DOMAIN (Settled(s) \o raised[s])
      BY <2>1, ConcatProperties, LenProperties
    <2> QED BY <1>1, <2>1, <2>2, RequestsReleased DEF Commit
  <1>2. CASE Rollback(s) \/ Abort(s)
    BY <1>2, RequestsReleased DEF Rollback, Abort
  <1> QED BY <1>1, <1>2 DEF EndStep

\* Edits, pulls and purges touch no request.
LEMMA RequestsOthers ==
    ASSUME TypeOK, Requests,
           \/ UserStep
           \/ \E d \in Readers : Pull(d)
           \/ \E old \in SUBSET Writes : Purge(old)
    PROVE  Requests'
  <1>1. CASE UserStep BY <1>1 DEF UserStep, Edit, Requests
  <1>2. CASE \E d \in Readers : Pull(d) BY <1>2 DEF Pull, Requests
  <1>3. ASSUME NEW old \in SUBSET Writes, Purge(old) PROVE Requests'
    <2>1. DOMAIN conflicts' = DOMAIN conflicts BY <1>3 DEF Purge
    <2>2. UNCHANGED <<pc, job, todo, target, draft>> BY <1>3 DEF Purge
    <2> QED BY <2>1, <2>2 DEF Requests
  <1> QED BY <1>1, <1>2, <1>3

-----------------------------------------------------------------------------
(* AcceptedHaveObjects.                                                    *)

\* No step of a session records an accepted mutation without its object.
LEMMA AcceptedStep ==
    ASSUME TypeOK, Requests, AcceptedHaveObjects, NEW s \in Sessions,
           BeginStep(s) \/ ReadStep(s) \/ WriteStep(s) \/ RecordStep(s) \/ EndStep(s)
    PROVE  AcceptedHaveObjects'
  <1>1. CASE BeginStep(s)
    BY <1>1 DEF BeginStep, BeginPush, BeginWeb, BeginResolve, Begin, AcceptedHaveObjects
  <1>2. CASE ReadStep(s)
    BY <1>2 DEF ReadStep, LookupMiss, Replay, FindForPush, FindForWeb, FindConflict,
                AcceptedHaveObjects
  <1>3. CASE WriteStep(s)
    BY <1>3 DEF WriteStep, InsertRow, UpdateRow, DeleteRow, ResolveRow, AcceptedHaveObjects
  <1>4. CASE RecordStep(s)
    <2>1. ASSUME NEW result \in {"accepted", "conflict", "rejected"},
                 NEW obj, RecordMutation(s, result, obj),
                 UNCHANGED outcomes, result = "accepted" => obj # NoObject
          PROVE  AcceptedHaveObjects'
      <3> DEFINE new == [result |-> result, obj |-> obj]
                 put == Put(noted[s], W(s), new)
      <3>1. new.result = "accepted" => new.obj # NoObject BY <2>1
      <3>2. /\ DOMAIN put = DOMAIN noted[s] \cup {W(s)} /\ put[W(s)] = new
            /\ \A w \in DOMAIN noted[s] \ {W(s)} : put[w] = noted[s][w]
        BY DEF Put
      <3>3. noted' = [noted EXCEPT ![s] = put] \/ noted' = [noted EXCEPT ![s] = @]
        BY <2>1 DEF RecordMutation
      <3> HIDE DEF put, new
      <3>4. \A t \in Sessions : \A w \in DOMAIN noted'[t] :
               \/ w \in DOMAIN noted[t] /\ noted'[t][w] = noted[t][w]
               \/ noted'[t][w] = new
        BY <3>2, <3>3 DEF TypeOK, PartialMaps
      <3> QED BY <2>1, <3>1, <3>4 DEF AcceptedHaveObjects
    <2>2. CASE LogChange(s) BY <2>2 DEF LogChange, AcceptedHaveObjects
    <2>3. CASE RecordAccepted(s)
      <3>1. target[s] # NoObject
        BY <2>3 DEF TypeOK, Requests, PartialMaps, RecordAccepted, Objects, NoObject
      <3> QED BY <2>1, <2>3, <3>1 DEF RecordAccepted
    <2>4. CASE RecordRejected(s) BY <2>1, <2>4 DEF RecordRejected
    <2>5. CASE RecordConflict(s)
      <3>1. CASE UNCHANGED noted BY <2>5, <3>1 DEF RecordConflict, AcceptedHaveObjects
      <3>2. CASE RecordMutation(s, "conflict", target[s])
        BY <2>1, <2>5, <3>2 DEF RecordConflict
      <3> QED BY <2>5, <3>1, <3>2 DEF RecordConflict
    <2> QED BY <1>4, <2>2, <2>3, <2>4, <2>5 DEF RecordStep
  <1>5. CASE EndStep(s)
    <2>1. ASSUME Release(s) PROVE \A t \in Sessions : \A w \in DOMAIN noted'[t] :
                                    w \in DOMAIN noted[t] /\ noted'[t][w] = noted[t][w]
      BY <2>1 DEF TypeOK, PartialMaps, Release, Nothing
    <2>2. CASE Commit(s)
      BY <2>1, <2>2 DEF Commit, OutcomeOf, AcceptedHaveObjects
    <2>3. CASE Rollback(s) \/ Abort(s)
      BY <2>1, <2>3 DEF Rollback, Abort, AcceptedHaveObjects
    <2> QED BY <1>5, <2>2, <2>3 DEF EndStep
  <1> QED BY <1>1, <1>2, <1>3, <1>4, <1>5

\* Edits, pulls and purges do not either.
LEMMA AcceptedOthers ==
    ASSUME TypeOK, AcceptedHaveObjects,
           \/ UserStep
           \/ \E d \in Readers : Pull(d)
           \/ \E old \in SUBSET Writes : Purge(old)
    PROVE  AcceptedHaveObjects'
  <1>1. CASE UserStep BY <1>1 DEF UserStep, Edit, AcceptedHaveObjects
  <1>2. CASE \E d \in Readers : Pull(d) BY <1>2 DEF Pull, AcceptedHaveObjects
  <1>3. ASSUME NEW old \in SUBSET Writes, Purge(old) PROVE AcceptedHaveObjects'
    <2>1. UNCHANGED noted
          /\ \A w \in Writes : outcomes'[w] = outcomes[w] \/ outcomes'[w] = NotRecorded
      BY <1>3 DEF Purge
    <2> QED BY <2>1 DEF AcceptedHaveObjects, NotRecorded
  <1> QED BY <1>1, <1>2, <1>3

-----------------------------------------------------------------------------
(* LocksExclusive and LogTellsRows.                                        *)

\* What is told of an object depends only on the changes of that object.
LEMMA TellsLocal ==
    ASSUME NEW G, NEW H, NEW o, NEW n, \A c : c.obj = o => (c \in G <=> c \in H)
    PROVE  Tells(G, o, n) <=> Tells(H, o, n)
  BY DEF Tells

\* One more version, logged under a greater id.
LEMMA TellsOneMore ==
    ASSUME NEW H, NEW o, NEW n \in Nat, NEW new, Tells(H, o, n),
           \A c \in H : c.id \in Nat /\ c.id < new.id,
           new.obj = o, new.version = n + 1
    PROVE  Tells(H \cup {new}, o, n + 1)
  <1> DEFINE K == H \cup {new}
  <1>1. \A v \in 1..(n + 1) : \E c \in K : c.obj = o /\ c.version = v
    BY DEF Tells
  <1>2. \A c \in K : c.obj = o => c.version \in 1..(n + 1)
    BY DEF Tells
  <1>3. \A c, d \in K : c.obj = o /\ d.obj = o =>
           /\ c.version = d.version => c = d
           /\ c.version < d.version => c.id < d.id
    BY DEF Tells
  <1> QED BY <1>1, <1>2, <1>3 DEF Tells

\* Steps that write no row, no change and no lock.
LEMMA QuietStep ==
    ASSUME IInv, UNCHANGED <<rows, changes, seq, draft, logged>>,
           \A s \in Sessions : pc'[s] = "log" <=> pc[s] = "log",
           \A s \in Sessions : pc[s] = "log" => target'[s] = target[s]
    PROVE  LocksExclusive' /\ LogTellsRows'
  <1>1. LocksExclusive' BY DEF IInv, LocksExclusive
  <1>2. \A s \in Sessions, o \in Objects :
           Visible(s, o)' = Visible(s, o) /\ LoggedVersion(s, o)' = LoggedVersion(s, o)
    BY DEF Visible, LoggedVersion
  <1>3. LogTellsRows'
    BY <1>2 DEF IInv, LogTellsRows, Tells
  <1> QED BY <1>1, <1>3

\* A session gives up what it wrote.
LEMMA ReleaseLocks ==
    ASSUME IInv, NEW s \in Sessions, Release(s), UNCHANGED <<rows, changes, seq>>
    PROVE  LocksExclusive' /\ LogTellsRows'
  <1>1. /\ draft' = [draft EXCEPT ![s] = Nothing] /\ logged' = [logged EXCEPT ![s] = {}]
        /\ pc' = [pc EXCEPT ![s] = "idle"] /\ target' = [target EXCEPT ![s] = NoObject]
        /\ DOMAIN Nothing = {}
    BY DEF Release, Nothing
  <1>2. LocksExclusive' BY <1>1 DEF IInv, TypeOK, PartialMaps, LocksExclusive
  <1>3. \A o \in Objects : Visible(s, o)' = rows[o] /\ LoggedVersion(s, o)' = rows[o].version
    BY <1>1 DEF IInv, TypeOK, PartialMaps, Visible, LoggedVersion
  <1>4. \A t \in Sessions \ {s}, o \in Objects :
           Visible(t, o)' = Visible(t, o) /\ LoggedVersion(t, o)' = LoggedVersion(t, o)
    BY <1>1 DEF IInv, TypeOK, PartialMaps, Visible, LoggedVersion
  <1>5. logged'[s] = {} /\ \A t \in Sessions \ {s} : logged'[t] = logged[t]
    BY <1>1 DEF IInv, TypeOK
  <1>6. \A o \in Objects : Tells(changes, o, rows[o].version)
                            <=> Tells(changes \cup {}, o, rows[o].version)
    BY DEF Tells
  <1>7. \A t \in Sessions, o \in Objects : Visible(t, o)'.state # "purged" =>
           Tells(changes' \cup logged'[t], o, LoggedVersion(t, o)')
    <2> SUFFICES ASSUME NEW t \in Sessions, NEW o \in Objects, Visible(t, o)'.state # "purged"
                 PROVE  Tells(changes' \cup logged'[t], o, LoggedVersion(t, o)')
      OBVIOUS
    <2>1. CASE t = s
      <3>1. rows[o].state # "purged" /\ logged'[t] = {} BY <1>3, <1>5, <2>1
      <3>2. Tells(changes \cup {}, o, rows[o].version)
        BY <1>6, <3>1 DEF IInv, LogTellsRows
      <3> QED BY <1>3, <2>1, <3>1, <3>2
    <2>2. CASE t # s BY <1>4, <1>5, <2>2 DEF IInv, LogTellsRows
    <2> QED BY <2>1, <2>2
  <1>8. \A t \in Sessions, o \in Objects : \A r \in {rows'[o], Visible(t, o)'} :
           r.version = 0 <=> r.state \in {"absent", "purged"}
    BY <1>3, <1>4 DEF IInv, LogTellsRows
  <1>9. \A t \in Sessions : \A c \in logged'[t] : c.id <= seq
    BY <1>5 DEF IInv, LogTellsRows
  <1>10. LogTellsRows'
    BY <1>7, <1>8, <1>9 DEF IInv, LogTellsRows, Tells
  <1> QED BY <1>2, <1>10

\* What a statement that writes rows does: it takes locks nobody holds on rows that
\* exist, gives row o its next version, and deletes only rows no mutation refers to.
Wrote(s, o, new) ==
    /\ ToLog(s, o, new)
    /\ DOMAIN new \subseteq Objects /\ new \in [DOMAIN new -> Row]
    /\ DOMAIN draft[s] \cup {o} \subseteq DOMAIN new
    /\ \A p \in DOMAIN new \ DOMAIN draft[s] :
          rows[p].state # "purged" /\ \A t \in Sessions \ {s} : p \notin DOMAIN draft[t]
    /\ Visible(s, o).state # "purged"
    /\ new[o].state \in {"live", "deleted"}
    /\ new[o].version = Visible(s, o).version + 1
    /\ \A p \in DOMAIN new \ {o} :
          \/ new[p] = PurgedRow /\ ~Referenced(s, p)
          \/ p \in DOMAIN draft[s] /\ new[p] = draft[s][p]

\* A row gets its next version in the draft of s: nothing is logged yet, so what
\* is told still ends one version earlier.
LEMMA WriteToLog ==
    ASSUME IInv, NEW s \in Sessions, NEW o \in Objects, NEW new, Wrote(s, o, new),
           UNCHANGED <<rows, changes, seq, logged>>, pc[s] # "log"
    PROVE  LocksExclusive' /\ LogTellsRows'
  <1> USE DEF Wrote
  <1>1. /\ draft'[s] = new /\ pc'[s] = "log" /\ target'[s] = o
        /\ \A t \in Sessions \ {s} : /\ draft'[t] = draft[t] /\ pc'[t] = pc[t]
                                     /\ target'[t] = target[t]
    BY DEF ToLog, IInv, TypeOK, PartialMaps
  <1>2. PurgedRow.state = "purged" /\ PurgedRow.version = 0
    BY DEF PurgedRow, AbsentRow
  <1>3. LocksExclusive' BY <1>1, <1>2 DEF IInv, LocksExclusive
  <1>4. /\ Visible(s, o)' = new[o]
        /\ \A p \in Objects \ {o} : Visible(s, p)' = Visible(s, p) \/ Visible(s, p)' = PurgedRow
    BY <1>1 DEF Visible
  <1>5. \A t \in Sessions \ {s}, p \in Objects :
           Visible(t, p)' = Visible(t, p) /\ LoggedVersion(t, p)' = LoggedVersion(t, p)
    BY <1>1 DEF Visible, LoggedVersion
  <1>6. /\ LoggedVersion(s, o)' = LoggedVersion(s, o)
        /\ \A p \in Objects \ {o} : Visible(s, p)' = Visible(s, p) =>
              LoggedVersion(s, p)' = LoggedVersion(s, p)
    <2>1. Visible(s, o) \in Row BY VisibleRow DEF IInv
    <2>2. Visible(s, o).version \in Nat BY <2>1 DEF Row
    <2> QED BY <1>1, <1>4, <2>2 DEF LoggedVersion
  <1>7. \A t \in Sessions, p \in Objects : Visible(t, p)'.state # "purged" =>
           Tells(changes \cup logged[t], p, LoggedVersion(t, p)')
    BY <1>2, <1>4, <1>5, <1>6 DEF IInv, LogTellsRows
  <1>8. \A t \in Sessions, p \in Objects : \A r \in {rows[p], Visible(t, p)'} :
           r.version = 0 <=> r.state \in {"absent", "purged"}
    <2>1. Visible(s, o) \in Row BY VisibleRow DEF IInv
    <2>2. new[o].version # 0 /\ new[o].state \notin {"absent", "purged"} BY <2>1 DEF Row
    <2> QED BY <1>2, <1>4, <1>5, <2>2 DEF IInv, LogTellsRows
  <1>9. LogTellsRows' BY <1>7, <1>8 DEF IInv, LogTellsRows, Tells
  <1> QED BY <1>3, <1>9

\* A statement that wrote nothing takes no lock and logs nothing.
LEMMA NoWriteLocks ==
    ASSUME IInv, NEW s \in Sessions, pc[s] = "write", SqlError(s) \/ RowGone(s),
           UNCHANGED <<rows, changes, seq, logged>>
    PROVE  LocksExclusive' /\ LogTellsRows'
  <1>1. /\ UNCHANGED <<draft, target>>
        /\ \A t \in Sessions : pc'[t] = "log" <=> pc[t] = "log"
    BY DEF IInv, TypeOK, SqlError, RowGone
  <1> QED BY <1>1, QuietStep

\* One row written in place, or inserted.
LEMMA PutWrote ==
    ASSUME IInv, NEW s \in Sessions, NEW o \in Objects, NEW r \in Row,
           ToLog(s, o, Put(draft[s], o, r)),
           \A t \in Sessions \ {s} : o \notin DOMAIN draft[t],
           Visible(s, o).state # "purged",
           r.state \in {"live", "deleted"}, r.version = Visible(s, o).version + 1
    PROVE  \E new : Wrote(s, o, new)
  <1> DEFINE put == Put(draft[s], o, r)
  <1>1. /\ DOMAIN put = DOMAIN draft[s] \cup {o} /\ DOMAIN put \subseteq Objects
        /\ put \in [DOMAIN put -> Row] /\ put[o] = r
        /\ \A p \in DOMAIN draft[s] \ {o} : put[p] = draft[s][p]
    BY DEF IInv, TypeOK, PartialMaps, Put
  <1>2. o \notin DOMAIN draft[s] => rows[o].state # "purged" BY DEF Visible
  <1>3. ToLog(s, o, put) OBVIOUS
  <1> HIDE DEF put
  <1>4. Wrote(s, o, put) BY <1>1, <1>2, <1>3 DEF Wrote
  <1> QED BY <1>4

\* The four statements that write rows either write nothing or do the above.
LEMMA WriteSteps ==
    ASSUME IInv, NEW s \in Sessions, WriteStep(s)
    PROVE  /\ pc[s] = "write"
           /\ UNCHANGED <<tables, seq, intent, job, todo, seen, logged, noted, raised,
                          replies, answers, devices, bounds>>
           /\ \/ SqlError(s) \/ RowGone(s)
              \/ \E o \in Objects : \E new : Wrote(s, o, new)
  <1> DEFINE Writing == \E o \in Objects : \E new : Wrote(s, o, new)
  <1> USE DEF IInv
  <1>0. /\ pc[s] = "write"
        /\ UNCHANGED <<tables, seq, intent, job, todo, seen, logged, noted, raised, replies,
                       answers, devices, bounds>>
    BY DEF WriteStep, InsertRow, UpdateRow, DeleteRow, ResolveRow
  <1>1. ASSUME InsertRow(s) PROVE SqlError(s) \/ Writing
    <2> DEFINE kept == job[s].kind = "resolve"
               row  == [state   |-> IF ~kept /\ intent[W(s)].action = "delete"
                                    THEN "deleted" ELSE "live",
                        uid     |-> IF kept THEN Blank ELSE intent[W(s)].uid,
                        version |-> 1,
                        payload |-> Merge(EmptyPayload, W(s))]
               o == FreshObject
    <2>2. SqlError(s) \/ ToLog(s, o, Put(draft[s], o, row)) BY <1>1 DEF InsertRow
    <2>4. CASE ToLog(s, o, Put(draft[s], o, row))
      <3>1. o \in Objects /\ rows[o].state = "absent" /\ \A t \in Sessions : o \notin DOMAIN draft[t]
        BY <1>1, FreshIsUnused DEF InsertRow, Unused
      <3>2. Visible(s, o).state = "absent" /\ Visible(s, o).version = 0
        BY <3>1 DEF Visible, LogTellsRows
      <3>3. row \in Row
        <4>1. W(s) \in Writes \cup {Blank} BY <1>0, RestOfTodo DEF Requests
        <4>2. EmptyPayload \in [Fields -> Writes \cup {Blank}] BY DEF EmptyPayload
        <4>3. row.payload \in [Fields -> Writes \cup {Blank}] BY <4>1, <4>2, MergeType
        <4>4. row.uid \in Uids \cup {Blank} BY <1>0, CurrentMutation DEF Requests, Intent
        <4> QED BY <4>3, <4>4 DEF Row
      <3>4. row.state \in {"live", "deleted"} /\ row.version = Visible(s, o).version + 1
        BY <3>2
      <3> HIDE DEF row, o
      <3> QED BY <2>4, <3>1, <3>2, <3>3, <3>4, PutWrote
    <2> QED BY <2>2, <2>4
  <1>2. ASSUME DeleteRow(s) PROVE RowGone(s) \/ Writing
    <2> DEFINE o == target[s]
               r == DeletedRow(Visible(s, o))
    <2>1. /\ o \in Objects
          /\ \A t \in Sessions \ {s} : o \notin DOMAIN draft[t]
      BY <1>2 DEF DeleteRow, TypeOK, Locked
    <2>3. CASE Exists(Visible(s, o)) /\ ToLog(s, o, Put(draft[s], o, r))
      <3>1. Visible(s, o) \in Row BY <2>1, VisibleRow
      <3>2. /\ r \in Row /\ r.state \in {"live", "deleted"}
            /\ r.version = Visible(s, o).version + 1
        BY <3>1 DEF Row, DeletedRow
      <3>3. Visible(s, o).state # "purged" BY <2>3 DEF Exists
      <3> HIDE DEF r, o
      <3> QED BY <2>1, <2>3, <3>2, <3>3, PutWrote
    <2> QED BY <1>2, <2>3 DEF DeleteRow
  <1>3. ASSUME ResolveRow(s) PROVE RowGone(s) \/ Writing
    <2> DEFINE o == target[s]
               r == ResolvedRow(s, Visible(s, o))
    <2>1. /\ o \in Objects
          /\ \A t \in Sessions \ {s} : o \notin DOMAIN draft[t]
      BY <1>0, <1>3 DEF ResolveRow, TypeOK, Locked, Requests
    <2>3. CASE Exists(Visible(s, o)) /\ ToLog(s, o, Put(draft[s], o, r))
      <3>1. Visible(s, o) \in Row BY <2>1, VisibleRow
      <3>2. Merge(Visible(s, o).payload, W(s)) \in [Fields -> Writes \cup {Blank}]
        BY <1>0, <2>1, <3>1, RestOfTodo, MergeType DEF Row, Requests
      <3>3. /\ r \in Row /\ r.state = Visible(s, o).state
            /\ r.version = Visible(s, o).version + 1
        BY <3>1, <3>2 DEF Row, ResolvedRow
      <3>4. Visible(s, o).state \in {"live", "deleted"} BY <2>3 DEF Exists
      <3> HIDE DEF r, o
      <3> QED BY <2>1, <2>3, <3>3, <3>4, PutWrote
    <2> QED BY <1>3, <2>3 DEF ResolveRow
  <1>4. ASSUME UpdateRow(s) PROVE RowGone(s) \/ SqlError(s) \/ Writing
    <2> DEFINE o == target[s]
               row == Visible(s, o)
               stale == StaleTombstones(s, o)
               new == [p \in DOMAIN draft[s] \cup {o} \cup stale |->
                         IF p = o THEN PatchRow(s, row)
                         ELSE IF p \in stale THEN PurgedRow ELSE draft[s][p]]
    <2>1. /\ o \in Objects
          /\ \A t \in Sessions \ {s} : o \notin DOMAIN draft[t]
          /\ todo[s] # <<>> /\ job[s].kind # "resolve"
      BY <1>0, <1>4 DEF UpdateRow, TypeOK, Locked, Requests
    <2>3. CASE /\ Exists(row) /\ ToLog(s, o, new)
               /\ \A p \in stale : ~Locked(s, p) /\ ~Referenced(s, p)
      <3>1. row \in Row BY <2>1, VisibleRow
      <3>2. PatchRow(s, row) \in Row
        <4>1. W(s) \in Writes /\ intent[W(s)].uid \in Uids \cup {Blank}
          BY <2>1, CurrentMutation DEF Intent
        <4>2. Merge(row.payload, W(s)) \in [Fields -> Writes \cup {Blank}]
          BY <3>1, <4>1, MergeType DEF Row
        <4> QED BY <3>1, <4>1, <4>2 DEF Row, PatchRow, NewUid
      <3>3. PurgedRow \in Row BY DEF PurgedRow, AbsentRow, EmptyPayload, Row
      <3>4. \A p \in stale : p \in Objects /\ Visible(s, p).state = "deleted"
        BY DEF StaleTombstones
      <3>5. /\ DOMAIN new \subseteq Objects /\ new \in [DOMAIN new -> Row]
            /\ DOMAIN draft[s] \cup {o} \subseteq DOMAIN new
            /\ new[o] = PatchRow(s, row)
            /\ \A p \in DOMAIN new \ {o} :
                  \/ new[p] = PurgedRow /\ ~Referenced(s, p)
                  \/ p \in DOMAIN draft[s] /\ new[p] = draft[s][p]
        <4> HIDE DEF row, stale
        <4> QED BY <2>1, <2>3, <3>2, <3>3, <3>4 DEF TypeOK, PartialMaps
      <3>6. new[o].state \in {"live", "deleted"} /\ new[o].version = row.version + 1
        BY <3>5 DEF PatchRow
      <3>7. row.state # "purged" BY <2>3 DEF Exists
      <3>8. \A p \in DOMAIN new \ DOMAIN draft[s] :
               rows[p].state # "purged" /\ \A t \in Sessions \ {s} : p \notin DOMAIN draft[t]
        <4> SUFFICES ASSUME NEW p \in DOMAIN new \ DOMAIN draft[s]
                     PROVE  rows[p].state # "purged"
                            /\ \A t \in Sessions \ {s} : p \notin DOMAIN draft[t]
          OBVIOUS
        <4>1. CASE p = o BY <2>1, <3>7, <4>1 DEF Visible
        <4>2. CASE p \in stale BY <2>3, <3>4, <4>2 DEF Visible, Locked
        <4> QED BY <4>1, <4>2
      <3>9. ToLog(s, o, new) BY <2>3
      <3>10. /\ new[o].version = Visible(s, o).version + 1
             /\ Visible(s, o).state # "purged"
        BY <3>6, <3>7
      <3> HIDE DEF new, row, o, stale, IInv
      <3>11. Wrote(s, o, new) BY <3>5, <3>6, <3>8, <3>9, <3>10 DEF Wrote
      <3> QED BY <2>1, <3>11
    <2> QED BY <1>4, <2>3 DEF UpdateRow
  <1> QED BY <1>0, <1>1, <1>2, <1>3, <1>4 DEF WriteStep

\* Such a statement takes a lock nobody holds, and the new version of its row is the
\* one the session has still to log.
LEMMA WritesKeepLog ==
    ASSUME IInv, NEW s \in Sessions, WriteStep(s) PROVE LocksExclusive' /\ LogTellsRows'
  <1>1. pc[s] = "write" /\ UNCHANGED <<rows, changes, seq, logged>> BY WriteSteps
  <1>2. CASE SqlError(s) \/ RowGone(s) BY <1>1, <1>2, NoWriteLocks
  <1>3. ASSUME NEW o \in Objects, NEW new, Wrote(s, o, new)
        PROVE  LocksExclusive' /\ LogTellsRows'
    <2>1. pc[s] # "log" BY <1>1
    <2> QED BY <1>1, <1>3, <2>1, WriteToLog
  <1> QED BY <1>2, <1>3, WriteSteps

\* Beginning a request leaves rows, locks and log alone.
LEMMA BeginsKeepLog ==
    ASSUME IInv, NEW s \in Sessions, BeginStep(s) PROVE LocksExclusive' /\ LogTellsRows'
  <1>1. /\ UNCHANGED <<rows, changes, seq, draft, logged>> /\ pc[s] = "idle"
        /\ \A t \in Sessions \ {s} : pc'[t] = pc[t] /\ target'[t] = target[t]
        /\ pc'[s] # "log"
    BY DEF IInv, TypeOK, BeginStep, BeginPush, BeginWeb, BeginResolve, Begin
  <1> QED BY <1>1, QuietStep

\* So does a SELECT.
LEMMA ReadsKeepLog ==
    ASSUME IInv, NEW s \in Sessions, ReadStep(s) PROVE LocksExclusive' /\ LogTellsRows'
  <1>1. UNCHANGED <<rows, changes, seq, draft, logged>> /\ pc[s] # "log"
    BY DEF ReadStep, LookupMiss, Replay, FindForPush, FindForWeb, FindConflict
  <1>2. pc'[s] # "log"
        /\ \A t \in Sessions \ {s} : pc'[t] = pc[t] /\ target'[t] = target[t]
    <2>1. CASE LookupMiss(s) \/ FindForWeb(s) \/ FindConflict(s)
      BY <2>1 DEF IInv, TypeOK, LookupMiss, FindForWeb, FindConflict
    <2>2. CASE Replay(s) BY <2>2 DEF IInv, TypeOK, Replay, NextMutation
    <2>3. CASE FindForPush(s) BY <2>3 DEF IInv, TypeOK, FindForPush
    <2> QED BY <2>1, <2>2, <2>3 DEF ReadStep
  <1> QED BY <1>1, <1>2, QuietStep

\* recordChange logs exactly the version that was missing, under the greatest id.
LEMMA LogChangeKeepsLog ==
    ASSUME IInv, NEW s \in Sessions, LogChange(s) PROVE LocksExclusive' /\ LogTellsRows'
  <1> DEFINE o == target[s]
             new == [id |-> NextChangeId(s), obj |-> target[s], device |-> job[s].device,
                     version |-> draft[s][target[s]].version, payload |-> ChangePayload(s),
                     action |-> IF IsDeletion(s) THEN "delete" ELSE "upsert",
                     by |-> IF job[s].kind = "resolve" THEN Blank ELSE W(s)]
             n == Visible(s, o).version - 1
  <1>1. /\ pc[s] = "log" /\ o \in DOMAIN draft[s] /\ o \in Objects
        /\ Visible(s, o) = draft[s][o] /\ Visible(s, o).state # "purged"
    BY DEF IInv, TypeOK, PartialMaps, Requests, LocksExclusive, LogChange, Visible
  <1>2. new.obj = o /\ new.id = seq + 1 /\ new.version = n + 1 /\ n \in Nat
        /\ Visible(s, o).version = n + 1
    <2>1. Visible(s, o) \in Row BY <1>1, VisibleRow DEF IInv
    <2>2. Visible(s, o).version # 0
      BY <1>1 DEF IInv, LogTellsRows, LocksExclusive
    <2> QED BY <1>1, <2>1, <2>2 DEF Row, NextChangeId
  <1>3. /\ logged'[s] = logged[s] \cup {new}
        /\ \A t \in Sessions \ {s} : logged'[t] = logged[t] /\ pc'[t] = pc[t]
        /\ pc'[s] # "log" /\ seq' = seq + 1
        /\ UNCHANGED <<rows, changes, draft, target>>
    BY DEF IInv, TypeOK, LogChange
  <1> HIDE DEF new
  <1>4. LocksExclusive' BY <1>1, <1>2, <1>3 DEF IInv, LocksExclusive
  <1>5. /\ \A t \in Sessions, p \in Objects : Visible(t, p)' = Visible(t, p)
        /\ \A t \in Sessions \ {s}, p \in Objects : LoggedVersion(t, p)' = LoggedVersion(t, p)
        /\ \A p \in Objects \ {o} : LoggedVersion(s, p)' = LoggedVersion(s, p)
        /\ LoggedVersion(s, o) = n /\ LoggedVersion(s, o)' = Visible(s, o).version
    BY <1>1, <1>3 DEF Visible, LoggedVersion
  <1>6. Tells(changes \cup logged'[s], o, n + 1)
    <2> DEFINE H == changes \cup logged[s]
    <2>1. Tells(H, o, n) BY <1>1, <1>5 DEF IInv, LogTellsRows
    <2>2. \A c \in H : c.id \in Nat /\ c.id < new.id
      BY <1>2 DEF IInv, TypeOK, LogTellsRows, Change
    <2>3. H \cup {new} = changes \cup logged'[s] BY <1>3
    <2>5. n \in Nat /\ new.obj = o /\ new.version = n + 1 BY <1>2
    <2> HIDE DEF H, n, o
    <2>4. Tells(H \cup {new}, o, n + 1) BY <2>5, <2>1, <2>2, TellsOneMore
    <2> QED BY <2>3, <2>4
  <1>7. \A p \in Objects \ {o} : \A m :
           Tells(changes \cup logged[s], p, m) => Tells(changes \cup logged'[s], p, m)
    BY <1>2, <1>3 DEF Tells
  <1>8. \A t \in Sessions, p \in Objects : Visible(t, p)'.state # "purged" =>
           Tells(changes' \cup logged'[t], p, LoggedVersion(t, p)')
    <2> SUFFICES ASSUME NEW t \in Sessions, NEW p \in Objects, Visible(t, p)'.state # "purged"
                 PROVE  Tells(changes' \cup logged'[t], p, LoggedVersion(t, p)')
      OBVIOUS
    <2>1. CASE t = s /\ p = o
      <3>1. LoggedVersion(s, o)' = n + 1
        BY <1>1, <1>2, <1>5
      <3> QED BY <1>3, <1>6, <2>1, <3>1
    <2>2. CASE t = s /\ p # o
      <3>1. Tells(changes \cup logged[s], p, LoggedVersion(s, p))
        BY <1>5, <2>2 DEF IInv, LogTellsRows
      <3> QED BY <1>3, <1>5, <1>7, <2>2, <3>1
    <2>3. CASE t # s BY <1>3, <1>5, <2>3 DEF IInv, LogTellsRows
    <2> QED BY <2>1, <2>2, <2>3
  <1>9. /\ \A c \in changes : c.id <= seq'
        /\ \A t \in Sessions : \A c \in logged'[t] : c.id <= seq'
    <2>1. \A c \in changes : c.id \in Nat /\ c.id <= seq
      BY DEF IInv, TypeOK, LogTellsRows, Change
    <2>2. \A t \in Sessions : \A c \in logged[t] : c.id \in Nat /\ c.id <= seq
      BY DEF IInv, TypeOK, LogTellsRows, Change
    <2>3. seq \in Nat BY DEF IInv, TypeOK
    <2> QED BY <1>2, <1>3, <2>1, <2>2, <2>3
  <1>10. LogTellsRows' BY <1>3, <1>5, <1>8, <1>9 DEF IInv, LogTellsRows, Tells
  <1> QED BY <1>4, <1>10

\* The statements after the write keep the log complete.
LEMMA RecordsKeepLog ==
    ASSUME IInv, NEW s \in Sessions, RecordStep(s) PROVE LocksExclusive' /\ LogTellsRows'
  <1>1. CASE LogChange(s) BY <1>1, LogChangeKeepsLog
  <1>2. CASE RecordAccepted(s) \/ RecordRejected(s) \/ RecordConflict(s)
    <2>1. UNCHANGED <<rows, changes, seq, draft, logged, target>> /\ pc[s] # "log"
      BY <1>2 DEF RecordAccepted, RecordRejected, RecordConflict, SqlError
    <2>2. pc'[s] # "log" /\ \A t \in Sessions \ {s} : pc'[t] = pc[t]
      BY <1>2 DEF IInv, TypeOK, RecordAccepted, RecordRejected, RecordConflict, SqlError,
                  AfterConflict, NextMutation
    <2> QED BY <2>1, <2>2, QuietStep
  <1> QED BY <1>1, <1>2 DEF RecordStep

\* COMMIT: what s alone saw of an object is now what everybody sees; the objects
\* other sessions hold are not among those s wrote.
LEMMA CommitKeepsLog ==
    ASSUME IInv, NEW s \in Sessions, Commit(s) PROVE LocksExclusive' /\ LogTellsRows'
  <1>1. /\ rows' = [o \in Objects |-> Visible(s, o)]
        /\ changes' = {c \in changes \cup logged[s] : Visible(s, c.obj).state # "purged"}
        /\ seq' = seq /\ pc[s] = "commit"
    BY DEF Commit
  <1>2. /\ draft'[s] = Nothing /\ DOMAIN draft'[s] = {} /\ logged'[s] = {} /\ pc'[s] = "idle"
        /\ \A t \in Sessions \ {s} : /\ draft'[t] = draft[t] /\ logged'[t] = logged[t]
                                     /\ pc'[t] = pc[t] /\ target'[t] = target[t]
    BY DEF IInv, TypeOK, PartialMaps, Commit, Release, Nothing
  <1>3. \A o \in Objects : \/ o \in DOMAIN draft[s] /\ Visible(s, o) = draft[s][o]
                           \/ o \notin DOMAIN draft[s] /\ Visible(s, o) = rows[o]
    BY DEF Visible
  <1>4. LocksExclusive'
    <2>1. \A t, u \in Sessions : t # u => DOMAIN draft'[t] \cap DOMAIN draft'[u] = {}
      BY <1>2 DEF IInv, LocksExclusive
    <2>2. \A t \in Sessions : \A c \in logged'[t] : c.obj \in DOMAIN draft'[t]
      BY <1>2 DEF IInv, LocksExclusive
    <2>3. \A t \in Sessions : \A o \in DOMAIN draft'[t] :
             rows'[o].state # "purged" /\ draft'[t][o].state # "absent"
      <3> SUFFICES ASSUME NEW t \in Sessions, NEW o \in DOMAIN draft'[t]
                   PROVE  rows'[o].state # "purged" /\ draft'[t][o].state # "absent"
        OBVIOUS
      <3>1. t # s /\ draft'[t] = draft[t] /\ o \in DOMAIN draft[t] BY <1>2
      <3>2. o \in Objects /\ o \notin DOMAIN draft[s]
        BY <3>1 DEF IInv, TypeOK, PartialMaps, LocksExclusive
      <3> QED BY <1>1, <1>3, <3>1, <3>2 DEF IInv, LocksExclusive
    <2>4. \A t \in Sessions : pc'[t] = "log" => draft'[t][target'[t]].state # "purged"
      BY <1>2 DEF IInv, LocksExclusive
    <2> QED BY <2>1, <2>2, <2>3, <2>4 DEF LocksExclusive
  <1>5. \A c \in changes \cup logged[s] : c.obj \in Objects
    BY DEF IInv, TypeOK, Change
  <1>6. \A o \in Objects : Visible(s, o)' = Visible(s, o) /\ LoggedVersion(s, o)' = Visible(s, o).version
    BY <1>1, <1>2 DEF Visible, LoggedVersion
  <1>7. \A t \in Sessions \ {s}, o \in Objects :
           \/ /\ o \in DOMAIN draft[t] /\ o \notin DOMAIN draft[s]
              /\ Visible(t, o)' = Visible(t, o) /\ LoggedVersion(t, o)' = LoggedVersion(t, o)
           \/ /\ o \notin DOMAIN draft[t]
              /\ Visible(t, o)' = Visible(s, o) /\ LoggedVersion(t, o)' = Visible(s, o).version
    <2> SUFFICES ASSUME NEW t \in Sessions \ {s}, NEW o \in Objects
                 PROVE  \/ /\ o \in DOMAIN draft[t] /\ o \notin DOMAIN draft[s]
                           /\ Visible(t, o)' = Visible(t, o)
                           /\ LoggedVersion(t, o)' = LoggedVersion(t, o)
                        \/ /\ o \notin DOMAIN draft[t]
                           /\ Visible(t, o)' = Visible(s, o)
                           /\ LoggedVersion(t, o)' = Visible(s, o).version
      OBVIOUS
    <2>1. CASE o \in DOMAIN draft[t]
      BY <1>1, <1>2, <2>1 DEF IInv, LocksExclusive, Visible, LoggedVersion
    <2>2. CASE o \notin DOMAIN draft[t]
      <3>1. ~(pc[t] = "log" /\ target[t] = o) BY <2>2 DEF IInv, Requests
      <3> QED BY <1>1, <1>2, <2>2, <3>1 DEF Visible, LoggedVersion
    <2> QED BY <2>1, <2>2
  \* What s told of an object it has not purged stays true of the committed changes.
  <1>8. \A o \in Objects : Visible(s, o).state # "purged" =>
           Tells(changes', o, Visible(s, o).version)
    <2> SUFFICES ASSUME NEW o \in Objects, Visible(s, o).state # "purged"
                 PROVE  Tells(changes', o, Visible(s, o).version)
      OBVIOUS
    <2>1. LoggedVersion(s, o) = Visible(s, o).version BY <1>1 DEF LoggedVersion
    <2>2. Tells(changes \cup logged[s], o, Visible(s, o).version)
      BY <2>1 DEF IInv, LogTellsRows
    <2>3. \A c : c.obj = o => (c \in changes' <=> c \in changes \cup logged[s]) BY <1>1
    <2> QED BY <2>2, <2>3, TellsLocal
  \* What another session sees of an object it holds has not moved.
  <1>9. \A t \in Sessions \ {s} : \A o \in DOMAIN draft[t] : draft[t][o].state # "purged" =>
           Tells(changes' \cup logged[t], o, LoggedVersion(t, o))
    <2> SUFFICES ASSUME NEW t \in Sessions \ {s}, NEW o \in DOMAIN draft[t],
                        draft[t][o].state # "purged"
                 PROVE  Tells(changes' \cup logged[t], o, LoggedVersion(t, o))
      OBVIOUS
    <2>1. /\ o \in Objects /\ o \notin DOMAIN draft[s] /\ Visible(s, o) = rows[o]
          /\ Visible(t, o) = draft[t][o] /\ rows[o].state # "purged"
      BY DEF IInv, TypeOK, PartialMaps, LocksExclusive, Visible
    <2>2. Tells(changes \cup logged[t], o, LoggedVersion(t, o))
      BY <2>1 DEF IInv, LogTellsRows
    <2>3. \A c \in logged[s] : c.obj # o BY <2>1 DEF IInv, LocksExclusive
    <2>4. \A c : c.obj = o => (c \in changes' \cup logged[t] <=> c \in changes \cup logged[t])
      BY <1>1, <2>1, <2>3
    <2> QED BY <2>2, <2>4, TellsLocal
  <1>10. \A t \in Sessions, o \in Objects : Visible(t, o)'.state # "purged" =>
           Tells(changes' \cup logged'[t], o, LoggedVersion(t, o)')
    <2> SUFFICES ASSUME NEW t \in Sessions, NEW o \in Objects, Visible(t, o)'.state # "purged"
                 PROVE  Tells(changes' \cup logged'[t], o, LoggedVersion(t, o)')
      OBVIOUS
    <2>1. CASE t = s
      <3>1. Tells(changes', o, LoggedVersion(s, o)') BY <1>6, <1>8, <2>1
      <3>2. changes' \cup logged'[t] = changes' BY <1>2, <2>1
      <3> QED BY <2>1, <3>1, <3>2
    <2>2. CASE t # s /\ o \in DOMAIN draft[t]
      <3>1. Visible(t, o) = draft[t][o] BY <2>2 DEF Visible
      <3> QED BY <1>2, <1>7, <1>9, <2>2, <3>1
    <2>3. CASE t # s /\ o \notin DOMAIN draft[t]
      <3>1. Tells(changes', o, LoggedVersion(t, o)') BY <1>7, <1>8, <2>3
      <3>2. \A c \in logged[t] : c.obj # o BY <2>3 DEF IInv, LocksExclusive
      <3>3. \A c : c.obj = o => (c \in changes' <=> c \in changes' \cup logged'[t])
        BY <1>2, <2>3, <3>2
      <3> QED BY <3>1, <3>3, TellsLocal
    <2> QED BY <2>1, <2>2, <2>3
  <1>11. \A t \in Sessions, o \in Objects : \A r \in {rows'[o], Visible(t, o)'} :
           r.version = 0 <=> r.state \in {"absent", "purged"}
    BY <1>1, <1>6, <1>7 DEF IInv, LogTellsRows
  <1>12. \A o \in Objects : rows'[o].state # "purged" => Tells(changes', o, rows'[o].version)
    BY <1>1, <1>8
  <1>13. \A c \in changes' : c.id <= seq' /\ rows'[c.obj].state # "purged"
    BY <1>1, <1>5 DEF IInv, LogTellsRows
  <1>14. \A t \in Sessions : \A c \in logged'[t] : c.id <= seq'
    BY <1>1, <1>2 DEF IInv, LogTellsRows
  <1>15. LogTellsRows' BY <1>10, <1>11, <1>12, <1>13, <1>14 DEF LogTellsRows, Tells
  <1> QED BY <1>4, <1>15

\* COMMIT and ROLLBACK keep it complete, for everybody and for each session.
LEMMA EndsKeepLog ==
    ASSUME IInv, NEW s \in Sessions, EndStep(s) PROVE LocksExclusive' /\ LogTellsRows'
  BY CommitKeepsLog, ReleaseLocks DEF EndStep, Rollback, Abort

\* Edits, pulls and purges leave rows, locks and log alone.
LEMMA OthersKeepLog ==
    ASSUME IInv,
           \/ UserStep
           \/ \E d \in Readers : Pull(d)
           \/ \E old \in SUBSET Writes : Purge(old)
    PROVE  LocksExclusive' /\ LogTellsRows'
  <1>1. UNCHANGED <<rows, changes, seq, draft, logged, pc, target>>
    BY DEF UserStep, Edit, Pull, Purge
  <1> QED BY <1>1, QuietStep

-----------------------------------------------------------------------------
(* The inductive invariant.                                                *)

\* The strengthened invariant holds in empty tables.
LEMMA InitIInv == Init => IInv
  <1> SUFFICES ASSUME Init PROVE IInv OBVIOUS
  <1>1. TypeOK BY TypeInit
  <1>2. Requests BY DEF Init, Requests, NoJob
  <1>3. AcceptedHaveObjects BY DEF Init, AcceptedHaveObjects, NotRecorded, Nothing
  <1>4. LocksExclusive BY DEF Init, LocksExclusive, Nothing
  <1>5. \A s \in Sessions, o \in Objects :
           /\ Visible(s, o) = AbsentRow /\ rows[o] = AbsentRow
           /\ LoggedVersion(s, o) = 0
    BY DEF Init, Visible, LoggedVersion, Nothing, AbsentRow
  <1>6. LogTellsRows BY <1>5 DEF Init, LogTellsRows, Tells, AbsentRow
  <1> QED BY <1>1, <1>2, <1>3, <1>4, <1>6 DEF IInv

\* Every step preserves it.
LEMMA NextIInv == IInv /\ [Next]_vars => IInv'
  <1> SUFFICES ASSUME IInv, [Next]_vars PROVE IInv' OBVIOUS
  <1>0. TypeOK /\ Requests /\ AcceptedHaveObjects BY DEF IInv
  <1>1. ASSUME NEW s \in Sessions, BeginStep(s) PROVE IInv'
    <2>1. TypeOK' /\ Requests' BY <1>0, <1>1, BegunPush, BegunWeb, BegunResolve DEF BeginStep
    <2> QED BY <1>0, <1>1, <2>1, AcceptedStep, BeginsKeepLog DEF IInv
  <1>2. ASSUME NEW s \in Sessions, ReadStep(s) PROVE IInv'
    <2>1. TypeOK'
      BY <1>0, <1>2, TypeLookupMiss, TypeReplay, TypeFindForPush, TypeFindForWeb,
         TypeFindConflict DEF ReadStep
    <2> QED BY <1>0, <1>2, <2>1, RequestsReads, AcceptedStep, ReadsKeepLog DEF IInv
  <1>3. ASSUME NEW s \in Sessions, WriteStep(s) PROVE IInv'
    <2>1. TypeOK'
      BY <1>0, <1>3, TypeInsertRow, TypeUpdateRow, TypeDeleteRow, TypeResolveRow DEF WriteStep
    <2> QED BY <1>0, <1>3, <2>1, RequestsWrites, AcceptedStep, WritesKeepLog DEF IInv
  <1>4. ASSUME NEW s \in Sessions, RecordStep(s) PROVE IInv'
    <2>1. TypeOK'
      BY <1>0, <1>4, TypeLogChange, TypeRecordAccepted, TypeRecordRejected,
         TypeRecordConflict DEF RecordStep
    <2> QED BY <1>0, <1>4, <2>1, RequestsRecords, AcceptedStep, RecordsKeepLog DEF IInv
  <1>5. ASSUME NEW s \in Sessions, EndStep(s) PROVE IInv'
    <2>1. TypeOK' BY <1>0, <1>5, TypeCommit, TypeUndo DEF EndStep
    <2> QED BY <1>0, <1>5, <2>1, RequestsEnds, AcceptedStep, EndsKeepLog DEF IInv
  <1>6. ASSUME \/ UserStep
               \/ \E d \in Readers : Pull(d)
               \/ \E old \in SUBSET Writes : Purge(old)
        PROVE  IInv'
    <2>1. TypeOK'
      <3>1. CASE UserStep
        <4>1. PICK w \in Writes, a \in {"upsert", "delete"}, o \in Objects \cup {NoObject},
                   u \in Uids \cup {Blank}, b \in {0} \cup {rows[p].version : p \in Objects} :
                     Edit(w, a, o, u, b)
          BY <3>1 DEF UserStep
        <4>2. b \in Nat BY <1>0 DEF TypeOK, Row
        <4> QED BY <1>0, <4>1, <4>2, TypeEdit
      <3>2. CASE \E d \in Readers : Pull(d) BY <1>0, <3>2, TypePull, WritesAssumption
      <3>3. CASE \E old \in SUBSET Writes : Purge(old) BY <1>0, <3>3, TypePurge
      <3> QED BY <1>6, <3>1, <3>2, <3>3
    <2>2. Requests' BY <1>0, <1>6, RequestsOthers
    <2>3. AcceptedHaveObjects' BY <1>0, <1>6, AcceptedOthers
    <2>4. LocksExclusive' /\ LogTellsRows' BY <1>6, OthersKeepLog
    <2> QED BY <2>1, <2>2, <2>3, <2>4 DEF IInv
  <1>7. CASE UNCHANGED vars
    <2>1. TypeOK' BY <1>0, <1>7 DEF vars, TypeOK, PartialMaps
    <2>2. Requests' /\ AcceptedHaveObjects'
      BY <1>0, <1>7 DEF vars, Requests, AcceptedHaveObjects
    <2>3. LocksExclusive' /\ LogTellsRows' BY <1>7, QuietStep DEF vars
    <2> QED BY <2>1, <2>2, <2>3 DEF IInv
  <1> QED BY <1>1, <1>2, <1>3, <1>4, <1>5, <1>6, <1>7 DEF Next

\* Every reachable state satisfies the inductive invariant.
THEOREM InductiveInvariant == Spec => []IInv
  BY InitIInv, NextIInv, PTL DEF Spec

\* Type correctness of the sync server's tables and sessions.
THEOREM TypeCorrect == Spec => []TypeOK
  <1>1. IInv => TypeOK BY DEF IInv
  <1> QED BY <1>1, InductiveInvariant, PTL

\* sync_changes tells the whole history of every object that was not purged: each
\* version from 1 to the row's own exactly once, whatever requests, aborts and
\* retries ran side by side.
THEOREM LogIsDense == Spec => []VersionsDense
  <1>1. IInv => VersionsDense
    <2> SUFFICES ASSUME IInv, NEW o \in Objects, rows[o].state # "purged"
                 PROVE  /\ {c.version : c \in LogOf(o)} = 1..rows[o].version
                        /\ \A c, d \in LogOf(o) : c.version = d.version => c = d
      BY DEF VersionsDense
    <2>1. Tells(changes, o, rows[o].version) BY DEF IInv, LogTellsRows
    <2> QED BY <2>1 DEF Tells, LogOf
  <1> QED BY <1>1, InductiveInvariant, PTL

\* For one object, the ids of sync_changes grow with its versions, although the
\* ids are handed out before COMMIT and by many transactions at once.
THEOREM LogIsOrdered == Spec => []LogInVersionOrder
  <1>1. IInv => LogInVersionOrder
    <2> SUFFICES ASSUME IInv, NEW c \in changes, NEW d \in changes,
                        c.obj = d.obj, c.version < d.version
                 PROVE  c.id < d.id
      BY DEF LogInVersionOrder
    <2>1. c.obj \in Objects /\ rows[c.obj].state # "purged"
      BY DEF IInv, TypeOK, Change, LogTellsRows
    <2>2. Tells(changes, c.obj, rows[c.obj].version) BY <2>1 DEF IInv, LogTellsRows
    <2> QED BY <2>2 DEF Tells
  <1> QED BY <1>1, InductiveInvariant, PTL

-----------------------------------------------------------------------------
(* SyncServer implements VersionLog.                                       *)

\* A function on 1..n is a sequence of length n.
LEMMA TableIsSeq ==
    ASSUME NEW n \in Nat, NEW f, f = [v \in 1..n |-> f[v]]
    PROVE  Len(f) = n /\ (n = 0 => f = <<>>)
  <1> DEFINE S == {f[v] : v \in 1..n}
  <1>1. f \in [1..n -> S] OBVIOUS
  <1>2. f \in Seq(S) BY <1>1, SeqDef
  <1>3. DOMAIN f = 1..n /\ DOMAIN f = 1..Len(f) /\ Len(f) \in Nat BY <1>1, <1>2, LenProperties
  <1>4. Len(f) = n BY <1>3
  <1> QED BY <1>2, <1>4, EmptySeq

\* The entry of a version is the one change that has it, now and after any step
\* that keeps that change.
LEMMA SameEntry ==
    ASSUME NEW o \in Objects, NEW v, NEW c \in changes \cap changes',
           c.obj = o, c.version = v,
           \A d \in changes : d.obj = o /\ d.version = v => d = c,
           \A d \in changes' : d.obj = o /\ d.version = v => d = c
    PROVE  Entry(o, v)' = Entry(o, v)
  <1>1. c = CHOOSE d \in changes : d.obj = o /\ d.version = v OBVIOUS
  <1>2. c = CHOOSE d \in changes' : d.obj = o /\ d.version = v OBVIOUS
  <1> QED BY <1>1, <1>2 DEF Entry

\* COMMIT is a step of VersionLog: histories grow at their end or are erased.
LEMMA CommitGrows ==
    ASSUME IInv, IInv', NEW s \in Sessions, Commit(s) PROVE Log!Grow
  <1>1. /\ rows' = [o \in Objects |-> Visible(s, o)]
        /\ changes' = {c \in changes \cup logged[s] : Visible(s, c.obj).state # "purged"}
        /\ pc[s] = "commit"
    BY DEF Commit
  <1>2. \A o \in Erased : o \in Erased'
    BY <1>1 DEF Erased, IInv, LocksExclusive, Visible
  <1>3. ASSUME NEW o \in Objects, o \notin Erased' PROVE Log!Extends(History'[o], History[o])
    <2> DEFINE m == rows[o].version
               n == rows'[o].version
    <2>1. rows[o].state # "purged" /\ rows'[o].state # "purged" /\ rows'[o] = Visible(s, o)
      BY <1>1, <1>2, <1>3 DEF Erased
    <2>2. Tells(changes, o, m) BY <2>1 DEF IInv, LogTellsRows
    <2>3. Tells(changes', o, n) BY <2>1 DEF IInv, LogTellsRows
    <2>4. m \in Nat /\ n \in Nat BY <2>1 DEF IInv, TypeOK, Row
    <2>5. \A c \in changes : c.obj = o => c \in changes' BY <1>1, <2>1
    <2>6. m <= n
      <3>1. CASE m = 0 BY <2>4, <3>1
      <3>2. CASE m # 0
        <4>1. PICK c \in changes : c.obj = o /\ c.version = m BY <2>2, <2>4, <3>2 DEF Tells
        <4> QED BY <2>3, <2>4, <2>5, <4>1 DEF Tells
      <3> QED BY <3>1, <3>2
    <2>7. \A v \in 1..m : Entry(o, v)' = Entry(o, v)
      <3> SUFFICES ASSUME NEW v \in 1..m PROVE Entry(o, v)' = Entry(o, v) OBVIOUS
      <3>1. PICK c \in changes : c.obj = o /\ c.version = v BY <2>2 DEF Tells
      <3>2. c \in changes' BY <2>5, <3>1
      <3>3. \A d \in changes : d.obj = o /\ d.version = v => d = c BY <2>2, <3>1 DEF Tells
      <3>4. \A d \in changes' : d.obj = o /\ d.version = v => d = c BY <2>3, <3>1, <3>2 DEF Tells
      <3> QED BY <3>1, <3>2, <3>3, <3>4, SameEntry
    <2>8. /\ History[o] = [v \in 1..m |-> Entry(o, v)]
          /\ History'[o] = [v \in 1..n |-> Entry(o, v)']
      BY DEF History
    <2> HIDE DEF m, n
    <2>9. Len(History[o]) = m /\ Len(History'[o]) = n BY <2>4, <2>8, TableIsSeq
    <2> QED BY <2>4, <2>6, <2>7, <2>8, <2>9 DEF Log!Extends
  <1>4. ASSUME NEW o \in Erased' PROVE History'[o] = <<>>
    <2>1. o \in Objects /\ rows'[o].state = "purged" BY <1>4 DEF Erased
    <2>2. rows'[o].version = 0 BY <2>1 DEF IInv, LogTellsRows
    <2>3. History'[o] = [v \in 1..0 |-> Entry(o, v)'] BY <2>1, <2>2 DEF History
    <2> QED BY <2>3, TableIsSeq
  <1> QED BY <1>2, <1>3, <1>4 DEF Log!Grow

\* The server's tables implement VersionLog: no request, retry, rollback or
\* interleaving rewrites, renumbers or skips a version, and a purge erases all of
\* an object's history at once and for good.
THEOREM SyncServerImplementsVersionLog == Spec => ImplementsVersionLog
  <1>1. Init => Log!Init
    <2> SUFFICES ASSUME Init PROVE Log!Init OBVIOUS
    <2>1. \A o \in Objects : rows[o].version = 0 /\ rows[o].state = "absent"
      BY DEF Init, AbsentRow
    <2>2. Erased = {} BY <2>1 DEF Erased
    <2>3. \A o \in Objects : [v \in 1..rows[o].version |-> Entry(o, v)] = <<>>
      <3> SUFFICES ASSUME NEW o \in Objects
                   PROVE  [v \in 1..rows[o].version |-> Entry(o, v)] = <<>>
        OBVIOUS
      <3> DEFINE f == [v \in 1..0 |-> Entry(o, v)]
      <3>1. f = [v \in 1..0 |-> f[v]] OBVIOUS
      <3> HIDE DEF f
      <3>2. f = <<>> BY <3>1, TableIsSeq
      <3> QED BY <2>1, <3>2 DEF f
    <2>4. History = [o \in Objects |-> <<>>] BY <2>3 DEF History
    <2> QED BY <2>2, <2>4 DEF Log!Init
  <1>2. IInv /\ IInv' /\ [Next]_vars => [Log!Grow]_(Log!vars)
    <2> SUFFICES ASSUME IInv, IInv', [Next]_vars PROVE [Log!Grow]_(Log!vars) OBVIOUS
    <2>1. CASE UNCHANGED <<rows, changes>>
      BY <2>1 DEF Log!vars, History, Erased, Entry
    <2>2. CASE \E s \in Sessions : Commit(s) BY <2>2, CommitGrows
    <2>3. UNCHANGED <<rows, changes>> \/ \E s \in Sessions : Commit(s)
      <3>1. ASSUME NEW s \in Sessions, BeginStep(s) \/ ReadStep(s)
            PROVE  UNCHANGED <<rows, changes>>
        BY <3>1 DEF BeginStep, BeginPush, BeginWeb, BeginResolve, Begin,
                    ReadStep, LookupMiss, Replay, FindForPush, FindForWeb, FindConflict
      <3>2. ASSUME NEW s \in Sessions, WriteStep(s) \/ RecordStep(s)
            PROVE  UNCHANGED <<rows, changes>>
        BY <3>2 DEF WriteStep, InsertRow, UpdateRow, DeleteRow, ResolveRow,
                    RecordStep, LogChange, RecordAccepted, RecordRejected, RecordConflict
      <3>3. ASSUME NEW s \in Sessions, EndStep(s), ~Commit(s)
            PROVE  UNCHANGED <<rows, changes>>
        BY <3>3 DEF EndStep, Rollback, Abort
      <3>4. CASE UserStep BY <3>4 DEF UserStep, Edit
      <3>5. CASE \E d \in Readers : Pull(d) BY <3>5 DEF Pull
      <3>6. CASE \E old \in SUBSET Writes : Purge(old) BY <3>6 DEF Purge
      <3>7. CASE UNCHANGED vars BY <3>7 DEF vars
      <3> QED BY <3>1, <3>2, <3>3, <3>4, <3>5, <3>6, <3>7 DEF Next
    <2> QED BY <2>1, <2>2, <2>3
  <1> QED BY <1>1, <1>2, InductiveInvariant, PTL DEF Spec, ImplementsVersionLog, Log!Spec
=============================================================================
