-------------------------- MODULE SyncEffectsProofs --------------------------
(***************************************************************************)
(* What the records of SyncServer say of each other: that the newest       *)
(* change of an object is its row, that the mutation log and the change    *)
(* log agree, and that what a device was told is in the tables.  Each part *)
(* strengthens IInv of SyncServer by what the running transactions owe.    *)
(***************************************************************************)
EXTENDS SyncServerProofs, FiniteSetTheorems

USE DEF tables, devices, private, bounds

-----------------------------------------------------------------------------
(* The newest change of an object is its row.                              *)

\* A resolution may patch or touch a row that is deleted, and logs an upsert for it.
Patching == Strategies \cap {"use_local", "use_server"} # {}
TellsDeletion(c, r) ==
    \/ c.by = Blank /\ Patching
    \/ c.action = "delete" <=> r.state = "deleted"

\* The changes H that have the version of row r of object o carry the row.
Carries(H, o, r) ==
    \A c \in H : c.obj = o /\ c.version = r.version =>
                    c.payload = r.payload /\ TellsDeletion(c, r)

\* A request that is under way serves intents that are issued, and so cannot change.
ServesIntents ==
    /\ \A w \in Writes : intent[w].issued /\ Via[w] = "web" /\ intent[w].obj = NoObject =>
          intent[w].action = "upsert"
    /\ \A s \in Sessions : job[s].kind # "resolve" =>
          \A i \in DOMAIN todo[s] : intent[todo[s][i]].issued
    /\ \A s \in Sessions : job[s].kind \in {"create", "update", "delete"} /\ todo[s] # <<>> =>
          (intent[W(s)].action = "delete" <=> job[s].kind = "delete")
    /\ \A s \in Sessions : pc[s] # "idle" => job[s].kind # "none"

\* A row about to be logged is deleted exactly when the change will say so.
LogsDeletion ==
    \A s \in Sessions : pc[s] = "log" =>
        \/ job[s].kind = "resolve" /\ Patching
        \/ draft[s][target[s]].state = "deleted" <=> IsDeletion(s)

\* The log carries the rows, as everybody sees them and as each session does.
LogCarriesRows ==
    /\ \A o \in Objects : Carries(changes, o, rows[o])
    /\ \A s \in Sessions, o \in Objects : Visible(s, o).state # "purged" =>
          Carries(changes \cup logged[s], o, Visible(s, o))

RowInv == IInv /\ ServesIntents /\ LogsDeletion /\ LogCarriesRows


\* The head and the rest of what a request has still to do.
LEMMA HeadAndRest ==
    ASSUME TypeOK, NEW s \in Sessions, todo[s] # <<>>
    PROVE  /\ 1 \in DOMAIN todo[s] /\ W(s) = todo[s][1]
           /\ \A i \in DOMAIN Tail(todo[s]) :
                 i + 1 \in DOMAIN todo[s] /\ Tail(todo[s])[i] = todo[s][i + 1]
  BY DEF TypeOK, W

\* Every session has a value of each variable that is its own.
SessionVars ==
    /\ DOMAIN pc = Sessions /\ DOMAIN job = Sessions /\ DOMAIN todo = Sessions
    /\ DOMAIN target = Sessions /\ DOMAIN draft = Sessions /\ DOMAIN logged = Sessions
    /\ DOMAIN noted = Sessions /\ DOMAIN replies = Sessions

(* The types of what a session holds are those of TypeOK. *)
LEMMA HaveSessionVars == TypeOK => SessionVars
  BY DEF TypeOK, PartialMaps, SessionVars

\* A step of s leaves the variables of the other sessions alone ...
OthersStay(s) ==
    \A t \in Sessions \ {s} :
       /\ pc'[t] = pc[t] /\ job'[t] = job[t] /\ todo'[t] = todo[t]
       /\ target'[t] = target[t] /\ draft'[t] = draft[t] /\ logged'[t] = logged[t]
       /\ noted'[t] = noted[t] /\ replies'[t] = replies[t]

\* ... and its own request, unless it ends or goes on to the next mutation of a push.
RequestStays(s) ==
    \/ job'[s] = NoJob /\ todo'[s] = <<>> /\ pc'[s] = "idle"
    \/ /\ job'[s] = job[s] /\ pc[s] # "idle"
       /\ \/ todo'[s] = todo[s]
          \/ /\ job[s].kind = "push" /\ todo[s] # <<>> /\ todo'[s] = Tail(todo[s])
             /\ pc'[s] \in {"lookup", "commit"}

(* A step of a session leaves the others, and the intents, alone. *)
LEMMA StepOfOne ==
    ASSUME IInv, NEW s \in Sessions, ReadStep(s) \/ WriteStep(s) \/ RecordStep(s) \/ EndStep(s)
    PROVE  UNCHANGED <<intent, purges>> /\ OthersStay(s) /\ RequestStays(s)
  <1>0. SessionVars BY HaveSessionVars DEF IInv
  <1> USE <1>0 DEF SessionVars, OthersStay, RequestStays
  <1>1. CASE ReadStep(s)
    <2>1. CASE LookupMiss(s) BY <2>1 DEF LookupMiss
    <2>2. CASE FindForPush(s) BY <2>2 DEF FindForPush
    <2>3. CASE FindForWeb(s) BY <2>3 DEF FindForWeb
    <2>4. CASE FindConflict(s) BY <2>4 DEF FindConflict
    <2>5. CASE Replay(s)
      <3>1. UNCHANGED <<intent, purges, job, target, draft, logged, noted>> /\ NextMutation(s)
            /\ pc[s] = "lookup"
        BY <2>5 DEF Replay
      <3>2. \A t \in Sessions \ {s} : replies'[t] = replies[t] BY <2>5 DEF Replay, Reply
      <3>3. job[s].kind = "push" /\ todo[s] # <<>> BY <3>1 DEF IInv, Requests
      <3> QED BY <3>1, <3>2, <3>3 DEF NextMutation
    <2> QED BY <1>1, <2>1, <2>2, <2>3, <2>4, <2>5 DEF ReadStep
  <1>2. CASE WriteStep(s)
    <2>1. pc[s] = "write" /\ UNCHANGED <<intent, purges, job, todo, logged, noted, replies>>
      BY <1>2, WriteSteps
    <2>2. \A t \in Sessions \ {s} : pc'[t] = pc[t] /\ target'[t] = target[t] /\ draft'[t] = draft[t]
      BY <1>2, WriteSteps DEF SqlError, RowGone, Wrote, ToLog
    <2> QED BY <2>1, <2>2
  <1>3. CASE RecordStep(s)
    <2>1. CASE LogChange(s) BY <2>1 DEF LogChange
    <2>2. ASSUME RecordAccepted(s) \/ RecordRejected(s) \/ (RecordConflict(s) /\ AfterConflict(s))
          PROVE  UNCHANGED <<intent, purges>> /\ OthersStay(s) /\ RequestStays(s)
      <3>1. /\ UNCHANGED <<intent, purges, job, target, draft, logged>> /\ NextMutation(s)
            /\ pc[s] \in {"record", "reject", "refuse"}
        BY <2>2 DEF RecordAccepted, RecordRejected, RecordConflict, AfterConflict, SqlError
      <3>2. \A t \in Sessions \ {s} : replies'[t] = replies[t] /\ noted'[t] = noted[t]
        BY <2>2 DEF RecordAccepted, RecordRejected, RecordConflict, Reply, RecordMutation
      <3>3. job[s].kind = "push" /\ todo[s] # <<>> BY <3>1 DEF IInv, Requests
      <3> QED BY <3>1, <3>2, <3>3 DEF NextMutation
    <2>3. ASSUME RecordConflict(s), SqlError(s), UNCHANGED <<noted, raised, replies, todo>>
          PROVE  UNCHANGED <<intent, purges>> /\ OthersStay(s) /\ RequestStays(s)
      BY <2>3 DEF RecordConflict, SqlError
    <2>4. RecordConflict(s) => \/ AfterConflict(s)
                               \/ SqlError(s) /\ UNCHANGED <<noted, raised, replies, todo>>
      BY DEF RecordConflict
    <2> QED BY <1>3, <2>1, <2>2, <2>3, <2>4 DEF RecordStep
  <1>4. CASE EndStep(s)
    <2>1. Release(s) /\ UNCHANGED <<intent, purges>>
      BY <1>4 DEF EndStep, Commit, Rollback, Abort
    <2> QED BY <2>1 DEF Release
  <1> QED BY <1>1, <1>2, <1>3, <1>4

\* What is issued stays as it is.
LEMMA IssuedStays ==
    ASSUME IInv, UserStep
    PROVE  /\ \A w \in Writes : intent[w].issued => intent'[w] = intent[w]
           /\ \A w \in Writes : intent'[w] # intent[w] =>
                 (Via[w] = "web" /\ intent'[w].obj = NoObject => intent'[w].action = "upsert")
           /\ UNCHANGED <<tables, seq, pc, job, todo, target, private, replies, answers, purges>>
  <1>1. PICK w \in Writes, a \in {"upsert", "delete"}, o \in Objects \cup {NoObject},
             u \in Uids \cup {Blank} :
               \E b \in {0} \cup {rows[p].version : p \in Objects} : Edit(w, a, o, u, b)
    BY DEF UserStep
  <1>2. PICK b \in {0} \cup {rows[p].version : p \in Objects} : Edit(w, a, o, u, b) BY <1>1
  <1>3. /\ ~intent[w].issued /\ (Via[w] = "web" /\ o = NoObject => a = "upsert")
        /\ intent' = [intent EXCEPT ![w] = [issued |-> TRUE, action |-> a, obj |-> o,
                                            uid |-> u, base |-> b]]
        /\ UNCHANGED <<tables, seq, pc, job, todo, target, private, replies, answers, purges>>
    BY <1>2 DEF Edit
  <1>4. intent'[w] = [issued |-> TRUE, action |-> a, obj |-> o, uid |-> u, base |-> b]
        /\ \A x \in Writes \ {w} : intent'[x] = intent[x]
    BY <1>3 DEF IInv, TypeOK
  <1> QED BY <1>3, <1>4

\* A request that begins serves intents that are issued, of the kind it has.
LEMMA BegunServes ==
    ASSUME IInv, NEW s \in Sessions, BeginStep(s)
    PROVE  /\ OthersStay(s) /\ UNCHANGED <<intent, tables, seq, private, replies, answers, purges>>
           /\ pc[s] = "idle" /\ pc'[s] \in {"lookup", "find", "write"}
           /\ job'[s].kind # "none"
           /\ job'[s].kind # "resolve" =>
                 \A i \in DOMAIN todo'[s] : /\ intent[todo'[s][i]].issued
                                            /\ todo'[s][i] \in job'[s].writes
           /\ job'[s].kind = "push" =>
                 \A i \in DOMAIN todo'[s] : Via[todo'[s][i]] = "push"
           /\ Overlap \/ job'[s].writes \cap InFlight = {}
           /\ job'[s].kind = "push" => pc'[s] = "lookup"
           /\ job'[s].kind \in {"create", "update", "delete"} =>
                 \E w \in Writes : /\ todo'[s] = <<w>> /\ Via[w] = "web"
                                   /\ job'[s].kind = WebKind(w)
  <1>0. SessionVars BY HaveSessionVars DEF IInv
  <1> USE <1>0 DEF SessionVars, OthersStay
  <1>1. ASSUME NEW j, NEW ws, NEW st \in {"lookup", "find", "write"}, NEW o, Begin(s, j, ws, st, o)
        PROVE  /\ OthersStay(s) /\ pc[s] = "idle" /\ pc'[s] \in {"lookup", "find", "write"}
               /\ UNCHANGED <<intent, tables, seq, private, replies, answers, purges>>
               /\ job'[s] = j /\ todo'[s] = ws /\ \A w \in j.writes : intent[w].issued
               /\ pc'[s] = st /\ (Overlap \/ j.writes \cap InFlight = {})
    BY <1>1 DEF Begin
  <1> HIDE DEF OthersStay
  <1>2. ASSUME NEW n \in 1..MaxBatch, NEW batch \in [1..n -> Writes], BeginPush(s, batch)
        PROVE  /\ OthersStay(s) /\ UNCHANGED <<intent, tables, seq, private, replies, answers, purges>>
               /\ pc[s] = "idle" /\ pc'[s] = "lookup"
               /\ job'[s].kind = "push"
               /\ \A i \in DOMAIN todo'[s] : /\ intent[todo'[s][i]].issued
                                             /\ todo'[s][i] \in job'[s].writes
                                             /\ Via[todo'[s][i]] = "push"
               /\ Overlap \/ job'[s].writes \cap InFlight = {}
    <2> DEFINE j == [kind |-> "push", device |-> Author[batch[1]],
                     writes |-> {batch[i] : i \in DOMAIN batch},
                     conflict |-> 0, strategy |-> "none"]
    <2>1. Begin(s, j, batch, "lookup", NoObject) BY <1>2 DEF BeginPush
    <2>2. j.kind = "push" /\ j.writes = {batch[i] : i \in DOMAIN batch} OBVIOUS
    <2> HIDE DEF j
    <2>3. /\ todo'[s] = batch /\ job'[s] = j /\ \A w \in j.writes : intent[w].issued
          /\ pc'[s] = "lookup" /\ (Overlap \/ j.writes \cap InFlight = {})
      BY <1>1, <2>1
    <2>4. \A w \in j.writes : Via[w] = "push" BY <1>2, <2>2 DEF BeginPush
    <2> QED BY <1>1, <2>1, <2>2, <2>3, <2>4
  <1>3. ASSUME NEW w \in Writes, BeginWeb(s, w)
        PROVE  /\ OthersStay(s) /\ UNCHANGED <<intent, tables, seq, private, replies, answers, purges>>
               /\ pc[s] = "idle" /\ pc'[s] \in {"lookup", "find", "write"}
               /\ job'[s].kind = WebKind(w) /\ todo'[s] = <<w>> /\ Via[w] = "web"
               /\ intent[w].issued /\ w \in job'[s].writes
               /\ Overlap \/ job'[s].writes \cap InFlight = {}
    <2> DEFINE j == [kind |-> WebKind(w), device |-> Author[w], writes |-> {w},
                     conflict |-> 0, strategy |-> "none"]
               st == IF WebKind(w) = "delete" THEN "write" ELSE "find"
    <2>1. Begin(s, j, <<w>>, st, intent[w].obj) /\ Via[w] = "web" BY <1>3 DEF BeginWeb
    <2>2. j.kind = WebKind(w) /\ j.writes = {w} /\ st \in {"lookup", "find", "write"} OBVIOUS
    <2> HIDE DEF j, st
    <2>3. /\ OthersStay(s) /\ pc[s] = "idle" /\ pc'[s] \in {"lookup", "find", "write"}
          /\ UNCHANGED <<intent, tables, seq, private, replies, answers, purges>>
          /\ job'[s] = j /\ todo'[s] = <<w>> /\ \A x \in j.writes : intent[x].issued
          /\ Overlap \/ j.writes \cap InFlight = {}
      <3> DEFINE o == intent[w].obj  ws == <<w>>
      <3>1. Begin(s, j, ws, st, o) BY <2>1
      <3> HIDE DEF o, ws
      <3>2. /\ job'[s] = j /\ todo'[s] = ws /\ \A x \in j.writes : intent[x].issued
            /\ Overlap \/ j.writes \cap InFlight = {}
        BY <1>1, <2>2, <3>1
      <3> QED BY <1>1, <2>2, <3>1, <3>2 DEF ws
    <2> QED BY <2>1, <2>2, <2>3
  <1>4. ASSUME NEW d \in Devices, NEW c \in DOMAIN conflicts, NEW st \in Strategies,
               BeginResolve(s, d, c, st)
        PROVE  /\ OthersStay(s) /\ UNCHANGED <<intent, tables, seq, private, replies, answers, purges>>
               /\ pc[s] = "idle" /\ pc'[s] \in {"lookup", "find", "write"}
               /\ job'[s].kind = "resolve" /\ job'[s].writes = {}
    <2> DEFINE j == [kind |-> "resolve", device |-> d, writes |-> {}, conflict |-> c,
                     strategy |-> st]
    <2>1. Begin(s, j, <<conflicts[c].write>>, "find", NoObject) BY <1>4 DEF BeginResolve
    <2>2. j.kind = "resolve" /\ j.writes = {} OBVIOUS
    <2> HIDE DEF j
    <2> QED BY <1>1, <2>1, <2>2
  <1>5. \A w \in Writes : WebKind(w) \in {"create", "update", "delete"} BY DEF WebKind
  <1>6. CASE \E n \in 1..MaxBatch : \E batch \in [1..n -> Writes] : BeginPush(s, batch)
    BY <1>2, <1>6
  <1>7. CASE \E w \in Writes : BeginWeb(s, w) BY <1>3, <1>5, <1>7
  <1>8. CASE \E d \in Devices, c \in DOMAIN conflicts, st \in Strategies : BeginResolve(s, d, c, st)
    BY <1>4, <1>8
  <1> QED BY <1>6, <1>7, <1>8 DEF BeginStep

\* ServesIntents is kept by every step.
LEMMA NextServes ==
    ASSUME IInv, IInv', ServesIntents, [Next]_vars
    PROVE  ServesIntents'
  <1> USE DEF ServesIntents
  <1>0. TypeOK /\ TypeOK' BY DEF IInv
  <1>1. CASE UserStep
    <2>1. \A s \in Sessions : job[s].kind # "resolve" =>
             \A i \in DOMAIN todo[s] : intent'[todo[s][i]] = intent[todo[s][i]]
      <3>1. \A s \in Sessions : job[s].kind # "resolve" =>
               \A i \in DOMAIN todo[s] : todo[s][i] \in Writes
        BY DEF IInv, Requests
      <3> QED BY <1>1, <3>1, IssuedStays
    <2>2. \A s \in Sessions : job[s].kind # "resolve" /\ todo[s] # <<>> =>
             intent'[W(s)] = intent[W(s)]
      BY <1>0, <2>1, HeadAndRest
    <2>3. \A s \in Sessions : W(s)' = W(s) BY <1>1, IssuedStays DEF W
    <2> QED BY <1>1, <2>1, <2>2, <2>3, IssuedStays
  <1>2. ASSUME NEW s \in Sessions, BeginStep(s) PROVE ServesIntents'
    <2>1. ASSUME job'[s].kind \in {"create", "update", "delete"}
          PROVE  intent[W(s)'].action = "delete" <=> job'[s].kind = "delete"
      <3>1. PICK w \in Writes : todo'[s] = <<w>> /\ Via[w] = "web" /\ job'[s].kind = WebKind(w)
        BY <1>2, <2>1, BegunServes
      <3>2. W(s)' = w /\ intent[w].issued
        BY <1>2, <2>1, <3>1, BegunServes DEF W
      <3> QED BY <3>1, <3>2 DEF WebKind
    <2>2. \A t \in Sessions \ {s} : W(t)' = W(t)
      BY <1>2, BegunServes DEF OthersStay, W
    <2> QED BY <1>2, <2>1, <2>2, BegunServes DEF OthersStay
  <1>3. ASSUME NEW s \in Sessions, ReadStep(s) \/ WriteStep(s) \/ RecordStep(s) \/ EndStep(s)
        PROVE  ServesIntents'
    <2>1. UNCHANGED intent /\ OthersStay(s) /\ RequestStays(s) BY <1>3, StepOfOne
    <2>2. \A t \in Sessions \ {s} : W(t)' = W(t) BY <2>1 DEF OthersStay, W
    <2>3. CASE job'[s] = NoJob /\ todo'[s] = <<>> /\ pc'[s] = "idle"
      BY <2>1, <2>2, <2>3 DEF OthersStay, NoJob
    <2>4. CASE job'[s] = job[s] /\ pc[s] # "idle" /\ todo'[s] = todo[s]
      <3>1. W(s)' = W(s) BY <2>4 DEF W
      <3> QED BY <2>1, <2>2, <2>4, <3>1 DEF OthersStay
    <2>5. CASE /\ job'[s] = job[s] /\ job[s].kind = "push" /\ todo[s] # <<>>
               /\ todo'[s] = Tail(todo[s]) /\ pc[s] # "idle"
      <3>1. \A i \in DOMAIN todo'[s] : intent[todo'[s][i]].issued
        BY <1>0, <2>5, HeadAndRest
      <3>2. \A t \in Sessions \ {s} :
               todo'[t] = todo[t] /\ job'[t] = job[t] /\ pc'[t] = pc[t] /\ W(t)' = W(t)
        BY <2>1, <2>2 DEF OthersStay
      <3>3. \A t \in Sessions : job'[t].kind # "resolve" =>
               \A i \in DOMAIN todo'[t] : intent[todo'[t][i]].issued
        BY <2>5, <3>1, <3>2
      <3>4. \A t \in Sessions : /\ job'[t].kind \in {"create", "update", "delete"}
                                /\ todo'[t] # <<>>
                                => (intent[W(t)'].action = "delete" <=> job'[t].kind = "delete")
        BY <2>5, <3>2
      <3>5. \A t \in Sessions : pc'[t] # "idle" => job'[t].kind # "none" BY <2>5, <3>2
      <3> QED BY <2>1, <3>3, <3>4, <3>5
    <2> QED BY <2>1, <2>3, <2>4, <2>5 DEF RequestStays
  <1>4. CASE \/ \E d \in Readers : Pull(d)
             \/ \E old \in SUBSET Writes : Purge(old)
             \/ UNCHANGED vars
    <2>1. UNCHANGED <<intent, pc, job, todo>> BY <1>4 DEF Pull, Purge, vars
    <2>2. \A s \in Sessions : W(s)' = W(s) BY <2>1 DEF W
    <2> QED BY <2>1, <2>2
  <1> QED BY <1>1, <1>2, <1>3, <1>4 DEF Next

\* What a statement writes is deleted exactly when its change will say so.
LEMMA WrittenLogsDeletion ==
    ASSUME IInv, ServesIntents, NEW s \in Sessions, WriteStep(s), pc'[s] = "log"
    PROVE  \/ job[s].kind = "resolve" /\ Patching
           \/ draft'[s][target'[s]].state = "deleted" <=> IsDeletion(s)
  <1>0. SessionVars BY HaveSessionVars DEF IInv
  <1>1. /\ pc[s] = "write"
        /\ job[s].kind \in {"none", "push", "create", "update", "delete", "resolve"}
        /\ job[s].strategy \in Strategies \cup {"none"}
    BY WriteSteps DEF IInv, TypeOK, Job
  <1>2. /\ todo[s] # <<>> /\ job[s].kind # "none"
        /\ job[s].kind # "resolve" => intent[W(s)].action \in {"upsert", "delete"}
        /\ job[s].kind \in {"create", "update", "delete"} =>
              (intent[W(s)].action = "delete" <=> job[s].kind = "delete")
    BY <1>1, CurrentMutation DEF IInv, Requests, ServesIntents, Intent
  <1>3. ASSUME SqlError(s) \/ RowGone(s) PROVE FALSE
    BY <1>0, <1>3 DEF SqlError, RowGone, SessionVars
  <1>4. ASSUME NEW o, NEW new, ToLog(s, o, new)
        PROVE  draft'[s][target'[s]] = new[o]
    BY <1>0, <1>4 DEF ToLog, SessionVars
  <1>5. ASSUME NEW o, NEW r, ToLog(s, o, Put(draft[s], o, r))
        PROVE  draft'[s][target'[s]] = r
    <2>1. Put(draft[s], o, r)[o] = r BY DEF Put
    <2> QED BY <1>4, <1>5, <2>1
  <1>6. CASE InsertRow(s)
    <2> DEFINE kept == job[s].kind = "resolve"
               row  == [state   |-> IF ~kept /\ intent[W(s)].action = "delete"
                                    THEN "deleted" ELSE "live",
                        uid     |-> IF kept THEN Blank ELSE intent[W(s)].uid,
                        version |-> 1,
                        payload |-> Merge(EmptyPayload, W(s))]
    <2>1. ToLog(s, FreshObject, Put(draft[s], FreshObject, row)) BY <1>3, <1>6 DEF InsertRow
    <2>2. row.state = "deleted" <=> ~kept /\ intent[W(s)].action = "delete" OBVIOUS
    <2>3. draft'[s][target'[s]] = row BY <1>5, <2>1
    <2> HIDE DEF row
    <2> QED BY <1>1, <1>2, <2>2, <2>3 DEF IsDeletion
  <1>7. CASE UpdateRow(s)
    <2> DEFINE stale == StaleTombstones(s, target[s])
               new == [p \in DOMAIN draft[s] \cup {target[s]} \cup stale |->
                         IF p = target[s] THEN PatchRow(s, Visible(s, target[s]))
                         ELSE IF p \in stale THEN PurgedRow ELSE draft[s][p]]
    <2>1. ToLog(s, target[s], new) BY <1>3, <1>7 DEF UpdateRow
    <2>2. new[target[s]].state = "live" BY DEF PatchRow
    <2> HIDE DEF new
    <2>3. draft'[s][target'[s]].state = "live" BY <1>4, <2>1, <2>2
    <2>4. ~IsDeletion(s) BY <1>7 DEF UpdateRow, IsDeletion
    <2> QED BY <2>3, <2>4
  <1>8. CASE DeleteRow(s)
    <2> DEFINE r == DeletedRow(Visible(s, target[s]))
    <2>1. ToLog(s, target[s], Put(draft[s], target[s], r)) BY <1>3, <1>8 DEF DeleteRow
    <2>2. r.state = "deleted" BY DEF DeletedRow
    <2>3. draft'[s][target'[s]] = r BY <1>5, <2>1
    <2>4. IsDeletion(s) BY <1>2, <1>8 DEF DeleteRow, IsDeletion
    <2> HIDE DEF r
    <2> QED BY <2>2, <2>3, <2>4
  <1>9. CASE ResolveRow(s)
    BY <1>1, <1>9 DEF ResolveRow, Patching
  <1> QED BY <1>6, <1>7, <1>8, <1>9 DEF WriteStep

\* LogsDeletion is kept by every step.
LEMMA NextLogsDeletion ==
    ASSUME IInv, ServesIntents, LogsDeletion, [Next]_vars
    PROVE  LogsDeletion'
  <1>0. TypeOK /\ Requests BY DEF IInv
  <1>1. CASE UserStep
    <2>1. \A s \in Sessions : pc[s] = "log" /\ job[s].kind \in {"push", "delete"} =>
             W(s)' = W(s) /\ intent'[W(s)] = intent[W(s)]
      <3>1. \A s \in Sessions : W(s)' = W(s) BY <1>1, IssuedStays DEF W
      <3>2. \A s \in Sessions : pc[s] = "log" /\ job[s].kind \in {"push", "delete"} =>
               W(s) \in Writes /\ intent[W(s)].issued
        BY <1>0, HeadAndRest, CurrentMutation DEF Requests, ServesIntents
      <3> QED BY <1>1, <3>1, <3>2, IssuedStays
    <2>2. \A s \in Sessions : pc[s] = "log" => (IsDeletion(s)' <=> IsDeletion(s))
      BY <1>1, <2>1, IssuedStays DEF IsDeletion
    <2> QED BY <1>1, <2>2, IssuedStays DEF LogsDeletion
  <1>2. ASSUME NEW s \in Sessions, BeginStep(s) PROVE LogsDeletion'
    <2>1. \A t \in Sessions \ {s} : IsDeletion(t)' = IsDeletion(t)
      BY <1>2, BegunServes DEF OthersStay, IsDeletion, W
    <2> QED BY <1>2, <2>1, BegunServes DEF OthersStay, LogsDeletion
  <1>3. ASSUME NEW s \in Sessions, ReadStep(s) \/ WriteStep(s) \/ RecordStep(s) \/ EndStep(s)
        PROVE  LogsDeletion'
    <2>1. UNCHANGED intent /\ OthersStay(s) BY <1>3, StepOfOne
    <2>2. \A t \in Sessions \ {s} : IsDeletion(t)' = IsDeletion(t)
      BY <2>1 DEF OthersStay, IsDeletion, W
    <2>3. ASSUME pc'[s] = "log" PROVE WriteStep(s)
      <3>0. SessionVars BY <1>0, HaveSessionVars
      <3>1. CASE ReadStep(s)
        BY <1>0, <2>3, <3>0, <3>1
        DEF ReadStep, LookupMiss, Replay, FindForPush, FindForWeb, FindConflict, NextMutation,
            SessionVars
      <3>2. CASE RecordStep(s)
        BY <1>0, <2>3, <3>0, <3>2
        DEF RecordStep, LogChange, RecordAccepted, RecordRejected, RecordConflict,
            NextMutation, AfterConflict, SqlError, SessionVars
      <3>3. CASE EndStep(s)
        BY <2>3, <3>0, <3>3 DEF EndStep, Commit, Rollback, Abort, Release, SessionVars
      <3> QED BY <1>3, <3>1, <3>2, <3>3
    <2>4. ASSUME pc'[s] = "log"
          PROVE  /\ job'[s] = job[s] /\ IsDeletion(s)' = IsDeletion(s)
                 /\ \/ job[s].kind = "resolve" /\ Patching
                    \/ draft'[s][target'[s]].state = "deleted" <=> IsDeletion(s)
      <3>1. WriteStep(s) BY <2>3, <2>4
      <3>2. UNCHANGED <<job, todo, intent>> BY <3>1, WriteSteps
      <3> QED BY <2>4, <3>1, <3>2, WrittenLogsDeletion DEF IsDeletion, W
    <2> QED BY <2>1, <2>2, <2>4 DEF OthersStay, LogsDeletion
  <1>4. CASE \/ \E d \in Readers : Pull(d)
             \/ \E old \in SUBSET Writes : Purge(old)
             \/ UNCHANGED vars
    <2>1. UNCHANGED <<intent, pc, job, todo, draft, target>> BY <1>4 DEF Pull, Purge, vars
    <2> QED BY <2>1 DEF LogsDeletion, IsDeletion, W
  <1> QED BY <1>1, <1>2, <1>3, <1>4 DEF Next

\* What a step does to rows and changes, and to the records of mutations, committed
\* or not: nothing; ...
SameData == UNCHANGED <<rows, changes, draft, logged>>
SameRecords == UNCHANGED <<outcomes, noted>>
\* ... old mutations are purged; ...
Forgets ==
    /\ SameData /\ purges' # 0 /\ UNCHANGED noted
    /\ \A w \in Writes : outcomes'[w] = outcomes[w] \/ outcomes'[w] = NotRecorded
\* ... a session records a mutation, writes rows, or gives up what it did.  Logging a
\* change and COMMIT are the steps of the module.
Notes(s) ==
    /\ SameData /\ UNCHANGED outcomes
    /\ \E result \in {"accepted", "conflict", "rejected"}, obj \in Objects \cup {NoObject} :
          /\ RecordMutation(s, result, obj)
          /\ result = "accepted" => pc[s] = "record" /\ obj = target[s]
WritesData(s) ==
    /\ pc[s] = "write" /\ UNCHANGED <<rows, changes, logged>> /\ SameRecords
    /\ \E o \in Objects : \E new : Wrote(s, o, new)
GivesUpData(s) == Release(s) /\ UNCHANGED <<rows, changes, outcomes>>

(* What a step does to rows, changes and records: nothing, a purge, or one step of a
   session. *)
LEMMA DataSteps ==
    ASSUME IInv, [Next]_vars
    PROVE  \/ SameData /\ SameRecords
           \/ Forgets
           \/ \E s \in Sessions : \/ WritesData(s) \/ LogChange(s) \/ Notes(s)
                                  \/ Commit(s) \/ GivesUpData(s)
  <1>1. CASE UserStep BY <1>1, IssuedStays DEF SameData, SameRecords
  <1>2. ASSUME NEW s \in Sessions, BeginStep(s) PROVE SameData /\ SameRecords
    BY <1>2, BegunServes DEF SameData, SameRecords
  <1>3. ASSUME NEW s \in Sessions, ReadStep(s) PROVE SameData /\ SameRecords
    BY <1>3 DEF ReadStep, LookupMiss, Replay, FindForPush, FindForWeb, FindConflict,
                SameData, SameRecords
  <1>4. ASSUME NEW s \in Sessions, WriteStep(s) PROVE (SameData /\ SameRecords) \/ WritesData(s)
    BY <1>4, WriteSteps DEF SameData, SameRecords, WritesData, SqlError, RowGone
  <1>5. ASSUME NEW s \in Sessions, RecordStep(s)
        PROVE  (SameData /\ SameRecords) \/ Notes(s) \/ LogChange(s)
    <2>1. target[s] \in Objects \cup {NoObject} BY DEF IInv, TypeOK
    <2>2. CASE RecordAccepted(s) BY <2>1, <2>2 DEF RecordAccepted, Notes, SameData
    <2>3. CASE RecordRejected(s) BY <2>1, <2>3 DEF RecordRejected, Notes, SameData
    <2>4. CASE RecordConflict(s)
      BY <2>1, <2>4 DEF RecordConflict, Notes, SqlError, SameData, SameRecords
    <2> QED BY <1>5, <2>2, <2>3, <2>4 DEF RecordStep
  <1>6. ASSUME NEW s \in Sessions, EndStep(s) PROVE Commit(s) \/ GivesUpData(s)
    BY <1>6 DEF EndStep, Rollback, Abort, GivesUpData
  <1>7. CASE (\E d \in Readers : Pull(d)) \/ UNCHANGED vars
    BY <1>7 DEF Pull, vars, SameData, SameRecords
  <1>8. ASSUME NEW old \in SUBSET Writes, Purge(old) PROVE Forgets
    BY <1>8 DEF IInv, TypeOK, Purge, Forgets, SameData
  <1> QED BY <1>1, <1>2, <1>3, <1>4, <1>5, <1>6, <1>7, <1>8 DEF Next

\* What is carried of an object depends only on the changes of that object.
LEMMA CarriesLocal ==
    ASSUME NEW G, NEW H, NEW o, NEW r, \A c : c.obj = o => (c \in G <=> c \in H)
    PROVE  Carries(G, o, r) <=> Carries(H, o, r)
  BY DEF Carries

\* A row written is newer than everything logged of its object.
LEMMA WriteCarries ==
    ASSUME IInv, LogCarriesRows, NEW s \in Sessions, WritesData(s)
    PROVE  LogCarriesRows'
  <1>1. PICK o \in Objects : \E new : Wrote(s, o, new) BY DEF WritesData
  <1>2. PICK new : Wrote(s, o, new) BY <1>1
  <1>3. /\ draft'[s] = new /\ \A t \in Sessions \ {s} : draft'[t] = draft[t]
        /\ UNCHANGED <<rows, changes, logged>> /\ pc[s] = "write"
    BY <1>2 DEF IInv, TypeOK, PartialMaps, WritesData, Wrote, ToLog
  <1>4. PurgedRow.state = "purged" BY DEF PurgedRow, AbsentRow
  <1>5. /\ Visible(s, o)' = new[o] /\ new[o].version = Visible(s, o).version + 1
        /\ Visible(s, o).state # "purged" /\ Visible(s, o).version \in Nat
        /\ \A p \in Objects \ {o} : Visible(s, p)' = Visible(s, p)
                                    \/ Visible(s, p)'.state = "purged"
        /\ \A t \in Sessions \ {s}, p \in Objects : Visible(t, p)' = Visible(t, p)
    <2>1. Visible(s, o) \in Row BY VisibleRow DEF IInv
    <2> QED BY <1>2, <1>3, <1>4, <2>1 DEF Wrote, Visible, Row
  <1>6. Carries(changes \cup logged[s], o, new[o])
    <2>1. Tells(changes \cup logged[s], o, Visible(s, o).version)
      BY <1>3, <1>5 DEF IInv, LogTellsRows, LoggedVersion
    <2>2. \A c \in changes \cup logged[s] : c.obj = o => c.version # new[o].version
      BY <1>5, <2>1 DEF Tells
    <2> QED BY <2>2 DEF Carries
  <1> QED BY <1>3, <1>5, <1>6 DEF LogCarriesRows, Carries, TellsDeletion

\* The change logged carries the row it is about.
LEMMA LogCarries ==
    ASSUME IInv, LogsDeletion, LogCarriesRows, NEW s \in Sessions, LogChange(s)
    PROVE  LogCarriesRows'
  <1> DEFINE o == target[s]
             new == [id |-> NextChangeId(s), obj |-> target[s], device |-> job[s].device,
                     version |-> draft[s][target[s]].version, payload |-> ChangePayload(s),
                     action |-> IF IsDeletion(s) THEN "delete" ELSE "upsert",
                     by |-> IF job[s].kind = "resolve" THEN Blank ELSE W(s)]
  <1>1. /\ pc[s] = "log" /\ o \in DOMAIN draft[s] /\ o \in Objects
        /\ Visible(s, o) = draft[s][o] /\ Visible(s, o).state # "purged"
        /\ Visible(s, o).version \in Nat
    <2>1. /\ pc[s] = "log" /\ o \in DOMAIN draft[s] /\ o \in Objects
          /\ Visible(s, o) = draft[s][o] /\ Visible(s, o).state # "purged"
      BY DEF IInv, TypeOK, PartialMaps, Requests, LocksExclusive, LogChange, Visible
    <2>2. Visible(s, o) \in Row BY <2>1, VisibleRow DEF IInv
    <2> QED BY <2>1, <2>2 DEF Row
  <1>2. /\ new.obj = o /\ new.payload = Visible(s, o).payload
        /\ TellsDeletion(new, Visible(s, o))
    BY <1>1 DEF ChangePayload, LogsDeletion, TellsDeletion
  <1>3. /\ logged'[s] = logged[s] \cup {new}
        /\ \A t \in Sessions \ {s} : logged'[t] = logged[t]
        /\ UNCHANGED <<rows, changes, draft>>
    BY DEF IInv, TypeOK, LogChange
  <1> HIDE DEF new
  <1>4. Tells(changes \cup logged[s], o, Visible(s, o).version - 1)
    BY <1>1 DEF IInv, LogTellsRows, LoggedVersion
  <1>5. Carries(changes \cup logged'[s], o, Visible(s, o))
    <2>1. \A c \in changes \cup logged[s] : c.obj = o => c.version # Visible(s, o).version
      BY <1>1, <1>4 DEF Tells
    <2> QED BY <1>2, <1>3, <2>1 DEF Carries
  <1>6. \A p \in Objects \ {o} : Visible(s, p).state # "purged" =>
           Carries(changes \cup logged'[s], p, Visible(s, p))
    BY <1>2, <1>3 DEF LogCarriesRows, Carries
  <1>7. \A t \in Sessions, p \in Objects : Visible(t, p)' = Visible(t, p)
    BY <1>3 DEF Visible
  <1> QED BY <1>3, <1>5, <1>6, <1>7 DEF LogCarriesRows, Carries, TellsDeletion

\* COMMIT shows everybody rows and changes that s alone saw together.
LEMMA CommitCarries ==
    ASSUME IInv, LogCarriesRows, NEW s \in Sessions, Commit(s)
    PROVE  LogCarriesRows'
  <1>0. SessionVars BY HaveSessionVars DEF IInv
  <1>1. /\ rows' = [o \in Objects |-> Visible(s, o)]
        /\ changes' = {c \in changes \cup logged[s] : Visible(s, c.obj).state # "purged"}
        /\ DOMAIN draft'[s] = {} /\ logged'[s] = {}
        /\ \A t \in Sessions \ {s} : draft'[t] = draft[t] /\ logged'[t] = logged[t]
    BY <1>0 DEF Commit, Release, Nothing, SessionVars
  <1>2. \A o \in Objects : Carries(changes', o, Visible(s, o))
    <2> SUFFICES ASSUME NEW o \in Objects PROVE Carries(changes', o, Visible(s, o)) OBVIOUS
    <2>1. CASE Visible(s, o).state = "purged" BY <1>1, <2>1 DEF Carries
    <2>2. CASE Visible(s, o).state # "purged"
      BY <1>1, <2>2 DEF LogCarriesRows, Carries
    <2> QED BY <2>1, <2>2
  <1>3. \A o \in Objects : rows'[o] = Visible(s, o) /\ Visible(s, o)' = Visible(s, o)
    BY <1>1 DEF Visible
  <1>4. ASSUME NEW t \in Sessions, NEW o \in Objects, Visible(t, o)'.state # "purged"
        PROVE  Carries(changes' \cup logged'[t], o, Visible(t, o)')
    <2>1. CASE t = s
      <3>1. changes' \cup logged'[t] = changes' BY <1>1, <2>1
      <3> QED BY <1>2, <1>3, <2>1, <3>1
    <2>2. CASE t # s /\ o \notin DOMAIN draft[t]
      <3>1. Visible(t, o)' = Visible(s, o) BY <1>1, <2>2 DEF Visible
      <3>2. \A c \in logged[t] : c.obj # o BY <2>2 DEF IInv, LocksExclusive
      <3>3. \A c : c.obj = o => (c \in changes' <=> c \in changes' \cup logged'[t])
        BY <1>1, <2>2, <3>2
      <3> QED BY <1>2, <3>1, <3>3, CarriesLocal
    <2>3. CASE t # s /\ o \in DOMAIN draft[t]
      <3>1. o \notin DOMAIN draft[s] /\ rows[o].state # "purged"
        BY <2>3 DEF IInv, LocksExclusive
      <3>2. Visible(t, o)' = Visible(t, o) BY <1>1, <2>3 DEF Visible
      <3>3. Carries(changes \cup logged[t], o, Visible(t, o))
        BY <1>4, <3>2 DEF LogCarriesRows
      <3>4. \A c \in logged[s] : c.obj # o BY <3>1 DEF IInv, LocksExclusive
      <3>5. \A c : c.obj = o => (c \in changes' \cup logged'[t] <=> c \in changes \cup logged[t])
        BY <1>1, <2>3, <3>1, <3>4 DEF Visible
      <3> QED BY <3>2, <3>3, <3>5, CarriesLocal
    <2> QED BY <2>1, <2>2, <2>3
  <1>5. \A o \in Objects : Carries(changes', o, rows'[o]) BY <1>2, <1>3
  <1> QED BY <1>4, <1>5 DEF LogCarriesRows, Carries, TellsDeletion

\* LogCarriesRows is kept by every step.
LEMMA NextCarries ==
    ASSUME IInv, LogsDeletion, LogCarriesRows, [Next]_vars
    PROVE  LogCarriesRows'
  <1>1. CASE SameData
    <2>1. \A s \in Sessions, o \in Objects : Visible(s, o)' = Visible(s, o)
      BY <1>1 DEF SameData, Visible
    <2> QED BY <1>1, <2>1 DEF SameData, LogCarriesRows, Carries, TellsDeletion
  <1>2. ASSUME NEW s \in Sessions, GivesUpData(s) PROVE LogCarriesRows'
    <2>1. SessionVars BY HaveSessionVars DEF IInv
    <2>2. /\ UNCHANGED <<rows, changes>> /\ DOMAIN draft'[s] = {} /\ logged'[s] = {}
          /\ \A t \in Sessions \ {s} : draft'[t] = draft[t] /\ logged'[t] = logged[t]
      BY <1>2, <2>1 DEF GivesUpData, Release, Nothing, SessionVars
    <2>3. \A o \in Objects : /\ Visible(s, o)' = rows[o]
                             /\ \A t \in Sessions \ {s} : Visible(t, o)' = Visible(t, o)
      BY <2>2 DEF Visible
    <2> QED BY <2>2, <2>3 DEF LogCarriesRows, Carries, TellsDeletion
  <1> QED BY <1>1, <1>2, DataSteps, WriteCarries, LogCarries, CommitCarries
          DEF Forgets, Notes

\* The invariant holds in empty tables and is kept.
LEMMA InitRowInv == Init => RowInv
  <1> SUFFICES ASSUME Init PROVE RowInv OBVIOUS
  <1>1. IInv BY InitIInv
  <1>2. ServesIntents /\ LogsDeletion
    BY DEF Init, ServesIntents, LogsDeletion, NotIssued, NoJob
  <1>3. LogCarriesRows BY DEF Init, LogCarriesRows, Carries
  <1> QED BY <1>1, <1>2, <1>3 DEF RowInv

(* Every step keeps the newest change of an object its row. *)
LEMMA NextRowInv == RowInv /\ [Next]_vars => RowInv'
  BY NextIInv, NextServes, NextLogsDeletion, NextCarries DEF RowInv

(* The newest change of an object is its row in every reachable state. *)
LEMMA AlwaysRowInv == Spec => []RowInv
  BY InitRowInv, NextRowInv, PTL DEF Spec

\* The newest change of an object carries the payload of its row, whatever pushes,
\* web requests and resolutions ran side by side: what a device that reads to the end
\* of sync_changes holds is what sync_objects holds.
THEOREM NewestChangeIsTheRow == Spec => []NewestChangeIsRow
  <1>1. RowInv => NewestChangeIsRow
    BY DEF RowInv, LogCarriesRows, Carries, NewestChangeIsRow, LogOf
  <1> QED BY <1>1, AlwaysRowInv, PTL

\* It says deleted exactly when the row is deleted, as long as no conflict is resolved
\* by patching or touching the row: such a resolution logs an upsert even of a tombstone.
THEOREM NewestChangeTellsOfDeletion ==
    ASSUME Strategies \cap {"use_local", "use_server"} = {}
    PROVE  Spec => []NewestChangeTellsDeletion
  <1>1. RowInv => NewestChangeTellsDeletion
    BY DEF RowInv, LogCarriesRows, Carries, TellsDeletion, Patching,
           NewestChangeTellsDeletion, LogOf
  <1> QED BY <1>1, AlwaysRowInv, PTL

-----------------------------------------------------------------------------
(* The mutation log and the change log agree.                              *)

\* A mutation is noted by one transaction, and only if it is not on record.
NotedOnce ==
    /\ \A s, t \in Sessions : s # t => DOMAIN noted[s] \cap DOMAIN noted[t] = {}
    /\ \A s \in Sessions : \A w \in DOMAIN noted[s] :
          outcomes[w].result = "none" /\ noted[s][w].result # "none"

Made(H, w, o) == \E c \in H : c.by = w /\ c.obj = o

\* A mutation on record as accepted made a change of its object, and nobody is about
\* to delete that object physically.
AcceptedMade ==
    /\ \A w \in Writes : outcomes[w].result = "accepted" =>
          /\ Made(changes, w, outcomes[w].obj)
          /\ \A s \in Sessions : Visible(s, outcomes[w].obj).state # "purged"
    /\ \A s \in Sessions : \A w \in DOMAIN noted[s] : noted[s][w].result = "accepted" =>
          /\ Made(logged[s], w, noted[s][w].obj)
          /\ noted[s][w].obj \in DOMAIN draft[s]
          /\ draft[s][noted[s][w].obj].state # "purged"
    /\ \A s \in Sessions : pc[s] = "record" =>
          /\ draft[s][target[s]].state # "purged"
          /\ \E c \in logged[s] : /\ c.by = W(s) /\ c.obj = target[s]
                                  /\ c.version = draft[s][target[s]].version

RecordInv == IInv /\ NotedOnce /\ AcceptedMade

\* One delivery of a mutation at a time: a transaction works on mutations no other
\* transaction has, records and logs only those, ...
Mine(s) ==
    /\ DOMAIN noted[s] \subseteq job[s].writes
    /\ \A c \in logged[s] : Pushed(c) => c.by \in job[s].writes
    /\ IF pc[s] = "idle" THEN job[s].writes = {} ELSE job[s].kind # "none"
    /\ job[s].kind # "resolve" => \A i \in DOMAIN todo[s] : todo[s][i] \in job[s].writes
    /\ job[s].kind = "push" => \A i \in DOMAIN todo[s] : Via[todo[s][i]] = "push"
    /\ job[s].kind \in {"create", "update", "delete"} =>
          \A i \in DOMAIN todo[s] : Via[todo[s][i]] = "web"
\* ... and one that goes on after the lookup is not on record.
AfterLookup == {"find", "write", "log", "record", "reject", "refuse"}
Unprocessed(s) == job[s].kind = "push" /\ pc[s] \in AfterLookup => ~Processed(s)
OneDelivery ==
    /\ \A s, t \in Sessions : s # t => job[s].writes \cap job[t].writes = {}
    /\ \A s \in Sessions : Mine(s) /\ Unprocessed(s)

\* Until old mutations are purged, a pushed change and its record go together, and a
\* mutation has one change ...
AcceptedFor(o) == [result |-> "accepted", obj |-> o]
CommittedEffects == \A c \in changes : Pushed(c) => outcomes[c.by] = AcceptedFor(c.obj)
LoggedEffects(s) ==
    \A c \in logged[s] : Pushed(c) =>
       \/ OutcomeOf(s, c.by) = AcceptedFor(c.obj)
       \/ pc[s] = "record" /\ c.by = W(s)
AppliedOnceBy(s) ==
    \A c, d \in changes \cup logged[s] : Pushed(c) /\ c.by = d.by => c = d
EffectsRecorded ==
    CommittedEffects /\ \A s \in Sessions : LoggedEffects(s) /\ AppliedOnceBy(s)

\* ... and an accepted answer, given or being built, is about such a change.
AnswerHolds(H, a) ==
    \E c \in H : c.by = a.write /\ c.obj = a.obj /\ c.version <= a.version
GivenAnswers ==
    \A a \in answers : a.result = "accepted" =>
       outcomes[a.write] = AcceptedFor(a.obj) /\ AnswerHolds(changes, a)
BuiltAnswers(s) ==
    \A a \in replies[s] : a.result = "accepted" =>
       OutcomeOf(s, a.write) = AcceptedFor(a.obj) /\ AnswerHolds(changes \cup logged[s], a)
AnswersRecorded == GivenAnswers /\ \A s \in Sessions : BuiltAnswers(s)

OnceInv == RecordInv /\ OneDelivery /\ (purges = 0 => EffectsRecorded /\ AnswersRecorded)

\* A mutation recorded by s is new to everybody.
LEMMA NotesOne ==
    ASSUME IInv, NotedOnce, NEW s \in Sessions, NEW result, result # "none", NEW obj,
           RecordMutation(s, result, obj)
    PROVE  /\ \A t \in Sessions \ {s} : noted'[t] = noted[t]
           /\ \/ noted'[s] = noted[s]
              \/ /\ OutcomeOf(s, W(s)).result = "none"
                 /\ W(s) \notin DOMAIN noted[s]
                 /\ \A t \in Sessions : W(s) \notin DOMAIN noted[t]
                 /\ DOMAIN noted'[s] = DOMAIN noted[s] \cup {W(s)}
                 /\ noted'[s][W(s)] = [result |-> result, obj |-> obj]
                 /\ \A w \in DOMAIN noted[s] : noted'[s][w] = noted[s][w]
  <1>0. SessionVars BY HaveSessionVars DEF IInv
  <1> DEFINE put == Put(noted[s], W(s), [result |-> result, obj |-> obj])
  <1>1. /\ DOMAIN put = DOMAIN noted[s] \cup {W(s)}
        /\ put[W(s)] = [result |-> result, obj |-> obj]
        /\ \A w \in DOMAIN noted[s] : w # W(s) => put[w] = noted[s][w]
    BY DEF Put
  <1>2. \/ noted' = [noted EXCEPT ![s] = noted[s]]
        \/ OutcomeOf(s, W(s)).result = "none" /\ noted' = [noted EXCEPT ![s] = put]
    BY DEF RecordMutation
  <1>3. OutcomeOf(s, W(s)).result = "none" => W(s) \notin DOMAIN noted[s]
    BY DEF OutcomeOf, NotedOnce
  <1>4. \A t \in Sessions \ {s} : W(s) \notin DOMAIN noted[t] BY DEF RecordMutation
  <1> HIDE DEF put
  <1> QED BY <1>0, <1>1, <1>2, <1>3, <1>4 DEF SessionVars

\* NotedOnce is kept by every step.
LEMMA NextNotedOnce ==
    ASSUME IInv, NotedOnce, [Next]_vars
    PROVE  NotedOnce'
  <1>0. SessionVars BY HaveSessionVars DEF IInv
  <1>1. CASE SameRecords BY <1>1 DEF SameRecords, NotedOnce
  <1>2. CASE Forgets
    <2>1. \A s \in Sessions : DOMAIN noted[s] \subseteq Writes
      BY DEF IInv, TypeOK, PartialMaps
    <2>2. UNCHANGED noted
          /\ \A w \in Writes : outcomes[w].result = "none" => outcomes'[w].result = "none"
      BY <1>2 DEF Forgets, NotRecorded
    <2> QED BY <2>1, <2>2 DEF NotedOnce
  <1>3. ASSUME NEW s \in Sessions, Notes(s) PROVE NotedOnce'
    <2>1. PICK result \in {"accepted", "conflict", "rejected"}, obj \in Objects \cup {NoObject} :
             RecordMutation(s, result, obj)
      BY <1>3 DEF Notes
    <2>2. UNCHANGED outcomes BY <1>3 DEF Notes
    <2>3. \/ noted'[s] = noted[s]
          \/ /\ \A t \in Sessions : W(s) \notin DOMAIN noted[t]
             /\ outcomes[W(s)].result = "none"
             /\ DOMAIN noted'[s] = DOMAIN noted[s] \cup {W(s)}
             /\ noted'[s][W(s)].result # "none"
             /\ \A w \in DOMAIN noted[s] : noted'[s][w] = noted[s][w]
      <3>1. result # "none" OBVIOUS
      <3>2. CASE noted'[s] = noted[s] BY <3>2
      <3>3. CASE noted'[s] # noted[s]
        <4>1. /\ OutcomeOf(s, W(s)).result = "none"
              /\ W(s) \notin DOMAIN noted[s]
              /\ \A t \in Sessions : W(s) \notin DOMAIN noted[t]
              /\ DOMAIN noted'[s] = DOMAIN noted[s] \cup {W(s)}
              /\ noted'[s][W(s)] = [result |-> result, obj |-> obj]
              /\ \A w \in DOMAIN noted[s] : noted'[s][w] = noted[s][w]
          BY <2>1, <3>1, <3>3, NotesOne
        <4> QED BY <3>1, <4>1 DEF OutcomeOf
      <3> QED BY <3>2, <3>3
    <2>4. \A t \in Sessions \ {s} : noted'[t] = noted[t] BY <2>1, NotesOne
    <2> QED BY <2>2, <2>3, <2>4 DEF NotedOnce
  <1>4. ASSUME NEW s \in Sessions, Commit(s) PROVE NotedOnce'
    <2>1. /\ outcomes' = [w \in Writes |-> OutcomeOf(s, w)] /\ DOMAIN noted'[s] = {}
          /\ \A t \in Sessions \ {s} : noted'[t] = noted[t]
      BY <1>0, <1>4 DEF Commit, Release, Nothing, SessionVars
    <2>2. \A t \in Sessions : DOMAIN noted[t] \subseteq Writes
      BY DEF IInv, TypeOK, PartialMaps
    <2> QED BY <2>1, <2>2 DEF NotedOnce, OutcomeOf
  <1>5. ASSUME NEW s \in Sessions, GivesUpData(s) PROVE NotedOnce'
    BY <1>0, <1>5 DEF GivesUpData, Release, Nothing, SessionVars, NotedOnce
  <1>6. ASSUME NEW s \in Sessions, LogChange(s) PROVE SameRecords
    BY <1>6 DEF LogChange, SameRecords
  <1> QED BY <1>1, <1>2, <1>3, <1>4, <1>5, <1>6, DataSteps DEF WritesData

\* A session comes to record an accepted mutation only from logging its change.
LEMMA RecordAfterLog ==
    ASSUME IInv, [Next]_vars, NEW t \in Sessions, pc'[t] = "record"
    PROVE  \/ LogChange(t)
           \/ /\ pc[t] = "record" /\ target'[t] = target[t] /\ W(t)' = W(t)
              /\ draft'[t] = draft[t] /\ logged'[t] = logged[t]
  <1>0. SessionVars BY HaveSessionVars DEF IInv
  <1>1. CASE UserStep BY <1>1, IssuedStays DEF W
  <1>2. ASSUME NEW s \in Sessions, BeginStep(s)
        PROVE  /\ pc[t] = "record" /\ target'[t] = target[t] /\ W(t)' = W(t)
               /\ draft'[t] = draft[t] /\ logged'[t] = logged[t]
    <2>1. t # s BY <1>2, BegunServes
    <2> QED BY <1>2, <2>1, BegunServes DEF OthersStay, W
  <1>3. ASSUME NEW s \in Sessions, t # s,
               ReadStep(s) \/ WriteStep(s) \/ RecordStep(s) \/ EndStep(s)
        PROVE  /\ pc[t] = "record" /\ target'[t] = target[t] /\ W(t)' = W(t)
               /\ draft'[t] = draft[t] /\ logged'[t] = logged[t]
    BY <1>3, StepOfOne DEF OthersStay, W
  <1>4. ASSUME ReadStep(t) \/ WriteStep(t) \/ RecordStep(t) \/ EndStep(t) PROVE LogChange(t)
    <2>1. CASE ReadStep(t)
      BY <1>0, <2>1 DEF ReadStep, LookupMiss, Replay, FindForPush, FindForWeb, FindConflict,
                        NextMutation, SessionVars
    <2>2. CASE WriteStep(t)
      BY <1>0, <2>2, WriteSteps DEF SqlError, RowGone, Wrote, ToLog, SessionVars
    <2>3. CASE RecordStep(t)
      <3>1. RecordAccepted(t) \/ RecordRejected(t) => NextMutation(t)
        BY DEF RecordAccepted, RecordRejected
      <3>2. RecordConflict(t) => NextMutation(t) \/ SqlError(t)
        BY DEF RecordConflict, AfterConflict
      <3> QED BY <1>0, <2>3, <3>1, <3>2 DEF RecordStep, NextMutation, SqlError, SessionVars
    <2>4. CASE EndStep(t)
      BY <1>0, <2>4 DEF EndStep, Commit, Rollback, Abort, Release, SessionVars
    <2> QED BY <1>4, <2>1, <2>2, <2>3, <2>4
  <1>5. CASE \/ \E d \in Readers : Pull(d)
             \/ \E old \in SUBSET Writes : Purge(old)
             \/ UNCHANGED vars
    BY <1>5 DEF Pull, Purge, vars, W
  <1> QED BY <1>1, <1>2, <1>3, <1>4, <1>5 DEF Next

\* AcceptedMade, in three parts: committed records, records of a running transaction,
\* and records about to be made.
CommittedMade ==
    \A w \in Writes : outcomes[w].result = "accepted" =>
       /\ Made(changes, w, outcomes[w].obj)
       /\ \A s \in Sessions : Visible(s, outcomes[w].obj).state # "purged"
NotedMade(s) ==
    \A w \in DOMAIN noted[s] : noted[s][w].result = "accepted" =>
       /\ Made(logged[s], w, noted[s][w].obj)
       /\ noted[s][w].obj \in DOMAIN draft[s]
       /\ draft[s][noted[s][w].obj].state # "purged"
LoggedMade(s) ==
    pc[s] = "record" =>
       /\ draft[s][target[s]].state # "purged"
       /\ \E c \in logged[s] : /\ c.by = W(s) /\ c.obj = target[s]
                               /\ c.version = draft[s][target[s]].version

(* AcceptedMade, for what is committed and for each session. *)
LEMMA MadeParts ==
    AcceptedMade <=> /\ CommittedMade
                     /\ \A s \in Sessions : NotedMade(s) /\ LoggedMade(s)
  BY DEF AcceptedMade, CommittedMade, NotedMade, LoggedMade

\* The object of an accepted mutation is an object.
LEMMA AcceptedObject ==
    ASSUME IInv, NEW w \in Writes, outcomes[w].result = "accepted"
    PROVE  outcomes[w].obj \in Objects
  BY DEF IInv, TypeOK, AcceptedHaveObjects, Outcome

\* What is about to be recorded has been logged.
LEMMA NextLoggedMade ==
    ASSUME IInv, NEW t \in Sessions, LoggedMade(t), [Next]_vars
    PROVE  LoggedMade(t)'
  <1> SUFFICES ASSUME pc'[t] = "record"
               PROVE  /\ draft'[t][target'[t]].state # "purged"
                      /\ \E c \in logged'[t] : /\ c.by = W(t)' /\ c.obj = target'[t]
                                               /\ c.version = draft'[t][target'[t]].version
    BY DEF LoggedMade
  <1>1. CASE LogChange(t)
    <2> DEFINE new == [id |-> NextChangeId(t), obj |-> target[t], device |-> job[t].device,
                       version |-> draft[t][target[t]].version, payload |-> ChangePayload(t),
                       action |-> IF IsDeletion(t) THEN "delete" ELSE "upsert",
                       by |-> IF job[t].kind = "resolve" THEN Blank ELSE W(t)]
    <2>1. /\ UNCHANGED <<draft, target, todo>> /\ pc[t] = "log"
          /\ logged' = [logged EXCEPT ![t] = @ \cup {new}]
          /\ pc' = [pc EXCEPT ![t] = IF job[t].kind = "push" THEN "record" ELSE "commit"]
      BY <1>1 DEF LogChange
    <2>2. new \in logged'[t] /\ job[t].kind = "push"
      BY <2>1 DEF IInv, TypeOK
    <2>3. new.by = W(t) /\ new.obj = target[t] /\ new.version = draft[t][target[t]].version
      BY <2>2
    <2>4. draft[t][target[t]].state # "purged" BY <2>1 DEF IInv, LocksExclusive
    <2> HIDE DEF new
    <2> QED BY <2>1, <2>2, <2>3, <2>4 DEF W
  <1>2. CASE /\ pc[t] = "record" /\ target'[t] = target[t] /\ W(t)' = W(t)
             /\ draft'[t] = draft[t] /\ logged'[t] = logged[t]
    BY <1>2 DEF LoggedMade
  <1> QED BY <1>1, <1>2, RecordAfterLog

\* Writing rows deletes none a mutation on record refers to.
LEMMA WriteKeepsMade ==
    ASSUME IInv, NotedOnce, AcceptedMade, NEW s \in Sessions, WritesData(s)
    PROVE  CommittedMade' /\ \A t \in Sessions : NotedMade(t)'
  <1>1. PICK o \in Objects : \E new : Wrote(s, o, new) BY DEF WritesData
  <1>2. PICK new : Wrote(s, o, new) BY <1>1
  <1>3. /\ draft'[s] = new /\ \A t \in Sessions \ {s} : draft'[t] = draft[t]
        /\ UNCHANGED <<rows, changes, logged, outcomes, noted>>
    BY <1>2 DEF IInv, TypeOK, PartialMaps, WritesData, SameRecords, Wrote, ToLog
  <1>4. /\ new[o].state # "purged" /\ DOMAIN draft[s] \subseteq DOMAIN new
        /\ \A p \in DOMAIN new \ {o} :
              \/ ~Referenced(s, p)
              \/ p \in DOMAIN draft[s] /\ new[p] = draft[s][p]
    BY <1>2 DEF Wrote
  <1>5. ASSUME NEW w \in Writes, outcomes[w].result = "accepted", NEW t \in Sessions
        PROVE  Visible(t, outcomes[w].obj)'.state # "purged"
    <2>1. outcomes[w].obj \in Objects BY <1>5, AcceptedObject
    <2>2. Referenced(s, outcomes[w].obj)
      BY <1>5 DEF NotedOnce, Referenced, OutcomeOf
    <2>3. Visible(t, outcomes[w].obj).state # "purged" BY <1>5 DEF AcceptedMade
    <2> QED BY <1>3, <1>4, <2>1, <2>2, <2>3 DEF Visible
  <1>6. ASSUME NEW w \in DOMAIN noted[s], noted[s][w].result = "accepted"
        PROVE  /\ noted[s][w].obj \in DOMAIN new
               /\ new[noted[s][w].obj].state # "purged"
    <2>1. w \in Writes BY DEF IInv, TypeOK, PartialMaps
    <2>2. Referenced(s, noted[s][w].obj) BY <2>1 DEF Referenced, OutcomeOf
    <2>3. /\ noted[s][w].obj \in DOMAIN draft[s]
          /\ draft[s][noted[s][w].obj].state # "purged"
      BY <1>6 DEF AcceptedMade
    <2> QED BY <1>4, <2>2, <2>3
  <1>7. CommittedMade' BY <1>3, <1>5 DEF CommittedMade, AcceptedMade, Made
  <1>8. ASSUME NEW t \in Sessions PROVE NotedMade(t)'
    <2>1. CASE t = s BY <1>3, <1>6, <2>1 DEF NotedMade, AcceptedMade, Made
    <2>2. CASE t # s BY <1>3, <2>2 DEF NotedMade, AcceptedMade, Made
    <2> QED BY <2>1, <2>2
  <1> QED BY <1>7, <1>8

\* Recording a mutation: its change is in what the session logged.
LEMMA NotesKeepMade ==
    ASSUME IInv, NotedOnce, AcceptedMade, NEW s \in Sessions, Notes(s)
    PROVE  CommittedMade' /\ \A t \in Sessions : NotedMade(t)'
  <1>1. UNCHANGED <<rows, changes, draft, logged, outcomes>> BY DEF Notes, SameData
  <1>2. CommittedMade'
    BY <1>1 DEF CommittedMade, AcceptedMade, Made, Visible
  <1>3. PICK result \in {"accepted", "conflict", "rejected"}, obj \in Objects \cup {NoObject} :
           /\ RecordMutation(s, result, obj)
           /\ result = "accepted" => pc[s] = "record" /\ obj = target[s]
    BY DEF Notes
  <1>4. result # "none" OBVIOUS
  <1>5. ASSUME NEW t \in Sessions PROVE NotedMade(t)'
    <2>1. CASE noted'[t] = noted[t]
      BY <1>1, <2>1 DEF NotedMade, AcceptedMade, Made
    <2>2. CASE noted'[t] # noted[t]
      <3>1. t = s /\ W(s) \notin DOMAIN noted[s]
            /\ DOMAIN noted'[s] = DOMAIN noted[s] \cup {W(s)}
            /\ noted'[s][W(s)] = [result |-> result, obj |-> obj]
            /\ \A w \in DOMAIN noted[s] : noted'[s][w] = noted[s][w]
        BY <1>3, <1>4, <2>2, NotesOne
      <3>2. result = "accepted" => /\ Made(logged[s], W(s), obj) /\ obj \in DOMAIN draft[s]
                                   /\ draft[s][obj].state # "purged"
        BY <1>3 DEF AcceptedMade, Made, IInv, Requests
      <3> QED BY <1>1, <3>1, <3>2 DEF NotedMade, AcceptedMade, Made
    <2> QED BY <2>1, <2>2
  <1> QED BY <1>2, <1>5

\* COMMIT publishes the record of a mutation with its change and its object.
LEMMA CommitKeepsMade ==
    ASSUME IInv, NotedOnce, AcceptedMade, NEW s \in Sessions, Commit(s)
    PROVE  CommittedMade' /\ \A t \in Sessions : NotedMade(t)'
  <1>0. SessionVars BY HaveSessionVars DEF IInv
  <1>1. /\ rows' = [o \in Objects |-> Visible(s, o)]
        /\ changes' = {c \in changes \cup logged[s] : Visible(s, c.obj).state # "purged"}
        /\ outcomes' = [w \in Writes |-> OutcomeOf(s, w)]
        /\ DOMAIN draft'[s] = {} /\ logged'[s] = {} /\ DOMAIN noted'[s] = {}
        /\ \A t \in Sessions \ {s} : /\ draft'[t] = draft[t] /\ logged'[t] = logged[t]
                                     /\ noted'[t] = noted[t]
    BY <1>0 DEF Commit, Release, Nothing, SessionVars
  <1>2. ASSUME NEW o \in Objects, Visible(s, o).state # "purged", NEW t \in Sessions,
               o \in DOMAIN draft[t] => draft[t][o].state # "purged"
        PROVE  Visible(t, o)'.state # "purged"
    BY <1>1, <1>2 DEF Visible
  <1>3. ASSUME NEW w \in Writes, NEW o \in Objects,
               OutcomeOf(s, w).result = "accepted", OutcomeOf(s, w).obj = o
        PROVE  Made(changes', w, o) /\ \A t \in Sessions : Visible(t, o)'.state # "purged"
    <2>1. CASE w \in DOMAIN noted[s]
      <3>1. /\ Made(logged[s], w, o) /\ o \in DOMAIN draft[s] /\ draft[s][o].state # "purged"
        BY <1>3, <2>1 DEF OutcomeOf, AcceptedMade
      <3>2. /\ Visible(s, o).state # "purged"
            /\ \A t \in Sessions \ {s} : o \notin DOMAIN draft[t]
        BY <3>1 DEF IInv, LocksExclusive, Visible
      <3>3. Made(changes', w, o) BY <1>1, <3>1, <3>2 DEF Made
      <3> QED BY <1>2, <3>1, <3>2, <3>3
    <2>2. CASE w \notin DOMAIN noted[s]
      <3>1. Made(changes, w, o) /\ \A t \in Sessions : Visible(t, o).state # "purged"
        BY <1>3, <2>2 DEF OutcomeOf, AcceptedMade
      <3>2. Made(changes', w, o) BY <1>1, <3>1 DEF Made
      <3>3. \A t \in Sessions : o \in DOMAIN draft[t] => draft[t][o].state # "purged"
        BY <3>1 DEF Visible
      <3> QED BY <1>2, <3>1, <3>2, <3>3
    <2> QED BY <2>1, <2>2
  <1>4. CommittedMade'
    <2>1. \A w \in Writes : OutcomeOf(s, w).result = "accepted" =>
             OutcomeOf(s, w).obj \in Objects
      BY DEF IInv, TypeOK, PartialMaps, AcceptedHaveObjects, OutcomeOf, Outcome
    <2> QED BY <1>1, <1>3, <2>1 DEF CommittedMade
  <1>5. ASSUME NEW t \in Sessions PROVE NotedMade(t)'
    BY <1>1 DEF NotedMade, AcceptedMade, Made
  <1> QED BY <1>4, <1>5

\* AcceptedMade is kept by every step.
LEMMA NextAcceptedMade ==
    ASSUME IInv, NotedOnce, AcceptedMade, [Next]_vars
    PROVE  AcceptedMade'
  <1>0. SessionVars BY HaveSessionVars DEF IInv
  <1>1. \A t \in Sessions : LoggedMade(t)' BY MadeParts, NextLoggedMade
  <1>2. CASE SameData /\ SameRecords
    <2>1. CommittedMade' /\ \A t \in Sessions : NotedMade(t)'
      BY <1>2 DEF SameData, SameRecords, AcceptedMade, CommittedMade, NotedMade, Made, Visible
    <2> QED BY <1>1, <2>1 DEF AcceptedMade, CommittedMade, NotedMade, LoggedMade
  <1>3. CASE Forgets
    <2>1. CommittedMade'
      BY <1>3 DEF Forgets, SameData, NotRecorded, AcceptedMade, CommittedMade, Made, Visible
    <2>2. \A t \in Sessions : NotedMade(t)'
      BY <1>3 DEF Forgets, SameData, AcceptedMade, NotedMade, Made
    <2> QED BY <1>1, <2>1, <2>2 DEF AcceptedMade, CommittedMade, NotedMade, LoggedMade
  <1>4. ASSUME NEW s \in Sessions, LogChange(s)
        PROVE  CommittedMade' /\ \A t \in Sessions : NotedMade(t)'
    <2>1. /\ UNCHANGED <<rows, changes, draft, outcomes, noted>>
          /\ \A t \in Sessions : logged[t] \subseteq logged'[t]
      BY <1>0, <1>4 DEF LogChange, SessionVars
    <2>2. CommittedMade' BY <2>1 DEF AcceptedMade, CommittedMade, Made, Visible
    <2>3. \A t \in Sessions : NotedMade(t)' BY <2>1 DEF AcceptedMade, NotedMade, Made
    <2> QED BY <2>2, <2>3
  <1>5. ASSUME NEW s \in Sessions, GivesUpData(s)
        PROVE  CommittedMade' /\ \A t \in Sessions : NotedMade(t)'
    <2>1. /\ UNCHANGED <<rows, changes, outcomes>> /\ DOMAIN draft'[s] = {}
          /\ logged'[s] = {} /\ DOMAIN noted'[s] = {}
          /\ \A t \in Sessions \ {s} : /\ draft'[t] = draft[t] /\ logged'[t] = logged[t]
                                       /\ noted'[t] = noted[t]
      BY <1>0, <1>5 DEF GivesUpData, Release, Nothing, SessionVars
    <2>2. ASSUME NEW o \in Objects, NEW t \in Sessions, Visible(t, o).state # "purged"
          PROVE  Visible(t, o)'.state # "purged"
      BY <2>1, <2>2 DEF Visible, IInv, LocksExclusive
    <2>3. CommittedMade'
      BY <2>1, <2>2, AcceptedObject DEF AcceptedMade, CommittedMade, Made
    <2>4. \A t \in Sessions : NotedMade(t)' BY <2>1 DEF AcceptedMade, NotedMade, Made
    <2> QED BY <2>3, <2>4
  <1>6. ASSUME CommittedMade', \A t \in Sessions : NotedMade(t)' PROVE AcceptedMade'
    BY <1>1, <1>6 DEF AcceptedMade, CommittedMade, NotedMade, LoggedMade
  <1> QED BY <1>2, <1>3, <1>4, <1>5, <1>6, DataSteps, WriteKeepsMade, NotesKeepMade,
             CommitKeepsMade
\* The records of the mutation log are true: a mutation on record as accepted made a
\* change of the object it is on record for, whatever ran side by side, was retried
\* while it ran, or was purged.
AcceptedTold ==
    \A w \in Writes : outcomes[w].result = "accepted" =>
        \E c \in changes : c.by = w /\ c.obj = outcomes[w].obj

(* The mutation log and the change log agree in every reachable state. *)
LEMMA AlwaysRecordInv == Spec => []RecordInv
  <1>1. Init => RecordInv
    <2> SUFFICES ASSUME Init PROVE RecordInv OBVIOUS
    <2>1. IInv BY InitIInv
    <2>2. NotedOnce BY DEF Init, NotedOnce, Nothing
    <2>3. AcceptedMade BY DEF Init, AcceptedMade, NotRecorded, Nothing
    <2> QED BY <2>1, <2>2, <2>3 DEF RecordInv
  <1>2. RecordInv /\ [Next]_vars => RecordInv'
    BY NextIInv, NextNotedOnce, NextAcceptedMade DEF RecordInv
  <1> QED BY <1>1, <1>2, PTL DEF Spec

\* A mutation that sync_mutations has as accepted changed the object it names, even
\* when deliveries of it overlap and transactions are undone.
THEOREM AcceptedMutationsChanged == Spec => []AcceptedTold
  <1>1. RecordInv => AcceptedTold BY DEF RecordInv, AcceptedMade, Made, AcceptedTold
  <1> QED BY <1>1, AlwaysRecordInv, PTL

-----------------------------------------------------------------------------
(* A mutation delivered once at a time is applied once.                    *)

\* What the statements of a request do to what its session has noted and logged.
LEMMA RecordsGrow ==
    ASSUME IInv, NEW s \in Sessions, ReadStep(s) \/ WriteStep(s) \/ RecordStep(s) \/ EndStep(s)
    PROVE  \/ /\ job'[s] = NoJob /\ todo'[s] = <<>> /\ pc'[s] = "idle"
              /\ DOMAIN noted'[s] = {} /\ logged'[s] = {} /\ replies'[s] = {}
           \/ /\ job'[s] = job[s] /\ pc[s] # "idle" /\ pc'[s] # "idle"
              /\ \/ DOMAIN noted'[s] = DOMAIN noted[s]
                 \/ job[s].kind = "push" /\ todo[s] # <<>>
                    /\ DOMAIN noted'[s] = DOMAIN noted[s] \cup {W(s)}
              /\ \A c \in logged'[s] :
                    \/ c \in logged[s]
                    \/ job[s].kind = "resolve" /\ c.by = Blank
                    \/ job[s].kind # "resolve" /\ todo[s] # <<>> /\ c.by = W(s)
  <1>0. SessionVars BY HaveSessionVars DEF IInv
  <1> USE <1>0 DEF SessionVars
  <1>1. CASE ReadStep(s)
    <2>1. UNCHANGED <<job, noted, logged>> /\ pc[s] \in {"lookup", "find"}
      BY <1>1 DEF ReadStep, LookupMiss, Replay, FindForPush, FindForWeb, FindConflict
    <2>2. pc'[s] # "idle"
      BY <1>1 DEF ReadStep, LookupMiss, Replay, FindForPush, FindForWeb, FindConflict,
                  NextMutation
    <2> QED BY <2>1, <2>2
  <1>2. CASE WriteStep(s)
    <2>1. pc[s] = "write" /\ UNCHANGED <<job, noted, logged>> BY <1>2, WriteSteps
    <2>2. pc'[s] # "idle" BY <1>2, WriteSteps DEF SqlError, RowGone, Wrote, ToLog
    <2> QED BY <2>1, <2>2
  <1>3. CASE LogChange(s)
    <2>1. pc[s] = "log" /\ UNCHANGED <<job, noted>> /\ pc'[s] # "idle" BY <1>3 DEF LogChange
    <2>2. todo[s] # <<>> BY <2>1 DEF IInv, Requests
    <2>3. \A c \in logged'[s] : \/ c \in logged[s]
                                \/ c.by = IF job[s].kind = "resolve" THEN Blank ELSE W(s)
      BY <1>3 DEF LogChange
    <2> QED BY <2>1, <2>2, <2>3
  <1>4. ASSUME RecordAccepted(s) \/ RecordRejected(s) \/ RecordConflict(s)
        PROVE  /\ UNCHANGED <<job, logged>> /\ pc[s] # "idle" /\ pc'[s] # "idle"
               /\ \/ DOMAIN noted'[s] = DOMAIN noted[s]
                  \/ job[s].kind = "push" /\ todo[s] # <<>>
                     /\ DOMAIN noted'[s] = DOMAIN noted[s] \cup {W(s)}
    <2>1. pc[s] \in {"record", "reject", "refuse"} /\ UNCHANGED <<job, logged>>
      BY <1>4 DEF RecordAccepted, RecordRejected, RecordConflict
    <2>2. job[s].kind = "push" /\ todo[s] # <<>> BY <2>1 DEF IInv, Requests
    <2>3. UNCHANGED noted \/ \E result, obj : RecordMutation(s, result, obj)
      BY <1>4 DEF RecordAccepted, RecordRejected, RecordConflict
    <2>4. DOMAIN noted'[s] \in {DOMAIN noted[s], DOMAIN noted[s] \cup {W(s)}}
      <3>1. ASSUME NEW result, NEW obj, RecordMutation(s, result, obj)
            PROVE  DOMAIN noted'[s] \in {DOMAIN noted[s], DOMAIN noted[s] \cup {W(s)}}
        <4> DEFINE put == Put(noted[s], W(s), [result |-> result, obj |-> obj])
        <4>1. DOMAIN put = DOMAIN noted[s] \cup {W(s)} BY DEF Put
        <4>2. noted'[s] = noted[s] \/ noted'[s] = put BY <3>1 DEF RecordMutation
        <4> QED BY <4>1, <4>2
      <3> QED BY <2>3, <3>1
    <2>5. pc'[s] # "idle"
      BY <1>4 DEF RecordAccepted, RecordRejected, RecordConflict, NextMutation, AfterConflict,
                  SqlError
    <2> QED BY <2>1, <2>2, <2>4, <2>5
  <1>5. CASE EndStep(s)
    BY <1>5 DEF EndStep, Commit, Rollback, Abort, Release, Nothing
  <1>6. CASE RecordAccepted(s) \/ RecordRejected(s) \/ RecordConflict(s) BY <1>4, <1>6
  <1> QED BY <1>1, <1>2, <1>3, <1>5, <1>6 DEF RecordStep

\* A transaction keeps to its own mutations.
LEMMA NextMine ==
    ASSUME IInv, \A s \in Sessions : Mine(s), [Next]_vars
    PROVE  \A s \in Sessions : Mine(s)'
  <1>0. SessionVars /\ TypeOK BY HaveSessionVars DEF IInv
  <1>1. ASSUME NEW s \in Sessions, job'[s] = job[s], todo'[s] = todo[s], noted'[s] = noted[s],
               logged'[s] = logged[s], pc'[s] = pc[s]
        PROVE  Mine(s)'
    BY <1>1 DEF Mine, Pushed
  <1>2. CASE \/ UserStep
             \/ \E d \in Readers : Pull(d)
             \/ \E old \in SUBSET Writes : Purge(old)
             \/ UNCHANGED vars
    <2>1. UNCHANGED <<pc, job, todo, noted, logged>>
      BY <1>2, IssuedStays DEF Pull, Purge, vars
    <2> QED BY <1>1, <2>1
  <1>3. ASSUME NEW s \in Sessions, BeginStep(s) PROVE \A t \in Sessions : Mine(t)'
    <2>1. /\ OthersStay(s) /\ UNCHANGED <<noted, logged>> /\ pc[s] = "idle" /\ pc'[s] # "idle"
          /\ job'[s].kind # "none"
          /\ job'[s].kind # "resolve" => \A i \in DOMAIN todo'[s] : todo'[s][i] \in job'[s].writes
          /\ job'[s].kind = "push" => \A i \in DOMAIN todo'[s] : Via[todo'[s][i]] = "push"
          /\ job'[s].kind \in {"create", "update", "delete"} =>
                \E w \in Writes : todo'[s] = <<w>> /\ Via[w] = "web"
      BY <1>3, BegunServes
    <2>2. job'[s].kind \in {"create", "update", "delete"} =>
             \A i \in DOMAIN todo'[s] : Via[todo'[s][i]] = "web"
      BY <2>1
    <2>3. Mine(s) /\ job[s].writes = {} BY <2>1 DEF Mine
    <2>4. Mine(s)' BY <2>1, <2>2, <2>3 DEF Mine, Pushed
    <2>5. \A t \in Sessions \ {s} : Mine(t)' BY <1>1, <2>1 DEF OthersStay
    <2> QED BY <2>4, <2>5
  <1>4. ASSUME NEW s \in Sessions,
               ReadStep(s) \/ WriteStep(s) \/ RecordStep(s) \/ EndStep(s)
        PROVE  \A t \in Sessions : Mine(t)'
    <2>1. OthersStay(s) /\ RequestStays(s) BY <1>4, StepOfOne
    <2>2. \A t \in Sessions \ {s} : Mine(t)' BY <1>1, <2>1 DEF OthersStay
    <2>3. ASSUME job'[s] = NoJob, todo'[s] = <<>>, pc'[s] = "idle",
                 DOMAIN noted'[s] = {}, logged'[s] = {}
          PROVE  Mine(s)'
      <3>1. NoJob.writes = {} /\ NoJob.kind = "none" BY DEF NoJob
      <3> QED BY <2>3, <3>1 DEF Mine
    <2>4. ASSUME job'[s] = job[s], pc[s] # "idle", pc'[s] # "idle",
                 \/ DOMAIN noted'[s] = DOMAIN noted[s]
                 \/ job[s].kind = "push" /\ todo[s] # <<>>
                    /\ DOMAIN noted'[s] = DOMAIN noted[s] \cup {W(s)},
                 \A c \in logged'[s] :
                     \/ c \in logged[s]
                     \/ job[s].kind = "resolve" /\ c.by = Blank
                     \/ job[s].kind # "resolve" /\ todo[s] # <<>> /\ c.by = W(s)
          PROVE  Mine(s)'
      <3>1. Mine(s) OBVIOUS
      <3>2. job[s].kind # "resolve" /\ todo[s] # <<>> => W(s) \in job[s].writes
        BY <1>0, <3>1, HeadAndRest DEF Mine
      <3>3. DOMAIN noted'[s] \subseteq job[s].writes
        BY <2>4, <3>1, <3>2 DEF Mine
      <3>4. \A c \in logged'[s] : Pushed(c) => c.by \in job[s].writes
        BY <2>4, <3>1, <3>2 DEF Mine, Pushed
      <3>5. \A i \in DOMAIN todo'[s] : \E j \in DOMAIN todo[s] : todo'[s][i] = todo[s][j]
        <4>1. CASE todo'[s] = todo[s] BY <4>1
        <4>2. CASE todo[s] # <<>> /\ todo'[s] = Tail(todo[s]) BY <1>0, <4>2, HeadAndRest
        <4> QED BY <2>1, <2>4, <4>1, <4>2 DEF RequestStays
      <3>6. /\ job[s].kind # "none"
            /\ job[s].kind # "resolve" => \A i \in DOMAIN todo'[s] : todo'[s][i] \in job[s].writes
            /\ job[s].kind = "push" => \A i \in DOMAIN todo'[s] : Via[todo'[s][i]] = "push"
            /\ job[s].kind \in {"create", "update", "delete"} =>
                  \A i \in DOMAIN todo'[s] : Via[todo'[s][i]] = "web"
        BY <2>4, <3>1, <3>5 DEF Mine
      <3>7. \A c : Pushed(c)' <=> Pushed(c) BY DEF Pushed
      <3> QED BY <2>4, <3>3, <3>4, <3>6, <3>7 DEF Mine
    <2>5. Mine(s)' BY <1>4, <2>3, <2>4, RecordsGrow
    <2> QED BY <2>2, <2>5
  <1> QED BY <1>2, <1>3, <1>4 DEF Next

\* Two transactions have no mutation in common.
LEMMA NextApart ==
    ASSUME IInv, Overlap = FALSE, [Next]_vars,
           \A s, t \in Sessions : s # t => job[s].writes \cap job[t].writes = {}
    PROVE  \A s, t \in Sessions : s # t => job'[s].writes \cap job'[t].writes = {}
  <1>1. CASE \/ UserStep
             \/ \E d \in Readers : Pull(d)
             \/ \E old \in SUBSET Writes : Purge(old)
             \/ UNCHANGED vars
    BY <1>1, IssuedStays DEF Pull, Purge, vars
  <1>2. ASSUME NEW s \in Sessions, BeginStep(s)
        PROVE  /\ OthersStay(s)
               /\ \A t \in Sessions : job'[s].writes \cap job[t].writes = {}
    BY <1>2, BegunServes DEF InFlight
  <1>3. ASSUME NEW s \in Sessions,
               ReadStep(s) \/ WriteStep(s) \/ RecordStep(s) \/ EndStep(s)
        PROVE  OthersStay(s) /\ (job'[s] = job[s] \/ job'[s].writes = {})
    <2>1. OthersStay(s) /\ RequestStays(s) BY <1>3, StepOfOne
    <2>2. NoJob.writes = {} BY DEF NoJob
    <2>3. job'[s] = job[s] \/ job'[s] = NoJob BY <2>1 DEF RequestStays
    <2> QED BY <2>1, <2>2, <2>3
  <1>4. ASSUME NEW s \in Sessions, OthersStay(s),
               \/ job'[s] = job[s]
               \/ \A t \in Sessions \ {s} : job'[s].writes \cap job[t].writes = {}
        PROVE  \A t, u \in Sessions : t # u => job'[t].writes \cap job'[u].writes = {}
    BY <1>4 DEF OthersStay
  <1> QED BY <1>1, <1>2, <1>3, <1>4 DEF Next

\* A session of a push is past the lookup only if it was, for the same mutation, or
\* if the lookup found nothing.
LEMMA PastLookup ==
    ASSUME IInv, [Next]_vars, NEW t \in Sessions, job'[t].kind = "push", pc'[t] \in AfterLookup
    PROVE  /\ job'[t] = job[t] /\ W(t)' = W(t) /\ noted'[t] = noted[t]
           /\ pc[t] \in AfterLookup \/ LookupMiss(t)
  <1>0. SessionVars BY HaveSessionVars DEF IInv
  <1> USE DEF AfterLookup
  <1>1. CASE \/ UserStep
             \/ \E d \in Readers : Pull(d)
             \/ \E old \in SUBSET Writes : Purge(old)
             \/ UNCHANGED vars
    <2>1. UNCHANGED <<pc, job, todo, noted>>
      BY <1>1, IssuedStays DEF Pull, Purge, vars
    <2> QED BY <2>1 DEF W
  <1>2. ASSUME NEW s \in Sessions, BeginStep(s)
        PROVE  /\ job'[t] = job[t] /\ W(t)' = W(t) /\ noted'[t] = noted[t]
               /\ pc[t] \in AfterLookup
    <2>1. t # s BY <1>2, BegunServes
    <2> QED BY <1>2, <2>1, BegunServes DEF OthersStay, W
  <1>3. ASSUME NEW s \in Sessions, t # s,
               ReadStep(s) \/ WriteStep(s) \/ RecordStep(s) \/ EndStep(s)
        PROVE  /\ job'[t] = job[t] /\ W(t)' = W(t) /\ noted'[t] = noted[t]
               /\ pc[t] \in AfterLookup
    BY <1>3, StepOfOne DEF OthersStay, W
  <1>4. ASSUME ReadStep(t) \/ WriteStep(t) \/ RecordStep(t) \/ EndStep(t)
        PROVE  /\ job'[t] = job[t] /\ W(t)' = W(t) /\ noted'[t] = noted[t]
               /\ pc[t] \in AfterLookup \/ LookupMiss(t)
    <2>1. CASE ReadStep(t)
      <3>1. ~Replay(t) BY <1>0 DEF Replay, NextMutation, SessionVars
      <3>2. UNCHANGED <<job, todo, noted>> /\ (pc[t] = "find" \/ LookupMiss(t))
        BY <2>1, <3>1 DEF ReadStep, LookupMiss, FindForPush, FindForWeb, FindConflict
      <3> QED BY <3>2 DEF W
    <2>2. CASE WriteStep(t)
      <3>1. UNCHANGED <<job, todo, noted>> /\ pc[t] = "write" BY <2>2, WriteSteps
      <3> QED BY <3>1 DEF W
    <2>3. CASE RecordStep(t)
      <3>1. RecordAccepted(t) \/ RecordRejected(t) => NextMutation(t)
        BY DEF RecordAccepted, RecordRejected
      <3>2. RecordConflict(t) => NextMutation(t) \/ SqlError(t)
        BY DEF RecordConflict, AfterConflict
      <3>3. LogChange(t)
        BY <1>0, <2>3, <3>1, <3>2 DEF RecordStep, NextMutation, SqlError, SessionVars
      <3> QED BY <3>3 DEF LogChange, W
    <2>4. ~EndStep(t)
      BY <1>0 DEF EndStep, Commit, Rollback, Abort, Release, SessionVars
    <2> QED BY <1>4, <2>1, <2>2, <2>3, <2>4
  <1> QED BY <1>1, <1>2, <1>3, <1>4 DEF Next

\* What is about to be recorded stays unprocessed: nobody else has the mutation.
LEMMA NextUnprocessed ==
    ASSUME IInv, NotedOnce, OneDelivery, [Next]_vars, NEW t \in Sessions
    PROVE  Unprocessed(t)'
  <1> SUFFICES ASSUME job'[t].kind = "push", pc'[t] \in AfterLookup
               PROVE  ~Processed(t)'
    BY DEF Unprocessed, AfterLookup
  <1>1. /\ job'[t] = job[t] /\ W(t)' = W(t) /\ noted'[t] = noted[t]
        /\ pc[t] \in AfterLookup \/ LookupMiss(t)
    BY PastLookup
  <1>2. ~Processed(t)
    BY <1>1 DEF OneDelivery, Unprocessed, LookupMiss
  <1>3. W(t) \notin DOMAIN noted[t] /\ outcomes[W(t)].result = "none"
    BY <1>2 DEF Processed, OutcomeOf, NotedOnce
  <1>4. pc[t] \in AfterLookup \cup {"lookup"} /\ pc'[t] # "idle"
    BY <1>1 DEF LookupMiss, AfterLookup
  <1>5. todo[t] # <<>> /\ W(t) \in Writes /\ W(t) \in job[t].writes
    <2>1. todo[t] # <<>> /\ todo[t] \in Seq(Writes)
      BY <1>1, <1>4 DEF IInv, Requests, AfterLookup
    <2>2. \A i \in DOMAIN todo[t] : todo[t][i] \in job[t].writes
      BY <1>1 DEF OneDelivery, Mine
    <2>3. 1 \in DOMAIN todo[t] /\ W(t) = todo[t][1] BY <2>1, HeadAndRest DEF IInv
    <2> QED BY <2>1, <2>2, <2>3
  <1>6. outcomes'[W(t)].result = "none"
    <2>1. CASE SameRecords BY <1>3, <2>1 DEF SameRecords
    <2>2. CASE Forgets
      <3>1. outcomes'[W(t)] = outcomes[W(t)] \/ outcomes'[W(t)] = NotRecorded
        BY <1>5, <2>2 DEF Forgets
      <3> QED BY <1>3, <3>1 DEF NotRecorded
    <2>3. ASSUME NEW s \in Sessions, UNCHANGED outcomes PROVE outcomes'[W(t)].result = "none"
      BY <1>3, <2>3
    <2>4. ASSUME NEW s \in Sessions, Commit(s) PROVE outcomes'[W(t)].result = "none"
      <3>1. outcomes' = [w \in Writes |-> OutcomeOf(s, w)] BY <2>4 DEF Commit
      <3>2. s # t
        <4>1. pc'[s] = "idle" BY <2>4, HaveSessionVars DEF Commit, Release, SessionVars, IInv
        <4> QED BY <1>4, <4>1
      <3>3. W(t) \notin DOMAIN noted[s] BY <1>5, <3>2 DEF OneDelivery, Mine
      <3> QED BY <1>3, <1>5, <3>1, <3>3 DEF OutcomeOf
    <2> QED BY <2>1, <2>2, <2>3, <2>4, DataSteps
            DEF WritesData, SameRecords, LogChange, Notes, GivesUpData
  <1> QED BY <1>1, <1>3, <1>6 DEF Processed, OutcomeOf

\* OneDelivery is kept by every step of a server to which no delivery overlaps another.
LEMMA NextOneDelivery ==
    ASSUME IInv, NotedOnce, OneDelivery, Overlap = FALSE, [Next]_vars
    PROVE  OneDelivery'
  <1>1. \A s \in Sessions : Mine(s)' BY NextMine DEF OneDelivery
  <1>2. \A s, t \in Sessions : s # t => job'[s].writes \cap job'[t].writes = {}
    BY NextApart DEF OneDelivery
  <1> QED BY <1>1, <1>2, NextUnprocessed DEF OneDelivery

\* Every step leaves the purges alone or adds one.
LEMMA PurgesCount ==
    ASSUME IInv, [Next]_vars, purges' = 0
    PROVE  purges = 0 /\ ~Forgets
  <1>1. purges \in Nat BY DEF IInv, TypeOK
  <1>2. ~\E old \in SUBSET Writes : Purge(old) BY <1>1 DEF Purge
  <1>3. purges' = purges
    BY <1>2, StepOfOne, IssuedStays, BegunServes DEF Next, Pull, vars
  <1> QED BY <1>3 DEF Forgets

\* A mutation about to be recorded is recorded, given up, or still about to be.
LEMMA RecordNext ==
    ASSUME IInv, [Next]_vars, NEW t \in Sessions, pc[t] = "record"
    PROVE  \/ pc'[t] = "record" /\ W(t)' = W(t) /\ noted'[t] = noted[t]
           \/ RecordAccepted(t)
           \/ GivesUpData(t)
  <1>0. SessionVars BY HaveSessionVars DEF IInv
  <1>1. CASE \/ UserStep
             \/ \E d \in Readers : Pull(d)
             \/ \E old \in SUBSET Writes : Purge(old)
             \/ UNCHANGED vars
    <2>1. UNCHANGED <<pc, todo, noted>> BY <1>1, IssuedStays DEF Pull, Purge, vars
    <2> QED BY <2>1 DEF W
  <1>2. ASSUME NEW s \in Sessions, BeginStep(s)
        PROVE  pc'[t] = "record" /\ W(t)' = W(t) /\ noted'[t] = noted[t]
    <2>1. t # s BY <1>2, BegunServes
    <2> QED BY <1>2, <2>1, BegunServes DEF OthersStay, W
  <1>3. ASSUME NEW s \in Sessions, t # s,
               ReadStep(s) \/ WriteStep(s) \/ RecordStep(s) \/ EndStep(s)
        PROVE  pc'[t] = "record" /\ W(t)' = W(t) /\ noted'[t] = noted[t]
    BY <1>3, StepOfOne DEF OthersStay, W
  <1>4. ASSUME ReadStep(t) \/ WriteStep(t) \/ RecordStep(t) \/ EndStep(t)
        PROVE  RecordAccepted(t) \/ GivesUpData(t)
    <2>1. ~ReadStep(t)
      BY DEF ReadStep, LookupMiss, Replay, FindForPush, FindForWeb, FindConflict
    <2>2. ~WriteStep(t) BY WriteSteps
    <2>3. RecordStep(t) => RecordAccepted(t)
      BY DEF RecordStep, LogChange, RecordRejected, RecordConflict
    <2>4. EndStep(t) => GivesUpData(t)
      BY DEF EndStep, Commit, Rollback, Abort, GivesUpData
    <2> QED BY <1>4, <2>1, <2>2, <2>3, <2>4
  <1> QED BY <1>1, <1>2, <1>3, <1>4 DEF Next

\* A pushed mutation whose change is in the tables or in the session's own log is
\* processed for that session, unless it is the one about to be recorded.
LEMMA EffectProcessed ==
    ASSUME IInv, NotedOnce, EffectsRecorded, NEW s \in Sessions,
           NEW c \in changes \cup logged[s], Pushed(c)
    PROVE  \/ OutcomeOf(s, c.by) = AcceptedFor(c.obj)
           \/ c \in logged[s] /\ pc[s] = "record" /\ c.by = W(s)
  <1>1. CASE c \in logged[s] BY <1>1 DEF EffectsRecorded, LoggedEffects
  <1>2. CASE c \in changes
    <2>1. outcomes[c.by] = AcceptedFor(c.obj)
      BY <1>2 DEF EffectsRecorded, CommittedEffects
    <2>2. c.by \notin DOMAIN noted[s] BY <2>1 DEF NotedOnce, AcceptedFor
    <2> QED BY <2>1, <2>2 DEF OutcomeOf
  <1> QED BY <1>1, <1>2

\* What a session noted does not change what it had noted before.
LEMMA NotesKeep ==
    ASSUME IInv, NotedOnce, NEW s \in Sessions, Notes(s), NEW w,
           OutcomeOf(s, w).result # "none"
    PROVE  OutcomeOf(s, w)' = OutcomeOf(s, w)
  <1>1. PICK result \in {"accepted", "conflict", "rejected"}, obj \in Objects \cup {NoObject} :
           RecordMutation(s, result, obj)
    BY DEF Notes
  <1>2. UNCHANGED outcomes /\ result # "none" BY DEF Notes
  <1>3. CASE noted'[s] = noted[s] BY <1>2, <1>3 DEF OutcomeOf
  <1>4. CASE noted'[s] # noted[s]
    <2>1. /\ OutcomeOf(s, W(s)).result = "none"
          /\ DOMAIN noted'[s] = DOMAIN noted[s] \cup {W(s)}
          /\ \A v \in DOMAIN noted[s] : noted'[s][v] = noted[s][v]
      BY <1>1, <1>2, <1>4, NotesOne
    <2> QED BY <1>2, <2>1 DEF OutcomeOf
  <1> QED BY <1>3, <1>4

\* The changes of sync_changes that a mutation made are on record.
LEMMA NextCommittedEffects ==
    ASSUME RecordInv, OneDelivery, EffectsRecorded, [Next]_vars, ~Forgets
    PROVE  CommittedEffects'
  <1> USE DEF RecordInv
  <1>1. CASE UNCHANGED <<changes, outcomes>>
    BY <1>1 DEF EffectsRecorded, CommittedEffects, Pushed
  <1>2. ASSUME NEW s \in Sessions, Commit(s) PROVE CommittedEffects'
    <2>1. /\ changes' = {c \in changes \cup logged[s] : Visible(s, c.obj).state # "purged"}
          /\ outcomes' = [w \in Writes |-> OutcomeOf(s, w)] /\ pc[s] = "commit"
      BY <1>2 DEF Commit
    <2>2. \A c \in changes \cup logged[s] : c.by \in Writes \cup {Blank}
      BY DEF IInv, TypeOK, Change
    <2>3. \A c \in changes' : Pushed(c) => outcomes'[c.by] = AcceptedFor(c.obj)
      BY <2>1, <2>2, EffectProcessed DEF Pushed
    <2> QED BY <2>3 DEF CommittedEffects, Pushed
  <1> QED BY <1>1, <1>2, DataSteps
          DEF SameData, SameRecords, WritesData, LogChange, Notes, GivesUpData

\* So are those of a running transaction, all but the one it is about to record.
LEMMA NextLoggedEffects ==
    ASSUME RecordInv, OneDelivery, EffectsRecorded, [Next]_vars, ~Forgets, NEW t \in Sessions
    PROVE  LoggedEffects(t)'
  <1> USE DEF RecordInv
  <1>0. SessionVars BY HaveSessionVars DEF IInv
  <1>1. \A c : Pushed(c)' <=> Pushed(c) BY DEF Pushed
  \* A change that is recorded stays so.
  <1>2. ASSUME NEW c \in logged[t], Pushed(c), OutcomeOf(t, c.by) = AcceptedFor(c.obj),
               t \notin {s \in Sessions : Commit(s) \/ GivesUpData(s)}
        PROVE  OutcomeOf(t, c.by)' = AcceptedFor(c.obj)
    <2>1. CASE SameRecords BY <1>2, <2>1 DEF SameRecords, OutcomeOf
    <2>2. ASSUME NEW s \in Sessions, Notes(s) PROVE OutcomeOf(t, c.by)' = AcceptedFor(c.obj)
      <3>1. CASE s = t BY <1>2, <2>2, <3>1, NotesKeep DEF AcceptedFor
      <3>2. CASE s # t
        <4>1. noted'[t] = noted[t] /\ UNCHANGED outcomes
          BY <2>2, <3>2, NotesOne DEF Notes
        <4> QED BY <1>2, <4>1 DEF OutcomeOf
      <3> QED BY <3>1, <3>2
    <2>3. ASSUME NEW s \in Sessions, Commit(s) PROVE OutcomeOf(t, c.by)' = AcceptedFor(c.obj)
      <3>1. /\ s # t /\ noted'[t] = noted[t]
            /\ outcomes' = [w \in Writes |-> OutcomeOf(s, w)]
        BY <1>0, <1>2, <2>3 DEF Commit, Release, SessionVars
      <3>2. c.by \in Writes /\ c.by \in job[t].writes
        BY <1>2 DEF OneDelivery, Mine, Pushed, IInv, TypeOK, Change
      <3>3. c.by \notin DOMAIN noted[s] BY <3>1, <3>2 DEF OneDelivery, Mine
      <3> QED BY <1>2, <3>1, <3>2, <3>3 DEF OutcomeOf
    <2>4. ASSUME NEW s \in Sessions, GivesUpData(s)
          PROVE  OutcomeOf(t, c.by)' = AcceptedFor(c.obj)
      <3>1. s # t /\ noted'[t] = noted[t] /\ UNCHANGED outcomes
        BY <1>0, <1>2, <2>4 DEF GivesUpData, Release, SessionVars
      <3> QED BY <1>2, <3>1 DEF OutcomeOf
    <2>5. ASSUME NEW s \in Sessions, WritesData(s) \/ LogChange(s) PROVE SameRecords
      BY <2>5 DEF WritesData, LogChange, SameRecords
    <2> QED BY <2>1, <2>2, <2>3, <2>4, <2>5, DataSteps
  \* The change about to be recorded is recorded or still about to be.
  <1>3. ASSUME NEW c \in logged[t], Pushed(c), pc[t] = "record", c.by = W(t),
               ~GivesUpData(t)
        PROVE  \/ OutcomeOf(t, c.by)' = AcceptedFor(c.obj)
               \/ pc'[t] = "record" /\ c.by = W(t)'
    <2>1. CASE RecordAccepted(t)
      <3>1. job[t].kind = "push" BY <1>3 DEF IInv, Requests
      <3>2. OutcomeOf(t, W(t)).result = "none"
        BY <1>3, <3>1 DEF OneDelivery, Unprocessed, AfterLookup, Processed
      <3>3. c.obj = target[t]
        <4>1. PICK d \in logged[t] : d.by = W(t) /\ d.obj = target[t]
          BY <1>3 DEF AcceptedMade
        <4>2. c = d BY <1>3, <4>1 DEF EffectsRecorded, AppliedOnceBy
        <4> QED BY <4>1, <4>2
      <3>4. RecordMutation(t, "accepted", target[t]) BY <2>1 DEF RecordAccepted
      <3> DEFINE put == Put(noted[t], W(t), AcceptedFor(target[t]))
      <3>5. noted'[t] = put BY <1>0, <3>2, <3>4 DEF RecordMutation, AcceptedFor, SessionVars
      <3>6. W(t) \in DOMAIN put /\ put[W(t)] = AcceptedFor(target[t]) BY DEF Put
      <3> HIDE DEF put
      <3> QED BY <1>3, <3>3, <3>5, <3>6 DEF OutcomeOf
    <2>2. CASE pc'[t] = "record" /\ W(t)' = W(t) BY <1>3, <2>2
    <2> QED BY <1>3, <2>1, <2>2, RecordNext
  <1>4. CASE LogChange(t)
    <2>1. /\ \A c \in logged'[t] : \/ c \in logged[t]
                                   \/ c.by = IF job[t].kind = "resolve" THEN Blank ELSE W(t)
          /\ pc[t] = "log" /\ todo' = todo
          /\ pc' = [pc EXCEPT ![t] = IF job[t].kind = "push" THEN "record" ELSE "commit"]
      BY <1>0, <1>4 DEF LogChange, SessionVars
    <2>2. ASSUME job[t].kind # "resolve", W(t) # Blank, Via[W(t)] = "push"
          PROVE  pc'[t] = "record" /\ W(t)' = W(t)
      <3>1. todo[t] # <<>> /\ Mine(t) BY <2>1 DEF IInv, Requests, OneDelivery
      <3>2. 1 \in DOMAIN todo[t] /\ W(t) = todo[t][1] BY <3>1, HeadAndRest DEF IInv
      <3>3. job[t].kind \notin {"create", "update", "delete", "none"}
        BY <2>1, <2>2, <3>1, <3>2 DEF Mine
      <3>4. job[t].kind = "push" BY <2>2, <3>3 DEF IInv, TypeOK, Job
      <3> QED BY <1>0, <2>1, <3>4 DEF SessionVars, W
    <2>3. \A c \in logged[t] : Pushed(c) => OutcomeOf(t, c.by) = AcceptedFor(c.obj)
      BY <2>1 DEF EffectsRecorded, LoggedEffects
    <2>4. UNCHANGED <<outcomes, noted>> BY <1>4 DEF LogChange
    <2> QED BY <1>1, <2>1, <2>2, <2>3, <2>4 DEF LoggedEffects, Pushed, OutcomeOf
  <1>5. CASE Commit(t) \/ GivesUpData(t)
    BY <1>0, <1>5 DEF Commit, GivesUpData, Release, LoggedEffects, SessionVars
  <1>6. CASE /\ logged'[t] \subseteq logged[t]
             /\ t \notin {s \in Sessions : Commit(s) \/ GivesUpData(s)}
    BY <1>1, <1>2, <1>3, <1>6 DEF LoggedEffects, EffectsRecorded
  <1>7. logged'[t] \subseteq logged[t] \/ LogChange(t)
    <2>1. ASSUME NEW s \in Sessions, LogChange(s) PROVE logged'[t] = logged[t] \/ s = t
      BY <1>0, <2>1 DEF LogChange, SessionVars
    <2>2. ASSUME NEW s \in Sessions, Commit(s) \/ GivesUpData(s)
          PROVE  logged'[t] \subseteq logged[t]
      BY <1>0, <2>2 DEF Commit, GivesUpData, Release, SessionVars
    <2> QED BY <2>1, <2>2, DataSteps DEF SameData, WritesData, Notes
  <1> QED BY <1>4, <1>5, <1>6, <1>7

\* No mutation gets a second change: it is recorded with the first, and the lookup of
\* whoever delivers it again finds the record.
LEMMA NextAppliedOnceBy ==
    ASSUME RecordInv, OneDelivery, EffectsRecorded, [Next]_vars, NEW t \in Sessions
    PROVE  AppliedOnceBy(t)'
  <1> USE DEF RecordInv
  <1>0. SessionVars BY HaveSessionVars DEF IInv
  <1>1. \A c : Pushed(c)' <=> Pushed(c) BY DEF Pushed
  <1>2. CASE changes' \cup logged'[t] \subseteq changes \cup logged[t]
    BY <1>1, <1>2 DEF AppliedOnceBy, EffectsRecorded
  <1>3. CASE LogChange(t)
    <2> DEFINE new == [id |-> NextChangeId(t), obj |-> target[t], device |-> job[t].device,
                       version |-> draft[t][target[t]].version, payload |-> ChangePayload(t),
                       action |-> IF IsDeletion(t) THEN "delete" ELSE "upsert",
                       by |-> IF job[t].kind = "resolve" THEN Blank ELSE W(t)]
    <2>1. /\ changes' = changes /\ logged'[t] = logged[t] \cup {new} /\ pc[t] = "log"
          /\ new.by = IF job[t].kind = "resolve" THEN Blank ELSE W(t)
      BY <1>0, <1>3 DEF LogChange, SessionVars
    <2> HIDE DEF new
    <2>2. ASSUME NEW c \in changes \cup logged[t], Pushed(c), c.by = new.by PROVE FALSE
      <3>1. OutcomeOf(t, c.by) = AcceptedFor(c.obj) BY <2>1, <2>2, EffectProcessed
      <3>2. job[t].kind # "resolve" /\ c.by = W(t) /\ Via[W(t)] = "push"
        BY <2>1, <2>2 DEF Pushed
      <3>3. todo[t] # <<>> /\ Mine(t) BY <2>1 DEF IInv, Requests, OneDelivery
      <3>4. 1 \in DOMAIN todo[t] /\ W(t) = todo[t][1] BY <3>3, HeadAndRest DEF IInv
      <3>5. job[t].kind \notin {"create", "update", "delete", "none"}
        BY <2>1, <3>2, <3>3, <3>4 DEF Mine
      <3>6. job[t].kind = "push" BY <3>2, <3>5 DEF IInv, TypeOK, Job
      <3>7. OutcomeOf(t, W(t)).result = "none"
        BY <2>1, <3>6 DEF OneDelivery, Unprocessed, AfterLookup, Processed
      <3> QED BY <3>1, <3>2, <3>7 DEF AcceptedFor
    <2>3. \A c, d \in changes \cup logged[t] : Pushed(c) /\ c.by = d.by => c = d
      BY DEF EffectsRecorded, AppliedOnceBy
    <2>4. \A c, d \in changes' \cup logged'[t] : Pushed(c) /\ c.by = d.by => c = d
      BY <2>1, <2>2, <2>3 DEF Pushed
    <2> QED BY <1>1, <2>4 DEF AppliedOnceBy
  <1>4. ASSUME NEW s \in Sessions, Commit(s) PROVE AppliedOnceBy(t)'
    <2>1. /\ changes' \subseteq changes \cup logged[s]
          /\ logged'[t] \subseteq logged[t] /\ (s = t => logged'[t] = {})
          /\ pc[s] = "commit"
      BY <1>0, <1>4 DEF Commit, Release, SessionVars
    <2>2. ASSUME s # t, NEW c \in logged[s], NEW d \in logged[t],
                 Pushed(c) \/ Pushed(d), c.by = d.by
          PROVE  FALSE
      <3>1. c.by \in job[s].writes /\ d.by \in job[t].writes
        BY <2>2 DEF OneDelivery, Mine, Pushed
      <3> QED BY <2>2, <3>1 DEF OneDelivery
    <2>3. \A c, d \in changes \cup logged[s] : Pushed(c) /\ c.by = d.by => c = d
      BY DEF EffectsRecorded, AppliedOnceBy
    <2>4. \A c, d \in changes \cup logged[t] : Pushed(c) /\ c.by = d.by => c = d
      BY DEF EffectsRecorded, AppliedOnceBy
    <2>5. \A c, d \in changes' \cup logged'[t] : Pushed(c) /\ c.by = d.by => c = d
      <3>1. CASE s = t BY <2>1, <2>3, <3>1
      <3>2. CASE s # t BY <2>1, <2>2, <2>3, <2>4, <3>2
      <3> QED BY <3>1, <3>2
    <2> QED BY <1>1, <2>5 DEF AppliedOnceBy
  <1>5. \/ changes' \cup logged'[t] \subseteq changes \cup logged[t]
        \/ LogChange(t)
        \/ \E s \in Sessions : Commit(s)
    <2>1. ASSUME NEW s \in Sessions, LogChange(s)
          PROVE  changes' = changes /\ (logged'[t] = logged[t] \/ s = t)
      BY <1>0, <2>1 DEF LogChange, SessionVars
    <2>2. ASSUME NEW s \in Sessions, GivesUpData(s)
          PROVE  changes' = changes /\ logged'[t] \subseteq logged[t]
      BY <1>0, <2>2 DEF GivesUpData, Release, SessionVars
    <2> QED BY <2>1, <2>2, DataSteps DEF SameData, WritesData, Notes, Forgets
  <1> QED BY <1>2, <1>3, <1>4, <1>5

\* What a step adds to the answers a session is building.
LEMMA RepliesGrow ==
    ASSUME IInv, [Next]_vars, NEW t \in Sessions, NEW a \in replies'[t],
           a.result = "accepted"
    PROVE  \/ a \in replies[t]
           \/ /\ Replay(t) /\ OutcomeOf(t, W(t)).result = "accepted"
              /\ a = [write |-> W(t), result |-> "accepted", obj |-> OutcomeOf(t, W(t)).obj,
                      version |-> Visible(t, OutcomeOf(t, W(t)).obj).version]
           \/ /\ RecordAccepted(t)
              /\ a = [write |-> W(t), result |-> "accepted", obj |-> target[t],
                      version |-> draft[t][target[t]].version]
  <1>0. SessionVars BY HaveSessionVars DEF IInv
  <1>1. CASE \/ UserStep
             \/ \E d \in Readers : Pull(d)
             \/ \E old \in SUBSET Writes : Purge(old)
             \/ UNCHANGED vars
    <2>1. UNCHANGED replies BY <1>1, IssuedStays DEF Pull, Purge, vars
    <2> QED BY <2>1
  <1>2. ASSUME NEW s \in Sessions, BeginStep(s) PROVE replies'[t] = replies[t]
    BY <1>2, BegunServes
  <1>3. ASSUME NEW s \in Sessions, t # s,
               ReadStep(s) \/ WriteStep(s) \/ RecordStep(s) \/ EndStep(s)
        PROVE  replies'[t] = replies[t]
    BY <1>3, StepOfOne DEF OthersStay
  <1>4. ASSUME NEW result, NEW obj, NEW version, Reply(t, result, obj, version)
        PROVE  \/ a \in replies[t]
               \/ result = "accepted" /\ a = [write |-> W(t), result |-> "accepted",
                                              obj |-> obj, version |-> version]
    <2> DEFINE new == [write |-> W(t), result |-> result, obj |-> obj, version |-> version]
    <2>1. replies'[t] = replies[t] \cup {new} BY <1>0, <1>4 DEF Reply, SessionVars
    <2>2. CASE a = new
      <3>1. a.result = result BY <2>2
      <3> QED BY <2>2, <3>1
    <2>3. CASE a \in replies[t] BY <2>3
    <2> HIDE DEF new
    <2> QED BY <2>1, <2>2, <2>3
  <1>5. CASE Replay(t)
    <2> DEFINE outcome == OutcomeOf(t, W(t))
    <2>1. \/ outcome.result = "accepted"
             /\ Reply(t, "accepted", outcome.obj, Visible(t, outcome.obj).version)
          \/ UNCHANGED replies
          \/ \E obj, version : Reply(t, "conflict", obj, version)
          \/ Reply(t, "rejected", outcome.obj, 0)
      BY <1>5 DEF Replay
    <2> QED BY <1>4, <1>5, <2>1
  <1>6. CASE ReadStep(t) /\ ~Replay(t)
    BY <1>6 DEF ReadStep, LookupMiss, FindForPush, FindForWeb, FindConflict
  <1>7. CASE WriteStep(t) BY <1>7, WriteSteps
  <1>8. CASE RecordStep(t)
    <2>1. CASE LogChange(t) BY <2>1 DEF LogChange
    <2>2. CASE RecordAccepted(t) BY <1>4, <2>2 DEF RecordAccepted
    <2>3. CASE RecordRejected(t) BY <1>4, <2>3 DEF RecordRejected
    <2>4. CASE RecordConflict(t) BY <1>4, <2>4 DEF RecordConflict
    <2> QED BY <1>8, <2>1, <2>2, <2>3, <2>4 DEF RecordStep
  <1>9. CASE EndStep(t)
    BY <1>0, <1>9 DEF EndStep, Commit, Rollback, Abort, Release, SessionVars
  <1> QED BY <1>1, <1>2, <1>3, <1>5, <1>6, <1>7, <1>8, <1>9 DEF Next

\* A commit deletes no change of an object that a session has on record as accepted.
LEMMA AcceptedSurvive ==
    ASSUME RecordInv, NEW s \in Sessions, Commit(s), NEW t \in Sessions, NEW w \in Writes,
           NEW o, OutcomeOf(t, w) = AcceptedFor(o)
    PROVE  \A c \in changes \cup (IF s = t THEN logged[s] ELSE {}) : c.obj = o => c \in changes'
  <1> USE DEF RecordInv
  <1>1. changes' = {c \in changes \cup logged[s] : Visible(s, c.obj).state # "purged"}
    BY DEF Commit
  <1>2. Visible(s, o).state # "purged"
    <2>1. CASE w \notin DOMAIN noted[t]
      <3>1. outcomes[w].result = "accepted" /\ outcomes[w].obj = o
        BY <2>1 DEF OutcomeOf, AcceptedFor
      <3> QED BY <3>1 DEF AcceptedMade
    <2>2. CASE w \in DOMAIN noted[t]
      <3>1. o \in DOMAIN draft[t] /\ draft[t][o].state # "purged"
        BY <2>2 DEF OutcomeOf, AcceptedFor, AcceptedMade
      <3>2. rows[o].state # "purged" /\ (s # t => o \notin DOMAIN draft[s])
        BY <3>1 DEF IInv, LocksExclusive
      <3> QED BY <3>1, <3>2 DEF Visible
    <2> QED BY <2>1, <2>2
  <1> QED BY <1>1, <1>2

\* An outcome on record for a session as accepted stays on record, unless the session
\* gives up or ends.
LEMMA AcceptedStays ==
    ASSUME RecordInv, OneDelivery, [Next]_vars, ~Forgets, NEW t \in Sessions, NEW w \in Writes,
           NEW o, OutcomeOf(t, w) = AcceptedFor(o),
           t \notin {s \in Sessions : Commit(s) \/ GivesUpData(s)}
    PROVE  OutcomeOf(t, w)' = AcceptedFor(o)
  <1> USE DEF RecordInv
  <1>0. SessionVars BY HaveSessionVars DEF IInv
  <1>1. CASE SameRecords BY <1>1 DEF SameRecords, OutcomeOf
  <1>2. ASSUME NEW s \in Sessions, Notes(s) PROVE OutcomeOf(t, w)' = AcceptedFor(o)
    <2>1. CASE s = t BY <1>2, <2>1, NotesKeep DEF AcceptedFor
    <2>2. CASE s # t
      <3>1. noted'[t] = noted[t] /\ UNCHANGED outcomes BY <1>2, <2>2, NotesOne DEF Notes
      <3> QED BY <3>1 DEF OutcomeOf
    <2> QED BY <2>1, <2>2
  <1>3. ASSUME NEW s \in Sessions, Commit(s) PROVE OutcomeOf(t, w)' = AcceptedFor(o)
    <2>1. /\ s # t /\ noted'[t] = noted[t] /\ outcomes' = [v \in Writes |-> OutcomeOf(s, v)]
      BY <1>0, <1>3 DEF Commit, Release, SessionVars
    <2>2. CASE w \in DOMAIN noted[t] BY <2>1, <2>2 DEF OutcomeOf
    <2>3. CASE w \notin DOMAIN noted[t]
      <3>1. outcomes[w].result # "none" BY <2>3 DEF AcceptedFor, OutcomeOf
      <3>2. w \notin DOMAIN noted[s] BY <3>1 DEF NotedOnce
      <3> QED BY <2>1, <2>3, <3>2 DEF OutcomeOf
    <2> QED BY <2>2, <2>3
  <1>4. ASSUME NEW s \in Sessions, GivesUpData(s) PROVE OutcomeOf(t, w)' = AcceptedFor(o)
    <2>1. s # t /\ noted'[t] = noted[t] /\ UNCHANGED outcomes
      BY <1>0, <1>4 DEF GivesUpData, Release, SessionVars
    <2> QED BY <2>1 DEF OutcomeOf
  <1>5. ASSUME NEW s \in Sessions, WritesData(s) \/ LogChange(s) PROVE SameRecords
    BY <1>5 DEF WritesData, LogChange, SameRecords
  <1> QED BY <1>1, <1>2, <1>3, <1>4, <1>5, DataSteps

\* What a device was told is committed and stays.
LEMMA NextGivenAnswers ==
    ASSUME RecordInv, OneDelivery, AnswersRecorded, [Next]_vars, ~Forgets
    PROVE  GivenAnswers'
  <1> USE DEF RecordInv
  <1>0. SessionVars /\ answers \subseteq Answer /\ \A s \in Sessions : replies[s] \subseteq Answer
    BY HaveSessionVars DEF IInv, TypeOK
  <1>1. ASSUME NEW s \in Sessions, Commit(s) PROVE GivenAnswers'
    <2>1. /\ answers' = answers \cup replies[s]
          /\ outcomes' = [v \in Writes |-> OutcomeOf(s, v)]
      BY <1>1 DEF Commit
    <2>2. ASSUME NEW a \in answers', a.result = "accepted"
          PROVE  /\ OutcomeOf(s, a.write) = AcceptedFor(a.obj)
                 /\ AnswerHolds(changes \cup logged[s], a) /\ a.write \in Writes
      <3>1. CASE a \in replies[s]
        BY <1>0, <2>2, <3>1 DEF AnswersRecorded, BuiltAnswers, Answer
      <3>2. CASE a \in answers
        <4>1. outcomes[a.write] = AcceptedFor(a.obj) /\ AnswerHolds(changes, a)
              /\ a.write \in Writes
          BY <1>0, <2>2, <3>2 DEF AnswersRecorded, GivenAnswers, Answer
        <4>2. a.write \notin DOMAIN noted[s] BY <4>1 DEF NotedOnce, AcceptedFor
        <4> QED BY <4>1, <4>2 DEF OutcomeOf, AnswerHolds
      <3> QED BY <2>1, <2>2, <3>1, <3>2
    <2>3. ASSUME NEW a \in answers', a.result = "accepted"
          PROVE  outcomes'[a.write] = AcceptedFor(a.obj) /\ AnswerHolds(changes', a)
      <3>1. /\ OutcomeOf(s, a.write) = AcceptedFor(a.obj)
            /\ AnswerHolds(changes \cup logged[s], a) /\ a.write \in Writes
        BY <2>2, <2>3
      <3>2. \A c \in changes \cup logged[s] : c.obj = a.obj => c \in changes'
        BY <1>1, <3>1, AcceptedSurvive
      <3> QED BY <2>1, <3>1, <3>2 DEF AnswerHolds
    <2> QED BY <2>3 DEF GivenAnswers, AnswerHolds, AcceptedFor
  <1>2. CASE UNCHANGED <<answers, changes, outcomes>>
    BY <1>2 DEF AnswersRecorded, GivenAnswers, AnswerHolds
  <1>3. UNCHANGED answers \/ \E s \in Sessions : Commit(s)
    <2>1. ASSUME NEW s \in Sessions,
                 ReadStep(s) \/ WriteStep(s) \/ RecordStep(s) \/ Rollback(s) \/ Abort(s)
          PROVE  UNCHANGED answers
      BY <2>1, WriteSteps
         DEF ReadStep, LookupMiss, Replay, FindForPush, FindForWeb, FindConflict,
             RecordStep, LogChange, RecordAccepted, RecordRejected, RecordConflict,
             Rollback, Abort
    <2> QED BY <2>1, IssuedStays, BegunServes DEF Next, EndStep, Pull, Purge, vars
  <1> QED BY <1>1, <1>2, <1>3, DataSteps
          DEF SameData, SameRecords, WritesData, LogChange, Notes, GivesUpData

\* So does what a session is about to tell it: the change an accepted answer names is
\* in sync_changes or in what the session logged, at a version the answer has reached.
LEMMA NextBuiltAnswers ==
    ASSUME RecordInv, OneDelivery, AnswersRecorded, [Next]_vars, ~Forgets, NEW t \in Sessions
    PROVE  BuiltAnswers(t)'
  <1> USE DEF RecordInv
  <1>0. SessionVars /\ replies[t] \subseteq Answer
    BY HaveSessionVars DEF IInv, TypeOK
  <1>1. CASE Commit(t) \/ GivesUpData(t)
    BY <1>0, <1>1 DEF Commit, GivesUpData, Release, BuiltAnswers, SessionVars
  <1>2. ASSUME t \notin {s \in Sessions : Commit(s) \/ GivesUpData(s)},
               NEW w \in Writes, NEW o, NEW c \in changes \cup logged[t], c.obj = o,
               OutcomeOf(t, w) = AcceptedFor(o)
        PROVE  c \in changes' \cup logged'[t]
    <2>1. logged[t] \subseteq logged'[t]
      <3>1. ASSUME NEW s \in Sessions, LogChange(s) PROVE logged[t] \subseteq logged'[t]
        BY <1>0, <3>1 DEF LogChange, SessionVars
      <3>2. ASSUME NEW s \in Sessions, Commit(s) \/ GivesUpData(s)
            PROVE  logged[t] \subseteq logged'[t]
        BY <1>0, <1>2, <3>2 DEF Commit, GivesUpData, Release, SessionVars
      <3> QED BY <3>1, <3>2, DataSteps DEF SameData, WritesData, Notes, Forgets
    <2>2. c \in changes => c \in changes'
      <3>1. ASSUME NEW s \in Sessions, Commit(s) PROVE c \in changes => c \in changes'
        BY <1>2, <3>1, AcceptedSurvive
      <3> QED BY <3>1, DataSteps
              DEF SameData, WritesData, Notes, Forgets, LogChange, GivesUpData
    <2> QED BY <1>2, <2>1, <2>2
  <1>3. ASSUME NEW a, a.write \in Writes, OutcomeOf(t, a.write) = AcceptedFor(a.obj),
               AnswerHolds(changes \cup logged[t], a),
               t \notin {s \in Sessions : Commit(s) \/ GivesUpData(s)}
        PROVE  /\ OutcomeOf(t, a.write)' = AcceptedFor(a.obj)
               /\ AnswerHolds(changes' \cup logged'[t], a)
    <2> DEFINE w == a.write
               o == a.obj
    <2> HIDE DEF w, o
    <2>1. OutcomeOf(t, w)' = AcceptedFor(o) BY <1>3, AcceptedStays DEF w, o
    <2>2. AnswerHolds(changes' \cup logged'[t], a)
      BY <1>2, <1>3 DEF AnswerHolds
    <2> QED BY <2>1, <2>2 DEF w, o
  <1>4. ASSUME NEW a \in replies'[t], a.result = "accepted",
               t \notin {s \in Sessions : Commit(s) \/ GivesUpData(s)}
        PROVE  /\ OutcomeOf(t, a.write)' = AcceptedFor(a.obj)
               /\ AnswerHolds(changes' \cup logged'[t], a)
    <2>1. CASE a \in replies[t]
      <3>1. /\ a.write \in Writes /\ OutcomeOf(t, a.write) = AcceptedFor(a.obj)
            /\ AnswerHolds(changes \cup logged[t], a)
        BY <1>0, <1>4, <2>1 DEF AnswersRecorded, BuiltAnswers, Answer
      <3> QED BY <1>3, <1>4, <3>1
    <2>2. ASSUME Replay(t), OutcomeOf(t, W(t)).result = "accepted",
                 a = [write |-> W(t), result |-> "accepted", obj |-> OutcomeOf(t, W(t)).obj,
                      version |-> Visible(t, OutcomeOf(t, W(t)).obj).version]
          PROVE  /\ a.write \in Writes /\ OutcomeOf(t, a.write) = AcceptedFor(a.obj)
                 /\ AnswerHolds(changes \cup logged[t], a)
      <3> DEFINE o == OutcomeOf(t, W(t)).obj
      <3>1. pc[t] = "lookup" BY <2>2 DEF Replay
      <3>2. W(t) \in Writes
        <4>1. todo[t] # <<>> /\ todo[t] \in Seq(Writes) BY <3>1 DEF IInv, Requests
        <4> QED BY <4>1 DEF W
      <3>3. OutcomeOf(t, W(t)) \in Outcome
        BY <3>2 DEF IInv, TypeOK, PartialMaps, OutcomeOf
      <3>4. OutcomeOf(t, W(t)) = AcceptedFor(o) BY <2>2, <3>3 DEF Outcome, AcceptedFor
      <3>5. Made(changes \cup logged[t], W(t), o) /\ Visible(t, o).state # "purged"
        <4>1. CASE W(t) \in DOMAIN noted[t]
          BY <2>2, <4>1 DEF OutcomeOf, AcceptedMade, Made, Visible
        <4>2. CASE W(t) \notin DOMAIN noted[t]
          BY <2>2, <3>2, <4>2 DEF OutcomeOf, AcceptedMade, Made
        <4> QED BY <4>1, <4>2
      <3> HIDE DEF o
      <3>6. PICK c \in changes \cup logged[t] : c.by = W(t) /\ c.obj = o
        BY <3>5 DEF Made
      <3>7. o \in Objects BY <3>6 DEF IInv, TypeOK, Change
      <3>8. Tells(changes \cup logged[t], o, Visible(t, o).version)
        BY <3>1, <3>5, <3>7 DEF IInv, LogTellsRows, LoggedVersion
      <3>9. c.version <= Visible(t, o).version
        <4>1. c.version \in 1..Visible(t, o).version BY <3>6, <3>8 DEF Tells
        <4>2. Visible(t, o) \in Row BY <3>7, VisibleRow DEF IInv
        <4> QED BY <4>1, <4>2 DEF Row
      <3>10. /\ a.write = W(t) /\ a.obj = o /\ a.version = Visible(t, o).version
        BY <2>2 DEF o
      <3> QED BY <3>2, <3>4, <3>6, <3>9, <3>10 DEF AnswerHolds
    <2>3. ASSUME RecordAccepted(t),
                 a = [write |-> W(t), result |-> "accepted", obj |-> target[t],
                      version |-> draft[t][target[t]].version]
          PROVE  /\ OutcomeOf(t, a.write)' = AcceptedFor(a.obj)
                 /\ AnswerHolds(changes' \cup logged'[t], a)
      <3>1. /\ pc[t] = "record" /\ RecordMutation(t, "accepted", target[t])
            /\ UNCHANGED <<changes, logged>>
        BY <2>3 DEF RecordAccepted
      <3>2. job[t].kind = "push" BY <3>1 DEF IInv, Requests
      <3>3. OutcomeOf(t, W(t)).result = "none"
        BY <3>1, <3>2 DEF OneDelivery, Unprocessed, AfterLookup, Processed
      <3> DEFINE put == Put(noted[t], W(t), AcceptedFor(target[t]))
      <3>4. noted'[t] = put BY <1>0, <3>1, <3>3 DEF RecordMutation, AcceptedFor, SessionVars
      <3>5. W(t) \in DOMAIN put /\ put[W(t)] = AcceptedFor(target[t]) BY DEF Put
      <3> HIDE DEF put
      <3>6. PICK c \in logged[t] : /\ c.by = W(t) /\ c.obj = target[t]
                                   /\ c.version = draft[t][target[t]].version
        BY <3>1 DEF AcceptedMade
      <3>7. c.version \in Int BY DEF IInv, TypeOK, Change
      <3>8. /\ a.write = W(t) /\ a.obj = target[t]
            /\ a.version = draft[t][target[t]].version
        BY <2>3
      <3>9. c.version <= a.version BY <3>6, <3>7, <3>8
      <3>10. AnswerHolds(changes' \cup logged'[t], a)
        BY <3>1, <3>6, <3>8, <3>9 DEF AnswerHolds
      <3>11. OutcomeOf(t, a.write)' = AcceptedFor(a.obj)
        BY <3>4, <3>5, <3>8 DEF OutcomeOf
      <3> QED BY <3>10, <3>11
    <2>4. Replay(t) => t \notin {s \in Sessions : Commit(s) \/ GivesUpData(s)}
      BY <1>4
    <2> QED BY <1>3, <1>4, <2>1, <2>2, <2>3, RepliesGrow
  <1>5. CASE t \notin {s \in Sessions : Commit(s) \/ GivesUpData(s)}
    BY <1>4, <1>5 DEF BuiltAnswers, AnswerHolds, AcceptedFor
  <1> QED BY <1>1, <1>5

\* The invariant of a server to which no delivery overlaps another.
LEMMA AlwaysOnceInv ==
    ASSUME Overlap = FALSE
    PROVE  Spec => []OnceInv
  <1>1. Init => OnceInv
    <2> SUFFICES ASSUME Init PROVE OnceInv OBVIOUS
    <2>1. RecordInv
      <3>1. NotedOnce /\ AcceptedMade BY DEF Init, NotedOnce, AcceptedMade, NotRecorded, Nothing
      <3> QED BY <3>1, InitIInv DEF RecordInv
    <2>2. OneDelivery
      BY DEF Init, OneDelivery, Mine, Unprocessed, AfterLookup, NoJob, Nothing
    <2>3. EffectsRecorded /\ AnswersRecorded
      BY DEF Init, EffectsRecorded, CommittedEffects, LoggedEffects, AppliedOnceBy,
             AnswersRecorded, GivenAnswers, BuiltAnswers
    <2> QED BY <2>1, <2>2, <2>3 DEF OnceInv
  <1>2. OnceInv /\ [Next]_vars => OnceInv'
    <2> SUFFICES ASSUME OnceInv, [Next]_vars PROVE OnceInv' OBVIOUS
    <2> USE DEF OnceInv
    <2>1. RecordInv' BY NextIInv, NextNotedOnce, NextAcceptedMade DEF RecordInv
    <2>2. OneDelivery' BY NextOneDelivery DEF RecordInv
    <2>3. ASSUME purges' = 0 PROVE EffectsRecorded' /\ AnswersRecorded'
      <3>1. ~Forgets /\ EffectsRecorded /\ AnswersRecorded
        BY <2>3, PurgesCount DEF RecordInv
      <3>2. CommittedEffects' BY <3>1, NextCommittedEffects
      <3>3. \A s \in Sessions : LoggedEffects(s)' BY <3>1, NextLoggedEffects
      <3>4. \A s \in Sessions : AppliedOnceBy(s)' BY <3>1, NextAppliedOnceBy
      <3>5. GivenAnswers' BY <3>1, NextGivenAnswers
      <3>6. \A s \in Sessions : BuiltAnswers(s)' BY <3>1, NextBuiltAnswers
      <3> QED BY <3>2, <3>3, <3>4, <3>5, <3>6 DEF EffectsRecorded, AnswersRecorded
    <2> QED BY <2>1, <2>2, <2>3
  <1> QED BY <1>1, <1>2, PTL DEF Spec

\* Until the first purge of sync_mutations no pushed mutation is applied twice, however
\* often it is retried, as long as a device waits for the answer, or the end, of one
\* delivery before it sends the mutation again.
THEOREM MutationsAppliedOnce ==
    ASSUME Overlap = FALSE, Sessions # {}
    PROVE  Spec => [](purges = 0 => AppliedOnce)
  <1>1. OnceInv => (purges = 0 => AppliedOnce)
    BY DEF OnceInv, EffectsRecorded, AppliedOnceBy, AppliedOnce
  <1> QED BY <1>1, AlwaysOnceInv, PTL

\* Under the same conditions the mutation log and the change log agree: what changed
\* an object is on record as accepted for it, and the other way round.
THEOREM OutcomesMatchEffects ==
    ASSUME Overlap = FALSE
    PROVE  Spec => [](purges = 0 => OutcomeMatchesEffect)
  <1>1. OnceInv => (purges = 0 => OutcomeMatchesEffect)
    BY DEF OnceInv, EffectsRecorded, CommittedEffects, AcceptedFor, RecordInv, AcceptedMade,
           Made, OutcomeMatchesEffect
  <1> QED BY <1>1, AlwaysOnceInv, PTL

\* And an accepted answer, a first one or a replay, is about a committed change of the
\* object it names, at a version no newer than the one it tells.
THEOREM AnswersAreCommitted ==
    ASSUME Overlap = FALSE
    PROVE  Spec => [](purges = 0 => AnswersAreDurable)
  <1>1. OnceInv => (purges = 0 => AnswersAreDurable)
    BY DEF OnceInv, AnswersRecorded, GivenAnswers, AnswerHolds, AnswersAreDurable
  <1> QED BY <1>1, AlwaysOnceInv, PTL

-----------------------------------------------------------------------------
(* What a single connection guarantees.                                    *)

\* With one session at a time ids are committed in the order they are handed out: what
\* is logged and not committed lies above everything committed and above every cursor.
OneSession == \A s, t \in Sessions : s = t

SkipInv ==
    /\ IInv
    /\ IsFiniteSet(changes)
    /\ \A d \in Devices : cursor[d] <= seq
    /\ \A s \in Sessions : /\ IsFiniteSet(logged[s])
                           /\ \A c \in changes, e \in logged[s] : c.id < e.id
                           /\ \A d \in Devices, e \in logged[s] : cursor[d] < e.id
    /\ NoSkippedChange

\* The log and the cursors move by a pull, recordChange, COMMIT or the end of a session.
LEMMA LogSteps ==
    ASSUME IInv, [Next]_vars
    PROVE  \/ UNCHANGED <<changes, logged, seq, cursor, got>>
           \/ \E d \in Devices : Pull(d)
           \/ \E s \in Sessions : LogChange(s) \/ Commit(s)
           \/ \E s \in Sessions : Release(s) /\ UNCHANGED <<changes, seq, cursor, got>>
  <1>1. CASE UserStep BY <1>1, IssuedStays DEF UserStep, Edit
  <1>2. ASSUME NEW s \in Sessions, BeginStep(s)
        PROVE  UNCHANGED <<changes, logged, seq, cursor, got>>
    BY <1>2 DEF BeginStep, BeginPush, BeginWeb, BeginResolve, Begin
  <1>3. ASSUME NEW s \in Sessions, ReadStep(s)
        PROVE  UNCHANGED <<changes, logged, seq, cursor, got>>
    BY <1>3 DEF ReadStep, LookupMiss, Replay, FindForPush, FindForWeb, FindConflict
  <1>4. ASSUME NEW s \in Sessions, WriteStep(s)
        PROVE  UNCHANGED <<changes, logged, seq, cursor, got>>
    BY <1>4 DEF WriteStep, InsertRow, UpdateRow, DeleteRow, ResolveRow
  <1>5. ASSUME NEW s \in Sessions, RecordStep(s)
        PROVE  LogChange(s) \/ UNCHANGED <<changes, logged, seq, cursor, got>>
    BY <1>5 DEF RecordStep, RecordAccepted, RecordRejected, RecordConflict
  <1>6. ASSUME NEW s \in Sessions, EndStep(s)
        PROVE  Commit(s) \/ (Release(s) /\ UNCHANGED <<changes, seq, cursor, got>>)
    BY <1>6 DEF EndStep, Rollback, Abort
  <1>7. Readers \subseteq Devices BY WritesAssumption
  <1>8. CASE (\E old \in SUBSET Writes : Purge(old)) \/ UNCHANGED vars
    BY <1>8 DEF Purge, vars
  <1> QED BY <1>1, <1>2, <1>3, <1>4, <1>5, <1>6, <1>7, <1>8 DEF Next

\* The page is cut by id: whatever is below a change of the page is in it.
LEMMA PageIsCutById ==
    ASSUME TypeOK, IsFiniteSet(changes), NEW d \in Devices, NEW last \in Page(d),
           NEW c \in Candidates(d), c.id <= last.id
    PROVE  c \in Page(d)
  <1> DEFINE below(x) == {b \in Candidates(d) : b.id < x.id}
  <1>1. last \in Candidates(d) /\ Cardinality(below(last)) < PageLimit BY DEF Page
  <1>2. Candidates(d) \subseteq changes /\ \A b \in Candidates(d) : b.id \in Nat
    BY DEF Candidates, TypeOK, Change
  <1>3. below(c) \subseteq below(last) /\ below(last) \subseteq changes BY <1>1, <1>2
  <1>4. Cardinality(below(c)) < PageLimit
    <2> HIDE DEF below
    <2>1. IsFiniteSet(below(last)) BY <1>3, FS_Subset
    <2>2. IsFiniteSet(below(c)) /\ Cardinality(below(c)) <= Cardinality(below(last))
      BY <1>3, <2>1, FS_Subset
    <2>3. Cardinality(below(c)) \in Nat /\ Cardinality(below(last)) \in Nat
      BY <2>1, <2>2, FS_CardinalityType
    <2> QED BY <1>1, <2>2, <2>3, BoundsAssumption
  <1> QED BY <1>4 DEF Page

\* A pull moves the cursor to the id of a change that was in the page.
LEMMA PullSkipsNothing ==
    ASSUME SkipInv, IInv', NEW d \in Devices, Pull(d)
    PROVE  SkipInv'
  <1>1. PICK last \in Page(d) : cursor' = [cursor EXCEPT ![d] = last.id]
    BY DEF Pull
  <1>2. /\ UNCHANGED <<changes, logged, seq>>
        /\ got' = [got EXCEPT ![d] = @ \cup {c.id : c \in Page(d)}]
    BY DEF Pull
  <1>3. TypeOK /\ last \in changes /\ last.id <= seq /\ last.id \in Nat
    BY DEF SkipInv, IInv, TypeOK, Change, LogTellsRows, Page, Candidates
  <1>4. /\ cursor'[d] = last.id /\ got'[d] = got[d] \cup {c.id : c \in Page(d)}
        /\ \A e \in Devices \ {d} : cursor'[e] = cursor[e] /\ got'[e] = got[e]
    BY <1>1, <1>2, <1>3 DEF TypeOK
  <1>5. ASSUME NEW e \in Devices, NEW c \in changes, c.device # e, c.id <= cursor'[e]
        PROVE  c.id \in got'[e]
    <2>1. CASE e # d \/ c.id <= cursor[d]
      BY <1>4, <1>5, <2>1 DEF SkipInv, NoSkippedChange
    <2>2. CASE e = d /\ ~(c.id <= cursor[d])
      <3>1. c \in Candidates(d)
        BY <1>3, <1>5, <2>2 DEF Candidates, TypeOK, Change
      <3>2. c \in Page(d)
        BY <1>3, <1>4, <1>5, <2>2, <3>1, PageIsCutById DEF SkipInv
      <3> QED BY <1>4, <2>2, <3>2
    <2> QED BY <2>1, <2>2
  <1> QED BY <1>2, <1>3, <1>4, <1>5 DEF SkipInv, NoSkippedChange

\* recordChange gives the greatest id of all.
LEMMA LogSkipsNothing ==
    ASSUME SkipInv, IInv', OneSession, NEW s \in Sessions, LogChange(s)
    PROVE  SkipInv'
  <1>1. /\ UNCHANGED <<changes, cursor, got>> /\ seq' = seq + 1
    BY DEF LogChange
  <1>2. TypeOK BY DEF SkipInv, IInv
  <1> DEFINE e == [id |-> NextChangeId(s), obj |-> target[s], device |-> job[s].device,
                   version |-> draft[s][target[s]].version, payload |-> ChangePayload(s),
                   action |-> IF IsDeletion(s) THEN "delete" ELSE "upsert",
                   by |-> IF job[s].kind = "resolve" THEN Blank ELSE W(s)]
  <1>9. logged' = [logged EXCEPT ![s] = @ \cup {e}] /\ e.id = seq + 1
    BY DEF LogChange, NextChangeId
  <1> HIDE DEF e
  <1>3. /\ logged'[s] = logged[s] \cup {e} /\ e.id = seq + 1
        /\ \A t \in Sessions \ {s} : logged'[t] = logged[t]
    BY <1>2, <1>9 DEF TypeOK
  <1>4. seq \in Nat /\ \A d \in Devices : cursor[d] \in Nat /\ cursor[d] <= seq
    BY <1>2 DEF TypeOK, SkipInv
  <1>5. \A c \in changes : c.id \in Nat /\ c.id <= seq
    BY <1>2 DEF TypeOK, Change, SkipInv, IInv, LogTellsRows
  <1>6. IsFiniteSet(logged'[s]) BY <1>3, FS_AddElement DEF SkipInv
  <1>7. \A d \in Devices : cursor'[d] <= seq' BY <1>1, <1>4
  <1>8. ASSUME NEW t \in Sessions
        PROVE  /\ IsFiniteSet(logged'[t])
               /\ \A c \in changes', x \in logged'[t] : c.id < x.id
               /\ \A d \in Devices, x \in logged'[t] : cursor'[d] < x.id
    <2>1. t = s BY DEF OneSession
    <2>2. \A x \in logged'[s] : x \in logged[s] \/ x = e BY <1>3
    <2>3. \A c \in changes, x \in logged'[s] : c.id < x.id BY <1>3, <1>5, <2>2, <1>4 DEF SkipInv
    <2>4. \A d \in Devices, x \in logged'[s] : cursor[d] < x.id BY <1>3, <1>4, <2>2 DEF SkipInv
    <2> QED BY <1>1, <1>6, <2>1, <2>3, <2>4
  <1> QED BY <1>1, <1>7, <1>8 DEF SkipInv, NoSkippedChange

\* COMMIT publishes changes that lie above every cursor.
LEMMA CommitSkipsNothing ==
    ASSUME SkipInv, IInv', OneSession, NEW s \in Sessions, Commit(s)
    PROVE  SkipInv'
  <1>1. UNCHANGED <<seq, cursor, got>> BY DEF Commit
  <1>2. changes' \subseteq changes \cup logged[s] BY DEF Commit
  <1>3. \A t \in Sessions : logged'[t] = {}
    BY DEF Commit, Release, OneSession, SkipInv, IInv, TypeOK
  <1>4. IsFiniteSet(changes')
    <2>1. IsFiniteSet(changes \cup logged[s]) BY FS_Union DEF SkipInv
    <2> QED BY <1>2, <2>1, FS_Subset
  <1>5. \A d \in Devices : cursor[d] \in Nat /\ \A c \in logged[s] : c.id \in Nat
    BY DEF SkipInv, IInv, TypeOK, Change
  <1>6. NoSkippedChange'
    BY <1>1, <1>2, <1>5 DEF NoSkippedChange, SkipInv
  <1>7. IsFiniteSet({}) BY FS_EmptySet
  <1> QED BY <1>1, <1>3, <1>4, <1>6, <1>7 DEF SkipInv

\* Every step of the system keeps the cursors below what they have not seen.
LEMMA NextSkipInv == OneSession /\ SkipInv /\ [Next]_vars => SkipInv'
  <1> SUFFICES ASSUME OneSession, SkipInv, [Next]_vars PROVE SkipInv' OBVIOUS
  <1>1. IInv' BY NextIInv DEF SkipInv
  <1>2. CASE UNCHANGED <<changes, logged, seq, cursor, got>>
    BY <1>1, <1>2 DEF SkipInv, NoSkippedChange
  <1>3. ASSUME NEW s \in Sessions, Release(s), UNCHANGED <<changes, seq, cursor, got>>
        PROVE  SkipInv'
    <2>1. \A t \in Sessions : logged'[t] = {}
      BY <1>3 DEF Release, OneSession, SkipInv, IInv, TypeOK
    <2>2. IsFiniteSet({}) BY FS_EmptySet
    <2> QED BY <1>1, <1>3, <2>1, <2>2 DEF SkipInv, NoSkippedChange
  <1> QED BY <1>1, <1>2, <1>3, LogSteps, PullSkipsNothing, LogSkipsNothing,
             CommitSkipsNothing DEF SkipInv

\* With a single connection to the database, a device whose cursor is past a change of
\* another device has had the change, whatever is purged, replayed or rolled back.  Two
\* connections commit their ids out of order, see the run sync_skipped.
THEOREM OneConnectionSkipsNothing ==
    ASSUME \A s, t \in Sessions : s = t
    PROVE  Spec => []NoSkippedChange
  <1>1. Init => SkipInv
    BY InitIInv, FS_EmptySet DEF Init, SkipInv, NoSkippedChange
  <1>2. SkipInv /\ [Next]_vars => SkipInv' BY NextSkipInv DEF OneSession
  <1>3. SkipInv => NoSkippedChange BY DEF SkipInv
  <1> QED BY <1>1, <1>2, <1>3, PTL DEF Spec

-----------------------------------------------------------------------------
(* A conflict is resolved once.                                            *)

ByResolution(H) == {c \in H : c.by = Blank}
Resolved(cs)    == {i \in DOMAIN cs : cs[i].status = "resolved"}

\* A resolution logs one change, as the last thing before COMMIT, and until then the
\* conflict it found open is open.
Resolves(s) ==
    /\ ByResolution(logged[s]) # {} =>
          job[s].kind = "resolve" /\ pc[s] = "commit" /\ target[s] # NoObject
    /\ \A c, e \in ByResolution(logged[s]) : c = e
    /\ job[s].kind = "resolve" /\ pc[s] = "find" => target[s] = NoObject
    /\ job[s].kind = "resolve" /\ target[s] # NoObject =>
          conflicts[job[s].conflict].status = "open"

ResolveInv ==
    /\ SkipInv
    /\ \A s \in Sessions : Resolves(s)
    /\ ResolvedOnce

\* ResolvedOnce, with names for its two sets.
LEMMA ResolvedOnceSets ==
    ResolvedOnce <=> Cardinality(ByResolution(changes)) <= Cardinality(Resolved(conflicts))
  BY DEF ResolvedOnce, ByResolution, Resolved

\* A request that begins has logged nothing, and no target if it is a resolution.
LEMMA BeginResolves ==
    ASSUME ResolveInv, NEW s \in Sessions, BeginStep(s)
    PROVE  Resolves(s)' /\ UNCHANGED <<changes, conflicts>>
  <1>0. TypeOK BY DEF ResolveInv, SkipInv, IInv
  <1>1. ASSUME NEW j, NEW ws, NEW st, NEW o, Begin(s, j, ws, st, o), o = NoObject \/ j.kind # "resolve"
        PROVE  Resolves(s)' /\ UNCHANGED <<changes, conflicts>>
    <2>1. /\ pc[s] = "idle" /\ UNCHANGED <<logged, changes, conflicts>>
          /\ job'[s] = j /\ target'[s] = o
      BY <1>0, <1>1 DEF Begin, TypeOK
    <2>2. ByResolution(logged[s]) = {} BY <2>1 DEF ResolveInv, Resolves
    <2>3. ByResolution(logged[s])' = {} BY <2>1, <2>2
    <2> QED BY <1>1, <2>1, <2>3 DEF Resolves
  <1>2. CASE \E n \in 1..MaxBatch : \E batch \in [1..n -> Writes] : BeginPush(s, batch)
    <2>1. PICK n \in 1..MaxBatch : \E batch \in [1..n -> Writes] : BeginPush(s, batch) BY <1>2
    <2>2. PICK batch \in [1..n -> Writes] : BeginPush(s, batch) BY <2>1
    <2> DEFINE j == [kind |-> "push", device |-> Author[batch[1]],
                     writes |-> {batch[i] : i \in DOMAIN batch},
                     conflict |-> 0, strategy |-> "none"]
    <2>3. Begin(s, j, batch, "lookup", NoObject) BY <2>2 DEF BeginPush
    <2> QED BY <2>3, <1>1
  <1>3. CASE \E w \in Writes : BeginWeb(s, w)
    <2>1. PICK w \in Writes : BeginWeb(s, w) BY <1>3
    <2> DEFINE j == [kind |-> WebKind(w), device |-> Author[w], writes |-> {w},
                     conflict |-> 0, strategy |-> "none"]
               st == IF WebKind(w) = "delete" THEN "write" ELSE "find"
    <2>2. Begin(s, j, <<w>>, st, intent[w].obj) BY <2>1 DEF BeginWeb
    <2>3. j.kind # "resolve" BY DEF WebKind
    <2> HIDE DEF j, st
    <2> QED BY <2>2, <2>3, <1>1
  <1>4. CASE \E d \in Devices, c \in DOMAIN conflicts, st \in Strategies : BeginResolve(s, d, c, st)
    <2>1. PICK d \in Devices, c \in DOMAIN conflicts, st \in Strategies : BeginResolve(s, d, c, st)
      BY <1>4
    <2> DEFINE j == [kind |-> "resolve", device |-> d, writes |-> {}, conflict |-> c,
                     strategy |-> st]
    <2>2. Begin(s, j, <<conflicts[c].write>>, "find", NoObject) BY <2>1 DEF BeginResolve
    <2> HIDE DEF j
    <2> QED BY <2>2, <1>1
  <1> QED BY <1>2, <1>3, <1>4 DEF BeginStep

\* The SELECT of a resolution sets the target only if the conflict is open.
LEMMA ReadResolves ==
    ASSUME ResolveInv, NEW s \in Sessions, ReadStep(s)
    PROVE  Resolves(s)' /\ UNCHANGED <<changes, conflicts>>
  <1>0. TypeOK /\ Requests /\ Resolves(s) BY DEF ResolveInv, SkipInv, IInv
  <1>1. /\ UNCHANGED <<changes, conflicts, job, logged>>
        /\ pc[s] \in {"lookup", "find"}
    BY DEF ReadStep, LookupMiss, Replay, FindForPush, FindForWeb, FindConflict
  <1>2. ByResolution(logged[s]) = {} BY <1>0, <1>1 DEF Resolves
  <1>3. ByResolution(logged[s])' = {} BY <1>1, <1>2
  <1>4. CASE job[s].kind # "resolve" BY <1>1, <1>3, <1>4 DEF Resolves
  <1>5. CASE job[s].kind = "resolve"
    <2>1. FindConflict(s)
      BY <1>0, <1>5 DEF ReadStep, LookupMiss, Replay, FindForPush, FindForWeb, Requests
    <2>2. pc[s] = "find" /\ target[s] = NoObject
      BY <1>0, <1>5, <2>1 DEF FindConflict, Resolves
    <2>3. pc'[s] # "find" BY <1>0, <2>1 DEF FindConflict, TypeOK
    <2>4. target'[s] # NoObject => conflicts[job[s].conflict].status = "open"
      BY <1>0, <2>1, <2>2 DEF FindConflict, IsOpen, TypeOK
    <2> QED BY <1>1, <1>3, <2>3, <2>4 DEF Resolves
  <1> QED BY <1>4, <1>5

\* A statement of a resolution that writes a row has a target, so the conflict is open.
LEMMA WriteResolves ==
    ASSUME ResolveInv, NEW s \in Sessions, WriteStep(s)
    PROVE  Resolves(s)' /\ UNCHANGED <<changes, conflicts>>
  <1>0. IInv /\ TypeOK /\ Requests /\ Resolves(s) BY DEF ResolveInv, SkipInv, IInv
  <1>1. /\ UNCHANGED <<changes, conflicts, job, logged>> /\ pc[s] = "write"
        /\ \/ SqlError(s) \/ RowGone(s)
           \/ \E o \in Objects : \E new : Wrote(s, o, new)
    BY <1>0, WriteSteps
  <1>2. pc'[s] # "find"
    BY <1>0, <1>1 DEF SqlError, RowGone, Wrote, ToLog, TypeOK
  <1>3. ByResolution(logged[s]) = {} BY <1>0, <1>1 DEF Resolves
  <1>4. ByResolution(logged[s])' = {} BY <1>1, <1>3
  <1>5. job[s].kind = "resolve" => conflicts[job[s].conflict].status = "open"
    BY <1>0, <1>1 DEF Resolves, Requests
  <1> QED BY <1>1, <1>2, <1>4, <1>5 DEF Resolves

\* recordChange of a resolution logs the one change it makes.
LEMMA RecordResolves ==
    ASSUME ResolveInv, NEW s \in Sessions, RecordStep(s)
    PROVE  Resolves(s)' /\ UNCHANGED <<changes, conflicts>>
  <1>0. IInv /\ TypeOK /\ Requests /\ Resolves(s) BY DEF ResolveInv, SkipInv, IInv
  <1>1. /\ UNCHANGED <<changes, conflicts, job>>
        /\ pc[s] \in {"log", "record", "reject", "refuse"}
    BY DEF RecordStep, LogChange, RecordAccepted, RecordRejected, RecordConflict
  <1>2. ByResolution(logged[s]) = {} BY <1>0, <1>1 DEF Resolves
  <1>3. CASE LogChange(s)
    <2> DEFINE e == [id |-> NextChangeId(s), obj |-> target[s], device |-> job[s].device,
                     version |-> draft[s][target[s]].version, payload |-> ChangePayload(s),
                     action |-> IF IsDeletion(s) THEN "delete" ELSE "upsert",
                     by |-> IF job[s].kind = "resolve" THEN Blank ELSE W(s)]
    <2>1. /\ logged' = [logged EXCEPT ![s] = @ \cup {e}] /\ pc[s] = "log"
          /\ pc' = [pc EXCEPT ![s] = IF job[s].kind = "push" THEN "record" ELSE "commit"]
          /\ target' = target
      BY <1>3 DEF LogChange
    <2>2. job[s].kind # "resolve" => e.by # Blank
      BY <1>0, <2>1, CurrentMutation, WritesAssumption DEF Requests
    <2> HIDE DEF e
    <2>3. logged'[s] = logged[s] \cup {e} BY <1>0, <2>1 DEF TypeOK
    <2>4. ByResolution(logged'[s]) \subseteq {e} BY <1>2, <2>3 DEF ByResolution
    <2>5. ByResolution(logged'[s]) # {} => job[s].kind = "resolve"
      BY <2>2, <2>4 DEF ByResolution
    <2>6. target[s] # NoObject
      BY <1>0, <2>1 DEF Requests, IInv, TypeOK, PartialMaps, NoObject, Objects
    <2>7. /\ pc'[s] # "find"
          /\ job[s].kind = "resolve" => pc'[s] = "commit"
      BY <1>0, <2>1 DEF TypeOK
    <2>8. ByResolution(logged[s])' = ByResolution(logged'[s]) OBVIOUS
    <2> QED BY <1>0, <1>1, <2>1, <2>4, <2>5, <2>6, <2>7, <2>8 DEF Resolves
  <1>4. CASE ~LogChange(s)
    <2>1. job[s].kind = "push" /\ UNCHANGED logged
      BY <1>0, <1>4 DEF RecordStep, RecordAccepted, RecordRejected, RecordConflict, Requests
    <2>2. ByResolution(logged[s])' = {} BY <1>2, <2>1
    <2> QED BY <1>1, <2>1, <2>2 DEF Resolves
  <1> QED BY <1>3, <1>4

\* COMMIT of a resolution that changed a row closes the conflict it found open.
LEMMA CommitResolves ==
    ASSUME ResolveInv, NEW s \in Sessions, Commit(s)
    PROVE  ResolvedOnce'
  <1>0. TypeOK /\ Requests /\ Resolves(s) /\ SkipInv BY DEF ResolveInv, SkipInv, IInv
  <1> DEFINE B == ByResolution(changes)
             L == ByResolution(logged[s])
             R == Resolved(conflicts)
             B2 == ByResolution(changes')
             R2 == Resolved(conflicts')
             i == job[s].conflict
  <1>1. B2 \subseteq B \cup L BY DEF Commit, ByResolution
  <1>2. /\ Settled(s) \in Seq(Conflict) /\ raised[s] \in Seq(Conflict)
        /\ DOMAIN Settled(s) = DOMAIN conflicts
    BY <1>0, TypeSettled DEF TypeOK, Settled
  <1>3. \A k \in DOMAIN conflicts : k \in DOMAIN conflicts' /\ conflicts'[k] = Settled(s)[k]
    BY <1>2 DEF Commit
  <1>4. conflicts \in Seq(Conflict) /\ conflicts' \in Seq(Conflict)
    BY <1>0, <1>2 DEF Commit, TypeOK
  <1>5. \A k \in R : Settled(s)[k].status = "resolved"
    BY <1>0 DEF Settled, Resolved, TypeOK, Conflict
  <1>6. R \subseteq R2 BY <1>3, <1>5 DEF Resolved
  <1>7. L # {} => i \in R2 /\ i \notin R
    <2> SUFFICES ASSUME L # {} PROVE i \in R2 /\ i \notin R OBVIOUS
    <2>1. /\ job[s].kind = "resolve" /\ target[s] # NoObject
          /\ conflicts[i].status = "open" /\ i \in DOMAIN conflicts
      BY <1>0 DEF Resolves, Requests
    <2>2. Settled(s)[i].status = "resolved"
      <3>1. Settled(s)[i] = [conflicts[i] EXCEPT !.status = "resolved"]
        BY <2>1 DEF Settled
      <3>2. conflicts[i] \in Conflict BY <1>0, <2>1 DEF TypeOK
      <3>3. [conflicts[i] EXCEPT !.status = "resolved"].status = "resolved"
        BY <3>2 DEF Conflict
      <3> QED BY <3>1, <3>3
    <2> QED BY <1>3, <2>1, <2>2 DEF Resolved
  <1>8. IsFiniteSet(B) /\ IsFiniteSet(R) /\ IsFiniteSet(R2)
    <2>1. IsFiniteSet(1..Len(conflicts)) /\ IsFiniteSet(1..Len(conflicts'))
      BY <1>4, FS_Interval
    <2>2. R \subseteq 1..Len(conflicts) /\ R2 \subseteq 1..Len(conflicts')
      BY <1>4 DEF Resolved
    <2>3. B \subseteq changes /\ IsFiniteSet(changes) BY <1>0 DEF ByResolution, SkipInv
    <2> HIDE DEF B, R, R2
    <2> QED BY <2>1, <2>2, <2>3, FS_Subset
  <1>9. Cardinality(B) <= Cardinality(R) BY ResolvedOnceSets DEF ResolveInv
  <1>10. \A c, e \in L : c = e BY <1>0 DEF Resolves
  <1>11. Cardinality(B2) <= Cardinality(R2)
    <2> HIDE DEF B, L, R, B2, R2, i
    <2>1. CASE L = {}
      <3>1. B2 \subseteq B BY <1>1, <2>1
      <3>2. Cardinality(B2) <= Cardinality(B) /\ IsFiniteSet(B2) BY <1>8, <3>1, FS_Subset
      <3>3. Cardinality(R) <= Cardinality(R2) BY <1>6, <1>8, FS_Subset
      <3>4. /\ Cardinality(B) \in Nat /\ Cardinality(B2) \in Nat
            /\ Cardinality(R) \in Nat /\ Cardinality(R2) \in Nat
        BY <1>8, <3>2, FS_CardinalityType
      <3> QED BY <1>9, <3>2, <3>3, <3>4
    <2>2. CASE L # {}
      <3>1. PICK e \in L : L = {e} BY <1>10, <2>2
      <3>2. /\ IsFiniteSet(B \cup {e})
            /\ Cardinality(B \cup {e}) = Cardinality(B)
               \/ Cardinality(B \cup {e}) = Cardinality(B) + 1
        BY <1>8, FS_AddElement
      <3>3. B2 \subseteq B \cup {e} BY <1>1, <3>1
      <3>4. Cardinality(B2) <= Cardinality(B \cup {e}) /\ IsFiniteSet(B2)
        BY <3>2, <3>3, FS_Subset
      <3>5. IsFiniteSet(R \cup {i}) /\ Cardinality(R \cup {i}) = Cardinality(R) + 1
        BY <1>7, <1>8, <2>2, FS_AddElement
      <3>6. R \cup {i} \subseteq R2 BY <1>6, <1>7, <2>2
      <3>7. Cardinality(R \cup {i}) <= Cardinality(R2) BY <1>8, <3>6, FS_Subset
      <3>8. /\ Cardinality(B) \in Nat /\ Cardinality(B2) \in Nat
            /\ Cardinality(R) \in Nat /\ Cardinality(R2) \in Nat
        BY <1>8, <3>4, FS_CardinalityType
      <3> QED BY <1>9, <3>2, <3>4, <3>5, <3>7, <3>8
    <2> QED BY <2>1, <2>2
  <1>12. ResolvedOnce' <=> Cardinality(B2) <= Cardinality(R2)
    BY DEF ResolvedOnce, ByResolution, Resolved
  <1> QED BY <1>11, <1>12

\* A session that ended has logged nothing.
LEMMA ReleaseResolves ==
    ASSUME ResolveInv, NEW s \in Sessions, Release(s) PROVE Resolves(s)'
  <1>1. logged'[s] = {} /\ job'[s].kind = "none"
    BY DEF ResolveInv, SkipInv, IInv, TypeOK, Release, NoJob
  <1> QED BY <1>1 DEF Resolves, ByResolution

\* Every step of the system resolves a conflict at most once.
LEMMA NextResolveInv == OneSession /\ ResolveInv /\ [Next]_vars => ResolveInv'
  <1> SUFFICES ASSUME OneSession, ResolveInv, [Next]_vars PROVE ResolveInv' OBVIOUS
  <1>0. SkipInv' BY NextSkipInv DEF ResolveInv
  <1>1. ASSUME NEW s \in Sessions, Resolves(s)', ResolvedOnce' PROVE ResolveInv'
    BY <1>0, <1>1 DEF ResolveInv, OneSession
  <1>2. ASSUME UNCHANGED <<changes, conflicts>> PROVE ResolvedOnce'
    BY <1>2 DEF ResolveInv, ResolvedOnce
  <1>3. ASSUME NEW s \in Sessions, BeginStep(s) \/ ReadStep(s) \/ WriteStep(s) \/ RecordStep(s)
        PROVE  ResolveInv'
    BY <1>1, <1>2, <1>3, BeginResolves, ReadResolves, WriteResolves, RecordResolves
  <1>4. ASSUME NEW s \in Sessions, EndStep(s) PROVE ResolveInv'
    <2>1. Release(s) /\ (Commit(s) \/ UNCHANGED <<changes, conflicts>>)
      BY <1>4 DEF EndStep, Commit, Rollback, Abort
    <2> QED BY <1>1, <1>2, <2>1, ReleaseResolves, CommitResolves
  <1>5. CASE UserStep \/ (\E d \in Readers : Pull(d)) \/ UNCHANGED vars
    <2>1. UNCHANGED <<changes, conflicts, logged, job, pc, target>>
      BY <1>5, IssuedStays DEF Pull, vars, ResolveInv, SkipInv
    <2> QED BY <1>0, <1>2, <2>1 DEF ResolveInv, Resolves
  <1>6. ASSUME NEW old \in SUBSET Writes, Purge(old) PROVE ResolveInv'
    <2>1. UNCHANGED <<changes, logged, job, pc, target>> BY <1>6 DEF Purge
    <2>2. /\ DOMAIN conflicts' = DOMAIN conflicts
          /\ \A i \in DOMAIN conflicts : conflicts'[i].status = conflicts[i].status
      BY <1>6 DEF Purge, ResolveInv, SkipInv, IInv, TypeOK, Conflict
    <2>3. Resolved(conflicts') = Resolved(conflicts) BY <2>2 DEF Resolved
    <2>4. ResolvedOnce'
      BY <2>1, <2>3 DEF ResolveInv, ResolvedOnce, Resolved
    <2>5. \A s \in Sessions : Resolves(s)'
      BY <2>1, <2>2 DEF ResolveInv, SkipInv, IInv, Requests, Resolves
    <2> QED BY <1>0, <2>4, <2>5 DEF ResolveInv
  <1> QED BY <1>3, <1>4, <1>5, <1>6 DEF Next

\* With a single connection a conflict is resolved once, however often and with whatever
\* strategies the user resolves it, and whatever was purged meanwhile.  Two connections
\* may both read it open.
THEOREM OneConnectionResolvesOnce ==
    ASSUME \A s, t \in Sessions : s = t
    PROVE  Spec => []ResolvedOnce
  <1>1. Init => ResolveInv
    <2> SUFFICES ASSUME Init PROVE ResolveInv OBVIOUS
    <2>1. SkipInv BY InitIInv, FS_EmptySet DEF Init, SkipInv, NoSkippedChange
    <2>2. \A s \in Sessions : Resolves(s) BY DEF Init, Resolves, ByResolution, NoJob
    <2>3. ByResolution(changes) = {} /\ Resolved(conflicts) = {}
      BY DEF Init, ByResolution, Resolved
    <2>4. ResolvedOnce BY <2>3, ResolvedOnceSets, FS_EmptySet
    <2> QED BY <2>1, <2>2, <2>4 DEF ResolveInv
  <1>2. ResolveInv /\ [Next]_vars => ResolveInv' BY NextResolveInv DEF OneSession
  <1>3. ResolveInv => ResolvedOnce BY DEF ResolveInv
  <1> QED BY <1>1, <1>2, <1>3, PTL DEF Spec

-----------------------------------------------------------------------------
(* A write is applied to the version it names.                             *)

Respects(c) == HasBase(c) => c.version \in {1, intent[c.by].base + 1}
Honest(H)   == \A c \in H : Respects(c) /\ (c.by # Blank => intent[c.by].issued)

\* Between the check and the write the row does not move, so what was checked holds of
\* the version that is written.
BaseChecked(s) ==
    /\ job[s].kind \in {"create", "update", "delete"} /\ todo[s] # <<>> => Via[W(s)] = "web"
    /\ job[s].kind = "update" /\ pc[s] = "find" => target[s] = intent[W(s)].obj
    /\ pc[s] = "write" /\ job[s].kind \in {"push", "update"} /\ target[s] # NoObject =>
          ~Stale(intent[W(s)], Visible(s, target[s]))
    /\ pc[s] = "log" /\ job[s].kind # "resolve"
             /\ (Via[W(s)] = "push" \/ intent[W(s)].action = "upsert")
             /\ intent[W(s)].base # 0 =>
          draft[s][target[s]].version \in {1, intent[W(s)].base + 1}

BaseInv ==
    /\ RowInv
    /\ Honest(changes)
    /\ \A s \in Sessions : Honest(logged[s]) /\ BaseChecked(s)

\* The version a statement writes: 1, or the next one of the row it found.
LEMMA WrittenVersion ==
    ASSUME IInv, NEW s \in Sessions, WriteStep(s), pc'[s] = "log"
    PROVE  \/ draft'[s][target'[s]].version = 1
           \/ /\ target[s] # NoObject
              /\ draft'[s][target'[s]].version = Visible(s, target[s]).version + 1
  <1>0. SessionVars /\ pc[s] = "write" BY HaveSessionVars, WriteSteps DEF IInv
  <1>1. ASSUME SqlError(s) \/ RowGone(s) PROVE FALSE
    BY <1>0, <1>1 DEF SqlError, RowGone, SessionVars
  <1>2. ASSUME NEW o, NEW new, ToLog(s, o, new) PROVE draft'[s][target'[s]] = new[o]
    BY <1>0, <1>2 DEF ToLog, SessionVars
  <1>3. ASSUME NEW o, NEW r, ToLog(s, o, Put(draft[s], o, r))
        PROVE  draft'[s][target'[s]] = r
    <2>1. Put(draft[s], o, r)[o] = r BY DEF Put
    <2> QED BY <1>2, <1>3, <2>1
  <1>4. CASE InsertRow(s)
    <2> DEFINE kept == job[s].kind = "resolve"
               row  == [state   |-> IF ~kept /\ intent[W(s)].action = "delete"
                                    THEN "deleted" ELSE "live",
                        uid     |-> IF kept THEN Blank ELSE intent[W(s)].uid,
                        version |-> 1,
                        payload |-> Merge(EmptyPayload, W(s))]
    <2>1. ToLog(s, FreshObject, Put(draft[s], FreshObject, row)) BY <1>1, <1>4 DEF InsertRow
    <2>2. row.version = 1 OBVIOUS
    <2>3. draft'[s][target'[s]] = row BY <1>3, <2>1
    <2> HIDE DEF row
    <2> QED BY <2>2, <2>3
  <1>5. CASE UpdateRow(s)
    <2> DEFINE stale == StaleTombstones(s, target[s])
               new == [p \in DOMAIN draft[s] \cup {target[s]} \cup stale |->
                         IF p = target[s] THEN PatchRow(s, Visible(s, target[s]))
                         ELSE IF p \in stale THEN PurgedRow ELSE draft[s][p]]
    <2>1. ToLog(s, target[s], new) /\ target[s] # NoObject BY <1>1, <1>5 DEF UpdateRow
    <2>2. new[target[s]].version = Visible(s, target[s]).version + 1 BY DEF PatchRow
    <2> HIDE DEF new
    <2> QED BY <1>2, <2>1, <2>2
  <1>6. CASE DeleteRow(s)
    <2> DEFINE r == DeletedRow(Visible(s, target[s]))
    <2>1. ToLog(s, target[s], Put(draft[s], target[s], r)) /\ target[s] # NoObject
      BY <1>1, <1>6 DEF DeleteRow
    <2>2. r.version = Visible(s, target[s]).version + 1 BY DEF DeletedRow
    <2>3. draft'[s][target'[s]] = r BY <1>3, <2>1
    <2> HIDE DEF r
    <2> QED BY <2>1, <2>2, <2>3
  <1>7. CASE ResolveRow(s)
    <2> DEFINE r == ResolvedRow(s, Visible(s, target[s]))
    <2>1. ToLog(s, target[s], Put(draft[s], target[s], r)) BY <1>1, <1>7 DEF ResolveRow
    <2>2. r.version = Visible(s, target[s]).version + 1 BY DEF ResolvedRow
    <2>3. draft'[s][target'[s]] = r BY <1>3, <2>1
    <2>4. target[s] # NoObject
      BY <1>0, <1>7 DEF ResolveRow, IInv, Requests
    <2> HIDE DEF r
    <2> QED BY <2>2, <2>3, <2>4
  <1> QED BY <1>4, <1>5, <1>6, <1>7 DEF WriteStep

\* Changes stay honest when intents that were issued stay.
LEMMA HonestStays ==
    ASSUME NEW H, Honest(H), H \subseteq Change,
           \A w \in Writes : intent[w].issued => intent'[w] = intent[w]
    PROVE  Honest(H)'
  <1>1. \A c \in H : c.by \in Writes \cup {Blank} BY DEF Change
  <1>2. \A c \in H : c.by # Blank => intent'[c.by] = intent[c.by] BY <1>1 DEF Honest
  <1> QED BY <1>2 DEF Honest, Respects, HasBase

\* A request begins before its check.
LEMMA BeginChecks ==
    ASSUME BaseInv, NEW s \in Sessions, BeginStep(s)
    PROVE  BaseChecked(s)'
  <1>0. TypeOK BY DEF BaseInv, RowInv, IInv
  <1>1. ASSUME NEW j, NEW ws, NEW st, NEW o, Begin(s, j, ws, st, o)
        PROVE  /\ UNCHANGED intent /\ job'[s] = j /\ todo'[s] = ws /\ W(s)' = Head(ws)
               /\ pc'[s] = st /\ target'[s] = o
    BY <1>0, <1>1 DEF Begin, TypeOK, W
  <1>2. CASE \E n \in 1..MaxBatch : \E batch \in [1..n -> Writes] : BeginPush(s, batch)
    <2>1. PICK n \in 1..MaxBatch : \E batch \in [1..n -> Writes] : BeginPush(s, batch) BY <1>2
    <2>2. PICK batch \in [1..n -> Writes] : BeginPush(s, batch) BY <2>1
    <2> DEFINE j == [kind |-> "push", device |-> Author[batch[1]],
                     writes |-> {batch[i] : i \in DOMAIN batch},
                     conflict |-> 0, strategy |-> "none"]
    <2>3. Begin(s, j, batch, "lookup", NoObject) BY <2>2 DEF BeginPush
    <2>4. job'[s].kind = "push" /\ pc'[s] = "lookup" BY <2>3, <1>1
    <2> QED BY <2>4 DEF BaseChecked
  <1>3. CASE \E w \in Writes : BeginWeb(s, w)
    <2>1. PICK w \in Writes : BeginWeb(s, w) BY <1>3
    <2> DEFINE j == [kind |-> WebKind(w), device |-> Author[w], writes |-> {w},
                     conflict |-> 0, strategy |-> "none"]
               st == IF WebKind(w) = "delete" THEN "write" ELSE "find"
    <2>2. Begin(s, j, <<w>>, st, intent[w].obj) /\ Via[w] = "web" BY <2>1 DEF BeginWeb
    <2>3. j.kind = WebKind(w) /\ st \in {"write", "find"} /\ (st = "write" => WebKind(w) = "delete")
      OBVIOUS
    <2>4. Head(<<w>>) = w OBVIOUS
    <2> HIDE DEF j, st
    <2>5. /\ W(s)' = w /\ pc'[s] = st /\ target'[s] = intent[w].obj /\ UNCHANGED intent
          /\ job'[s].kind = WebKind(w)
      BY <2>2, <2>3, <2>4, <1>1
    <2> QED BY <2>2, <2>3, <2>5 DEF BaseChecked
  <1>4. CASE \E d \in Devices, c \in DOMAIN conflicts, st \in Strategies : BeginResolve(s, d, c, st)
    <2>1. PICK d \in Devices, c \in DOMAIN conflicts, st \in Strategies : BeginResolve(s, d, c, st)
      BY <1>4
    <2> DEFINE j == [kind |-> "resolve", device |-> d, writes |-> {}, conflict |-> c,
                     strategy |-> st]
    <2>2. Begin(s, j, <<conflicts[c].write>>, "find", NoObject) BY <2>1 DEF BeginResolve
    <2>3. job'[s].kind = "resolve" BY <2>2, <1>1
    <2> QED BY <2>3 DEF BaseChecked
  <1> QED BY <1>2, <1>3, <1>4 DEF BeginStep

\* The SELECTs go on to the write only with a row of the version that is named.
LEMMA ReadChecks ==
    ASSUME BaseInv, NEW s \in Sessions, ReadStep(s)
    PROVE  BaseChecked(s)'
  <1>0. TypeOK /\ Requests /\ BaseChecked(s) BY DEF BaseInv, RowInv, IInv
  <1>1. /\ UNCHANGED <<intent, job, rows, draft>>
        /\ \A o : Visible(s, o)' = Visible(s, o)'
    BY DEF ReadStep, LookupMiss, Replay, FindForPush, FindForWeb, FindConflict
  <1>2. CASE LookupMiss(s) \/ Replay(s)
    <2>1. job'[s].kind = "push" /\ pc'[s] \in {"find", "lookup", "commit"}
      BY <1>0, <1>2 DEF LookupMiss, Replay, NextMutation, Requests, TypeOK
    <2> QED BY <2>1 DEF BaseChecked
  <1>3. CASE FindForPush(s)
    <2> DEFINE i == intent[W(s)]
               o == FindTargetObject(s, i)
               r == RowOf(s, o)
    <2>1. /\ job[s].kind = "push" /\ UNCHANGED todo
          /\ target' = [target EXCEPT ![s] = o]
          /\ pc' = [pc EXCEPT ![s] =
               CASE OutlookReadOnly(W(s), r) -> "reject"
                 [] ~OutlookReadOnly(W(s), r) /\ o # NoObject /\ Stale(i, r) -> "refuse"
                 [] OTHER -> "write"]
      BY <1>3 DEF FindForPush
    <2> HIDE DEF o, i
    <2>2. target'[s] = o BY <1>0, <2>1 DEF TypeOK
    <2>3. pc'[s] \in {"reject", "refuse", "write"} BY <1>0, <2>1 DEF TypeOK
    <2>4. pc'[s] = "write" /\ o # NoObject => ~Stale(i, r) BY <1>0, <2>1 DEF TypeOK
    <2>5. o # NoObject => r = Visible(s, o) BY DEF RowOf
    <2> HIDE DEF r
    <2>6. pc'[s] = "write" /\ target'[s] # NoObject =>
             ~Stale(intent[W(s)], Visible(s, target'[s]))
      BY <2>2, <2>4, <2>5 DEF i
    <2>7. job'[s].kind = "push" /\ W(s)' = W(s) BY <1>1, <2>1 DEF W
    <2>8. Visible(s, target[s])' = Visible(s, target'[s]) BY <1>1 DEF Visible
    <2> QED BY <1>1, <2>3, <2>6, <2>7, <2>8 DEF BaseChecked, Stale
  <1>4. CASE FindForWeb(s)
    <2>1. /\ job[s].kind \in {"create", "update"} /\ UNCHANGED <<todo, target>> /\ pc[s] = "find"
          /\ pc'[s] \in {"commit", "write"}
      BY <1>0, <1>4 DEF FindForWeb, TypeOK
    <2>2. pc'[s] = "write" /\ job[s].kind = "update" =>
             ~Stale(intent[W(s)], RowOf(s, intent[W(s)].obj))
      BY <1>0, <1>4 DEF FindForWeb, TypeOK
    <2>3. job[s].kind = "update" => target[s] = intent[W(s)].obj BY <1>0, <2>1 DEF BaseChecked
    <2>4. target[s] # NoObject => RowOf(s, target[s]) = Visible(s, target[s]) BY DEF RowOf
    <2>5. W(s)' = W(s) BY <2>1 DEF W
    <2>6. Visible(s, target[s])' = Visible(s, target[s]) BY <1>1, <2>1 DEF Visible
    <2> QED BY <1>0, <1>1, <2>1, <2>2, <2>3, <2>4, <2>5, <2>6 DEF BaseChecked, Stale
  <1>5. CASE FindConflict(s) BY <1>5 DEF FindConflict, BaseChecked
  <1> QED BY <1>2, <1>3, <1>4, <1>5 DEF ReadStep

\* What is written of a row that was checked has the version after the one that is named.
LEMMA WriteChecks ==
    ASSUME BaseInv, NEW s \in Sessions, WriteStep(s)
    PROVE  BaseChecked(s)'
  <1>0. IInv /\ TypeOK /\ Requests /\ BaseChecked(s) /\ ServesIntents
    BY DEF BaseInv, RowInv, IInv
  <1>1. /\ UNCHANGED <<intent, job, todo>> /\ pc[s] = "write" /\ W(s)' = W(s)
        /\ todo[s] # <<>>
    BY <1>0, WriteSteps DEF W, Requests
  <1>2. pc'[s] \in {"failed", "reject", "commit", "log"}
    BY <1>0, WriteSteps DEF SqlError, RowGone, Wrote, ToLog, TypeOK
  <1>3. ASSUME pc'[s] = "log", job[s].kind # "resolve", intent[W(s)].base # 0,
               Via[W(s)] = "push" \/ intent[W(s)].action = "upsert"
        PROVE  draft'[s][target'[s]].version \in {1, intent[W(s)].base + 1}
    <2>1. CASE draft'[s][target'[s]].version = 1 BY <2>1
    <2>2. CASE /\ target[s] # NoObject
               /\ draft'[s][target'[s]].version = Visible(s, target[s]).version + 1
      <3>1. job[s].kind \in {"none", "push", "create", "update", "delete", "resolve"}
        BY <1>0 DEF TypeOK, Job
      <3>2. job[s].kind \notin {"none", "delete"}
        BY <1>0, <1>1, <1>3, <3>1 DEF ServesIntents, BaseChecked
      <3>3. CASE job[s].kind \in {"push", "update"}
        BY <1>0, <1>1, <1>3, <2>2, <3>3 DEF BaseChecked, Stale
      <3>4. CASE job[s].kind = "create"
        <4>1. InsertRow(s)
          BY <3>4 DEF WriteStep, UpdateRow, DeleteRow, ResolveRow
        <4>2. target[s] = NoObject BY <3>4, <4>1 DEF InsertRow
        <4> QED BY <2>2, <4>2
      <3> QED BY <1>3, <3>1, <3>2, <3>3, <3>4
    <2> QED BY <1>0, <1>3, <2>1, <2>2, WrittenVersion
  <1>4. BaseChecked(s) => (job[s].kind \in {"create", "update", "delete"} => Via[W(s)] = "web")
    BY <1>1 DEF BaseChecked
  <1> QED BY <1>0, <1>1, <1>2, <1>3, <1>4 DEF BaseChecked

\* What is logged names the version that was written.
LEMMA RecordChecks ==
    ASSUME BaseInv, NEW s \in Sessions, RecordStep(s)
    PROVE  BaseChecked(s)' /\ Honest(logged[s])' /\ UNCHANGED <<intent, changes>>
  <1>0. IInv /\ TypeOK /\ Requests /\ BaseChecked(s) /\ ServesIntents /\ Honest(logged[s])
    BY DEF BaseInv, RowInv, IInv
  <1>1. /\ UNCHANGED <<intent, job, changes>>
        /\ pc[s] \in {"log", "record", "reject", "refuse"} /\ todo[s] # <<>>
    BY <1>0 DEF RecordStep, LogChange, RecordAccepted, RecordRejected, RecordConflict, Requests
  <1>2. CASE LogChange(s)
    <2> DEFINE e == [id |-> NextChangeId(s), obj |-> target[s], device |-> job[s].device,
                     version |-> draft[s][target[s]].version, payload |-> ChangePayload(s),
                     action |-> IF IsDeletion(s) THEN "delete" ELSE "upsert",
                     by |-> IF job[s].kind = "resolve" THEN Blank ELSE W(s)]
    <2>1. /\ logged' = [logged EXCEPT ![s] = @ \cup {e}] /\ pc[s] = "log"
          /\ pc' = [pc EXCEPT ![s] = IF job[s].kind = "push" THEN "record" ELSE "commit"]
          /\ UNCHANGED <<target, todo>>
      BY <1>2 DEF LogChange
    <2>2. /\ e.by # Blank => job[s].kind # "resolve" /\ e.by = W(s)
          /\ e.version = draft[s][target[s]].version
          /\ e.action = "upsert" <=> ~IsDeletion(s)
      OBVIOUS
    <2> HIDE DEF e
    <2>3. e.by # Blank => W(s) \in Writes /\ intent[W(s)].issued /\ intent[W(s)] \in Intent
      <3> SUFFICES ASSUME e.by # Blank
                   PROVE W(s) \in Writes /\ intent[W(s)].issued /\ intent[W(s)] \in Intent
        OBVIOUS
      <3>1. job[s].kind # "resolve" BY <2>2
      <3> QED BY <1>0, <1>1, <3>1, HeadAndRest, CurrentMutation DEF ServesIntents
    <2>4. HasBase(e) => /\ job[s].kind # "resolve" /\ intent[W(s)].base # 0
                        /\ Via[W(s)] = "push" \/ intent[W(s)].action = "upsert"
      <3> SUFFICES ASSUME HasBase(e)
                   PROVE  /\ job[s].kind # "resolve" /\ intent[W(s)].base # 0
                          /\ Via[W(s)] = "push" \/ intent[W(s)].action = "upsert"
        OBVIOUS
      <3>1. /\ e.by = W(s) /\ job[s].kind # "resolve" /\ intent[W(s)].base # 0
            /\ Via[W(s)] = "push" \/ ~IsDeletion(s)
        BY <2>2 DEF HasBase
      <3>2. ~IsDeletion(s) => intent[W(s)].action = "upsert"
        <4>1. job[s].kind \in {"none", "push", "create", "update", "delete", "resolve"}
          BY <1>0 DEF TypeOK, Job
        <4>2. job[s].kind # "none" BY <1>0, <2>1 DEF ServesIntents
        <4>3. intent[W(s)].action \in {"upsert", "delete"} BY <2>2, <2>3, <3>1 DEF Intent, HasBase
        <4> QED BY <1>0, <1>1, <3>1, <4>1, <4>2, <4>3 DEF ServesIntents, IsDeletion
      <3> QED BY <3>1, <3>2
    <2>5. Respects(e) BY <1>0, <2>1, <2>2, <2>4 DEF Respects, BaseChecked, HasBase
    <2>6. logged'[s] = logged[s] \cup {e} BY <1>0, <2>1 DEF TypeOK
    <2>7. Honest(logged'[s]) BY <1>0, <2>2, <2>3, <2>5, <2>6 DEF Honest
    <2>8. Honest(logged[s])' BY <1>1, <2>7 DEF Honest, Respects, HasBase
    <2>9. pc'[s] \in {"record", "commit"} /\ W(s)' = W(s) BY <1>0, <2>1 DEF TypeOK, W
    <2> QED BY <1>0, <1>1, <2>1, <2>8, <2>9 DEF BaseChecked
  <1>3. CASE ~LogChange(s)
    <2>1. /\ job[s].kind = "push" /\ UNCHANGED logged
          /\ pc'[s] \in {"commit", "lookup", "failed"}
      BY <1>0, <1>3 DEF RecordStep, RecordAccepted, RecordRejected, RecordConflict, Requests,
                        NextMutation, AfterConflict, SqlError, TypeOK
    <2>2. Honest(logged[s])' BY <1>0, <1>1, <2>1 DEF Honest, Respects, HasBase
    <2> QED BY <1>1, <2>1, <2>2 DEF BaseChecked
  <1> QED BY <1>2, <1>3

\* Every step of the system keeps the base versions respected.
LEMMA NextBaseInv == OneSession /\ BaseInv /\ [Next]_vars => BaseInv'
  <1> SUFFICES ASSUME OneSession, BaseInv, [Next]_vars PROVE BaseInv' OBVIOUS
  <1>0. RowInv' /\ TypeOK BY NextRowInv DEF BaseInv, RowInv, IInv
  <1>1. /\ changes \subseteq Change
        /\ \A s \in Sessions : logged[s] \subseteq Change /\ BaseChecked(s) /\ Honest(logged[s])
    BY <1>0 DEF TypeOK, BaseInv
  <1>2. ASSUME UNCHANGED intent PROVE Honest(changes)' <=> Honest(changes')
    BY <1>2 DEF Honest, Respects, HasBase
  <1>3. ASSUME UNCHANGED intent, NEW s \in Sessions
        PROVE  Honest(logged[s])' <=> Honest(logged'[s])
    BY <1>3 DEF Honest, Respects, HasBase
  <1>4. CASE UserStep
    <2>1. /\ \A w \in Writes : intent[w].issued => intent'[w] = intent[w]
          /\ UNCHANGED <<tables, pc, job, todo, target, private>>
      BY <1>4, IssuedStays DEF BaseInv, RowInv
    <2>2. Honest(changes)'
      <3>1. Honest(changes) BY DEF BaseInv
      <3>2. ASSUME NEW H, H = changes PROVE Honest(H)'
        BY <1>1, <2>1, <3>1, <3>2, HonestStays
      <3>3. PICK H : H = changes OBVIOUS
      <3>4. Honest(H)' /\ H = changes' BY <2>1, <3>2, <3>3
      <3> QED BY <3>4
    <2>3. ASSUME NEW s \in Sessions PROVE Honest(logged[s])'
      <3>1. PICK H : H = logged[s] OBVIOUS
      <3>2. Honest(H)' /\ H = logged'[s] BY <1>1, <2>1, <3>1, HonestStays
      <3> QED BY <3>2
    <2>4. ASSUME NEW s \in Sessions PROVE BaseChecked(s)'
      <3>1. /\ W(s)' = W(s) /\ \A o : Visible(s, o)' = Visible(s, o)
        BY <2>1 DEF W, Visible
      <3>2. CASE todo[s] = <<>> \/ job[s].kind = "resolve"
        <4>1. pc[s] \in {"idle", "commit", "failed"} \/ job[s].kind = "resolve"
          BY <3>2 DEF BaseInv, RowInv, IInv, Requests
        <4> QED BY <1>1, <2>1, <3>1, <3>2, <4>1 DEF BaseChecked
      <3>3. CASE todo[s] # <<>> /\ job[s].kind # "resolve"
        <4>1. W(s) \in Writes /\ intent[W(s)].issued
          BY <1>0, <3>3, HeadAndRest, CurrentMutation DEF BaseInv, RowInv, IInv, ServesIntents
        <4>2. intent'[W(s)] = intent[W(s)] BY <2>1, <4>1
        <4>3. BaseChecked(s) BY <1>1
        <4> QED BY <2>1, <3>1, <4>2, <4>3 DEF BaseChecked, Stale, Visible
      <3> QED BY <3>2, <3>3
    <2> QED BY <1>0, <2>2, <2>3, <2>4 DEF BaseInv
  <1>5. ASSUME NEW s \in Sessions, UNCHANGED <<intent, changes>>, Honest(logged'[s]), BaseChecked(s)'
        PROVE  BaseInv'
    <2>1. \A t \in Sessions : t = s BY DEF OneSession
    <2> QED BY <1>0, <1>2, <1>3, <1>5, <2>1 DEF BaseInv
  <1>6. ASSUME NEW s \in Sessions, BeginStep(s) \/ ReadStep(s) \/ WriteStep(s) PROVE BaseInv'
    <2>1. UNCHANGED <<intent, changes, logged>>
      BY <1>6 DEF BeginStep, BeginPush, BeginWeb, BeginResolve, Begin, ReadStep, LookupMiss,
                  Replay, FindForPush, FindForWeb, FindConflict, WriteStep, InsertRow,
                  UpdateRow, DeleteRow, ResolveRow
    <2> QED BY <1>1, <1>5, <1>6, <2>1, BeginChecks, ReadChecks, WriteChecks
  <1>7. ASSUME NEW s \in Sessions, RecordStep(s) PROVE BaseInv'
    <2>1. BaseChecked(s)' /\ Honest(logged[s])' /\ UNCHANGED <<intent, changes>>
      BY <1>7, RecordChecks
    <2> QED BY <1>3, <1>5, <2>1
  <1>8. ASSUME NEW s \in Sessions, EndStep(s) PROVE BaseInv'
    <2>1. /\ UNCHANGED intent /\ Release(s)
          /\ changes' \subseteq changes \cup logged[s]
      BY <1>8 DEF EndStep, Commit, Rollback, Abort
    <2>2. logged'[s] = {} /\ job'[s].kind = "none" /\ pc'[s] = "idle" /\ todo'[s] = <<>>
      BY <1>0, <2>1 DEF TypeOK, Release, NoJob
    <2>3. BaseChecked(s)' BY <2>2 DEF BaseChecked
    <2>4. Honest(changes') /\ Honest(logged'[s]) BY <1>1, <2>1, <2>2 DEF Honest, BaseInv
    <2>5. \A t \in Sessions : t = s BY DEF OneSession
    <2> QED BY <1>0, <1>2, <1>3, <2>1, <2>3, <2>4, <2>5 DEF BaseInv
  <1>9. CASE (\E d \in Readers : Pull(d)) \/ (\E old \in SUBSET Writes : Purge(old))
             \/ UNCHANGED vars
    <2>1. UNCHANGED <<intent, changes, logged, draft, rows, pc, job, todo, target>>
      BY <1>9 DEF Pull, Purge, vars
    <2>2. ASSUME NEW s \in Sessions PROVE BaseChecked(s)'
      <3>1. W(s)' = W(s) /\ \A o : Visible(s, o)' = Visible(s, o) BY <2>1 DEF W, Visible
      <3>2. BaseChecked(s) BY <1>1
      <3> QED BY <2>1, <3>1, <3>2 DEF BaseChecked, Visible
    <2> QED BY <1>0, <1>2, <1>3, <2>1, <2>2 DEF BaseInv
  <1> QED BY <1>4, <1>6, <1>7, <1>8, <1>9 DEF Next

\* With a single connection the check of the base version decides about the version that
\* is written: a mutation that names its base is applied to that version, refused, or
\* makes the object anew.  With two, both may check before either writes.
THEOREM OneConnectionRespectsBases ==
    ASSUME \A s, t \in Sessions : s = t
    PROVE  Spec => []BaseRespected
  <1>1. Init => BaseInv
    <2> SUFFICES ASSUME Init PROVE BaseInv OBVIOUS
    <2>1. RowInv BY InitRowInv
    <2>2. Honest(changes) /\ \A s \in Sessions : Honest(logged[s]) BY DEF Init, Honest
    <2>3. \A s \in Sessions : BaseChecked(s) BY DEF Init, BaseChecked, NoJob
    <2> QED BY <2>1, <2>2, <2>3 DEF BaseInv
  <1>2. BaseInv /\ [Next]_vars => BaseInv' BY NextBaseInv DEF OneSession
  <1>3. BaseInv => BaseRespected BY DEF BaseInv, Honest, Respects, BaseRespected
  <1> QED BY <1>1, <1>2, <1>3, PTL DEF Spec
=============================================================================
