-------------------------- MODULE SyncDeviceProofs --------------------------
(***************************************************************************)
(* Theorems about SyncDevice for any number of pulls, edits, changes and   *)
(* faults.  The saved cursor never passes a change that was not dealt      *)
(* with: a pull starts from a place that was reached, the server's page is *)
(* the lowest changes above it, so that everything up to nextCursor is     *)
(* handled or in the page, and a page that failed is neither acknowledged  *)
(* nor saved (CursorsReached).  When one thing runs at a time, a row is at *)
(* least as new as its state says (SerialInv), and, while nothing has      *)
(* failed, what the device does not know of an object is still due to it   *)
(* (MirrorInv): at rest it shows what the server has.                      *)
(***************************************************************************)
EXTENDS SyncDevice, FiniteSetTheorems, TLAPS

USE DEF database, pulling, editing

\* The empty database of a new device is well typed and has reached nothing.
LEMMA InitIInv == Init => IInv
  <1> SUFFICES ASSUME Init PROVE IInv OBVIOUS
  <1>1. (CHOOSE o \in Objects : TRUE) \in Objects BY TypesAssumption
  <1>2. NoForm \in Form BY <1>1 DEF NoForm, Form
  <1>3. TypeOK BY <1>2 DEF Init, TypeOK, PartialMap, Nothing, ServerRow, NoRow
  <1>4. StepsKnow BY DEF Init, StepsKnow
  <1>5. CursorsReached BY DEF Init, CursorsReached, Reached, Theirs
  <1> QED BY <1>3, <1>4, <1>5 DEF IInv

\* Insert-or-replace and deletion keep a table a table.
LEMMA PutType ==
    ASSUME NEW K, NEW V, NEW f, PartialMap(f, K, V), NEW x \in K, NEW v \in V
    PROVE  PartialMap(Put(f, x, v), K, V)
  BY DEF PartialMap, Put

LEMMA RemoveType ==
    ASSUME NEW K, NEW V, NEW f, PartialMap(f, K, V), NEW x
    PROVE  PartialMap(Remove(f, x), K, V)
  BY DEF PartialMap, Remove

\* The row id an insert hands out is a row id.
LEMMA FreshRowIsLocal == LocalIds \ Named # {} => FreshRow \in LocalIds /\ FreshRow # NoRow
  BY DEF FreshRow, LocalIds, NoRow

\* A page is a set of logged changes, and everything of other devices between the
\* cursor and a member of the page is in the page: the server cuts it by id, and
\* only then sorts it.
LEMMA PageIsLowest ==
    ASSUME TypeOK, NEW c \in Nat
    PROVE  /\ Page(c) \subseteq Theirs(c)
           /\ \A last \in Page(c), i \in Theirs(c) : i <= last => i \in Page(c)
  <1>1. Page(c) \subseteq Theirs(c) BY DEF Page
  <1>2. ASSUME NEW last \in Page(c), NEW i \in Theirs(c), i <= last
        PROVE  i \in Page(c)
    <2> DEFINE below(k) == {j \in Theirs(c) : j < k}
    <2>1. last \in Nat /\ i \in Nat /\ Theirs(c) \subseteq 1..Len(log)
      BY <1>1 DEF Theirs, TypeOK
    <2>2. IsFiniteSet(1..Len(log)) BY FS_Interval DEF TypeOK
    <2>3. IsFiniteSet(below(last))
      <3>1. below(last) \subseteq 1..Len(log) BY <2>1
      <3> HIDE DEF below
      <3> QED BY <3>1, <2>2, FS_Subset
    <2>4. below(i) \subseteq below(last) BY <1>2, <2>1
    <2>5. /\ Cardinality(below(i)) <= Cardinality(below(last))
          /\ Cardinality(below(i)) \in Nat /\ Cardinality(below(last)) \in Nat
      <3> HIDE DEF below
      <3>1. IsFiniteSet(below(i)) BY <2>3, <2>4, FS_Subset
      <3> QED BY <2>3, <2>4, <3>1, FS_Subset, FS_CardinalityType
    <2>6. Cardinality(below(last)) < Limit BY DEF Page
    <2>7. Cardinality(below(i)) < Limit
      <3> HIDE DEF below
      <3> QED BY <2>5, <2>6, BoundsAssumption
    <2> QED BY <2>7 DEF Page
  <1> QED BY <1>1, <1>2

-----------------------------------------------------------------------------
(* The log                                                                 *)

\* A commit appends a well-typed change and moves its row one version on.
LEMMA WriteType ==
    ASSUME TypeOK, NEW o \in Objects, NEW a \in {"upsert", "delete"}, NEW m \in BOOLEAN,
           NEW v \in Nat, Write(o, a, m, v)
    PROVE  /\ \E c \in Change : log' = Append(log, c)
           /\ log' \in Seq(Change)
           /\ server' \in [Objects -> ServerRow]
  <1> DEFINE c == [obj |-> o, version |-> server[o].version + 1, action |-> a, mine |-> m,
                   seen |-> v]
             r == [version |-> server[o].version + 1, live |-> a = "upsert"]
  <1>1. server[o].version \in Nat BY DEF TypeOK, ServerRow
  <1>2. c \in Change /\ r \in ServerRow BY <1>1 DEF Change, ServerRow
  <1>3. log' = Append(log, c) /\ server' = [server EXCEPT ![o] = r] BY DEF Write
  <1> HIDE DEF c, r
  <1> QED BY <1>2, <1>3 DEF TypeOK

\* New changes come after every place that was reached, so nothing that was
\* reached is lost by a commit.
LEMMA LogGrows ==
    ASSUME TypeOK, StepsKnow, CursorsReached,
           UNCHANGED log \/ \E c \in Change : log' = Append(log, c),
           UNCHANGED <<cursor, pulling, handled>>
    PROVE  CursorsReached' /\ \A p \in Pulls :
             /\ page'[p] \subseteq DOMAIN log'
             /\ pc'[p] \in {"delete", "forget", "upsert", "mark"} => now'[p] \in DOMAIN log'
             /\ pc'[p] \in {"delete", "forget", "mark"} => found'[p] # NoRow
  <1>1. CASE UNCHANGED log
    BY <1>1 DEF StepsKnow, CursorsReached, Reached, Theirs
  <1>2. CASE \E c \in Change : log' = Append(log, c)
    <2>1. PICK c \in Change : log' = Append(log, c) BY <1>2
    <2>2. /\ Len(log) \in Nat /\ Len(log') = Len(log) + 1
          /\ DOMAIN log = 1..Len(log) /\ DOMAIN log' = 1..(Len(log) + 1)
          /\ \A i \in 1..Len(log) : log'[i] = log[i]
      BY <2>1 DEF TypeOK
    <2>3. ASSUME NEW n, Reached(n) PROVE n \in 0..Len(log') /\ \A i \in Theirs(0)' : i <= n => i \in handled
      BY <2>2, <2>3 DEF Reached, Theirs
    <2>4. Reached(cursor)' BY <2>3 DEF CursorsReached, Reached
    <2>5. ASSUME NEW p \in Pulls
          PROVE  /\ Reached(at[p])'
                 /\ next'[p] \in 0..Len(log')
                 /\ pc'[p] \in {"ack", "save"} => Reached(next[p])'
      BY <2>2, <2>3 DEF CursorsReached, Reached
    <2>6. ASSUME NEW p \in Pulls,
                 pc[p] \in {"read", "delete", "forget", "upsert", "mark"}, ~failed[p],
                 NEW i \in Theirs(0)', i <= next[p]
          PROVE  i \in handled \cup page[p]
      <3>1. next[p] \in 0..Len(log) BY DEF CursorsReached
      <3>2. i \in Theirs(0) BY <2>2, <2>6, <3>1 DEF Theirs
      <3> QED BY <2>6, <3>2 DEF CursorsReached
    <2>7. CursorsReached' BY <2>4, <2>5, <2>6 DEF CursorsReached
    <2> QED BY <2>2, <2>7 DEF StepsKnow
  <1> QED BY <1>1, <1>2

-----------------------------------------------------------------------------
(* Everybody else and the user's edits                                     *)

LEMMA OtherWriteStep ==
    ASSUME IInv, NEW o \in Objects, NEW a \in {"upsert", "delete"}, OtherWrite(o, a)
    PROVE  IInv'
  <1>1. server[o].version \in Nat BY DEF IInv, TypeOK, ServerRow
  <1>2. /\ \E c \in Change : log' = Append(log, c)
        /\ log' \in Seq(Change) /\ server' \in [Objects -> ServerRow]
    BY <1>1, WriteType DEF IInv, OtherWrite
  <1>3. UNCHANGED <<database, pulling, editing, handled, faults>> BY DEF OtherWrite
  <1>4. TypeOK' BY <1>2, <1>3 DEF IInv, TypeOK, PartialMap
  <1>5. CursorsReached' /\ StepsKnow' BY <1>2, <1>3, LogGrows DEF IInv, StepsKnow
  <1> QED BY <1>4, <1>5 DEF IInv

\* A step of an edit that leaves the server alone keeps the invariant when what it
\* writes is well typed and it keeps the local row it is about.
LEMMA EditKeeps ==
    ASSUME IInv, NEW e \in Edits,
           UNCHANGED <<log, server, cursor, pulling, handled>>, faults' \in Nat,
           PartialMap(copy, LocalIds, Copy)', PartialMap(states, LocalIds, State)',
           NEW to \in {"idle", "open", "send", "local", "mark", "done"}, NEW f \in Form,
           stage' = [stage EXCEPT ![e] = to], form' = [form EXCEPT ![e] = f],
           to \in {"open", "send", "local"} /\ f.kind # "create" => f.local # NoRow,
           to = "mark" => f.local # NoRow
    PROVE  IInv'
  <1>1. TypeOK' BY DEF IInv, TypeOK
  <1>2. StepsKnow' BY DEF IInv, StepsKnow, TypeOK
  <1>3. CursorsReached' BY DEF IInv, CursorsReached, Reached, Theirs
  <1> QED BY <1>1, <1>2, <1>3 DEF IInv

LEMMA OpenFormStep ==
    ASSUME IInv, NEW e \in Edits, NEW kind \in Kinds, NEW l \in LocalIds, OpenForm(e, kind, l)
    PROVE  IInv'
  <1> DEFINE f == [kind |-> kind, local |-> l, obj |-> copy[l].obj,
                   seen |-> copy[l].version, base |-> 0, reply |-> 0]
  <1>1. copy[l] \in Copy BY DEF IInv, TypeOK, PartialMap, OpenForm
  <1>2. f \in Form /\ f.local # NoRow BY <1>1 DEF Form, Copy, LocalIds, NoRow
  <1>3. /\ stage' = [stage EXCEPT ![e] = "open"] /\ form' = [form EXCEPT ![e] = f]
        /\ UNCHANGED <<log, server, database, pulling, handled, faults>>
    BY DEF OpenForm, Move, Fill
  <1>4. PartialMap(copy, LocalIds, Copy)' /\ PartialMap(states, LocalIds, State)' /\ faults' \in Nat
    BY <1>3 DEF IInv, TypeOK, PartialMap
  <1> HIDE DEF f
  <1> QED BY <1>2, <1>3, <1>4, EditKeeps

LEMMA ReadBaseStep == ASSUME IInv, NEW e \in Edits, ReadBase(e) PROVE IInv'
  <1>1. form[e] \in Form BY DEF IInv, TypeOK
  <1>2. /\ UNCHANGED <<log, server, database, pulling, handled, faults>>
        /\ PartialMap(copy, LocalIds, Copy)' /\ PartialMap(states, LocalIds, State)'
        /\ faults' \in Nat
    BY DEF ReadBase, IInv, TypeOK, PartialMap
  <1>3. CASE form[e].local \in DOMAIN states
    <2> DEFINE f == [kind |-> form[e].kind, local |-> form[e].local,
                     obj |-> states[form[e].local].obj, seen |-> form[e].seen,
                     base |-> states[form[e].local].version, reply |-> 0]
    <2>1. states[form[e].local] \in State /\ form[e].local \in LocalIds
      BY <1>3 DEF IInv, TypeOK, PartialMap
    <2>2. f \in Form /\ f.local # NoRow BY <1>1, <2>1 DEF Form, State, LocalIds, NoRow
    <2>3. stage' = [stage EXCEPT ![e] = "send"] /\ form' = [form EXCEPT ![e] = f]
      BY <1>3 DEF ReadBase, Move, Fill
    <2> HIDE DEF f
    <2> QED BY <1>2, <2>2, <2>3, EditKeeps
  <1>4. CASE form[e].local \notin DOMAIN states
    <2>1. stage' = [stage EXCEPT ![e] = "done"] /\ form' = form
      BY <1>4 DEF ReadBase, Move
    <2>2. form' = [form EXCEPT ![e] = form[e]] BY <2>1 DEF IInv, TypeOK
    <2> QED BY <1>1, <1>2, <2>1, <2>2, EditKeeps
  <1> QED BY <1>3, <1>4

LEMMA StartCreateStep ==
    ASSUME IInv, NEW e \in Edits, NEW o \in Objects, StartCreate(e, o) PROVE IInv'
  <1> DEFINE f == [kind |-> "create", local |-> NoRow, obj |-> o, seen |-> 0, base |-> 0,
                   reply |-> 0]
  <1>1. f \in Form /\ f.kind = "create" BY DEF Form, StartCreate
  <1>2. /\ stage' = [stage EXCEPT ![e] = "send"] /\ form' = [form EXCEPT ![e] = f]
        /\ UNCHANGED <<log, server, database, pulling, handled, faults>>
    BY DEF StartCreate, Move, Fill
  <1>3. PartialMap(copy, LocalIds, Copy)' /\ PartialMap(states, LocalIds, State)' /\ faults' \in Nat
    BY <1>2 DEF IInv, TypeOK, PartialMap
  <1> HIDE DEF f
  <1> QED BY <1>1, <1>2, <1>3, EditKeeps

\* Serving a request appends one change or nothing.
LEMMA ServeType ==
    ASSUME TypeOK, NEW f \in Form, Serve(f)
    PROVE  /\ UNCHANGED log \/ \E c \in Change : log' = Append(log, c)
           /\ log' \in Seq(Change)
           /\ server' \in [Objects -> ServerRow]
  <1>1. f.obj \in Objects /\ f.seen \in Nat BY DEF Form
  <1>2. CASE UNCHANGED <<log, server>> BY <1>2 DEF TypeOK
  <1>3. ASSUME NEW a \in {"upsert", "delete"}, NEW v \in Nat, Write(f.obj, a, TRUE, v)
        PROVE  /\ \E c \in Change : log' = Append(log, c)
               /\ log' \in Seq(Change)
               /\ server' \in [Objects -> ServerRow]
    BY <1>1, <1>3, WriteType
  <1> QED BY <1>1, <1>2, <1>3 DEF Serve

\* A request that was served keeps the invariant, with or without its answer.
LEMMA ServedKeeps ==
    ASSUME IInv, NEW e \in Edits, Serve(form[e]) \/ UNCHANGED <<log, server>>,
           UNCHANGED <<database, pulling, handled>>, faults' \in Nat,
           NEW to \in {"open", "local", "done"}, NEW f \in Form,
           stage' = [stage EXCEPT ![e] = to], form' = [form EXCEPT ![e] = f],
           to # "done" /\ f.kind # "create" => f.local # NoRow
    PROVE  IInv'
  <1>1. form[e] \in Form BY DEF IInv, TypeOK
  <1>2. /\ UNCHANGED log \/ \E c \in Change : log' = Append(log, c)
        /\ log' \in Seq(Change) /\ server' \in [Objects -> ServerRow]
    <2>1. CASE Serve(form[e]) BY <1>1, <2>1, ServeType DEF IInv
    <2>2. CASE UNCHANGED <<log, server>> BY <2>2 DEF IInv, TypeOK
    <2> QED BY <2>1, <2>2
  <1>3. TypeOK' BY <1>2 DEF IInv, TypeOK, PartialMap
  <1>4. CursorsReached' /\ \A p \in Pulls :
             /\ page'[p] \subseteq DOMAIN log'
             /\ pc'[p] \in {"delete", "forget", "upsert", "mark"} => now'[p] \in DOMAIN log'
             /\ pc'[p] \in {"delete", "forget", "mark"} => found'[p] # NoRow
    BY <1>2, LogGrows DEF IInv
  <1>5. StepsKnow' BY <1>4 DEF IInv, StepsKnow, TypeOK
  <1> QED BY <1>3, <1>4, <1>5 DEF IInv

LEMMA SendStep == ASSUME IInv, NEW e \in Edits, Send(e) PROVE IInv'
  <1>1. form[e] \in Form /\ faults' \in Nat BY DEF IInv, TypeOK, Send
  <1>2. form[e].kind # "create" => form[e].local # NoRow BY DEF IInv, StepsKnow, Send
  <1>3. Serve(form[e]) /\ UNCHANGED <<database, pulling, handled>> BY DEF Send
  <1>4. CASE stage' = [stage EXCEPT ![e] = "open"] /\ form' = form
    <2>1. form' = [form EXCEPT ![e] = form[e]] BY <1>4 DEF IInv, TypeOK
    <2> QED BY <1>1, <1>2, <1>3, <1>4, <2>1, ServedKeeps
  <1>5. ASSUME NEW v \in Nat, stage' = [stage EXCEPT ![e] = "local"],
               form' = [form EXCEPT ![e] = Answered(form[e], v)]
        PROVE  IInv'
    <2>1. /\ Answered(form[e], v) \in Form
          /\ Answered(form[e], v).kind = form[e].kind
          /\ Answered(form[e], v).local = form[e].local
      BY <1>1 DEF Answered, Form
    <2> QED BY <1>1, <1>2, <1>3, <1>5, <2>1, ServedKeeps
  <1>6. server[form[e].obj].version + 1 \in Nat BY <1>1 DEF IInv, TypeOK, ServerRow, Form
  <1> QED BY <1>4, <1>5, <1>6 DEF Send, Move, Fill

LEMMA AnswerLostStep == ASSUME IInv, NEW e \in Edits, AnswerLost(e) PROVE IInv'
  <1>1. form[e] \in Form /\ faults' \in Nat BY DEF IInv, TypeOK, AnswerLost, Fault
  <1>2. form[e].kind # "create" => form[e].local # NoRow BY DEF IInv, StepsKnow, AnswerLost
  <1>3. /\ Serve(form[e]) \/ UNCHANGED <<log, server>>
        /\ UNCHANGED <<database, pulling, handled>>
    BY DEF AnswerLost
  <1>4. PICK to \in {"open", "done"} : stage' = [stage EXCEPT ![e] = to] BY DEF AnswerLost, Move
  <1>5. form' = [form EXCEPT ![e] = form[e]] BY DEF IInv, TypeOK, AnswerLost
  <1> QED BY <1>1, <1>2, <1>3, <1>4, <1>5, ServedKeeps

\* The local row of an edit stays a row of its table; a new one is inserted.
LEMMA WriteCopyStep == ASSUME IInv, NEW e \in Edits, WriteCopy(e) PROVE IInv'
  <1> DEFINE f == form[e]
             l == IF f.kind = "create" THEN FreshRow ELSE f.local
             g == [kind |-> f.kind, local |-> l, obj |-> f.obj, seen |-> f.seen,
                   base |-> f.base, reply |-> f.reply]
  <1>1. f \in Form BY DEF IInv, TypeOK
  <1>2. l \in LocalIds /\ l # NoRow
    <2>1. CASE f.kind = "create" BY <2>1, FreshRowIsLocal DEF WriteCopy
    <2>2. CASE f.kind # "create"
      BY <1>1, <2>2 DEF WriteCopy, IInv, StepsKnow, Form
    <2> QED BY <2>1, <2>2
  <1>3. /\ stage' = [stage EXCEPT ![e] = "mark"] /\ form' = [form EXCEPT ![e] = g]
        /\ UNCHANGED <<log, server, states, cursor, pulling, handled, faults>>
    BY DEF WriteCopy, Move, Fill
  <1>4. PartialMap(copy, LocalIds, Copy) BY DEF IInv, TypeOK
  <1>5. PartialMap(copy, LocalIds, Copy)'
    <2> HIDE DEF l
    <2> DEFINE new == [obj |-> f.obj, version |-> f.reply, extra |-> FALSE]
               old == [obj |-> f.obj,
                       version |-> IF f.reply = 0 THEN copy[l].version ELSE f.reply,
                       extra |-> f.reply = 0]
    <2>1. new \in Copy BY <1>1 DEF Copy, Form
    <2>2. l \in DOMAIN copy => old \in Copy
      BY <1>1, <1>4 DEF Copy, Form, PartialMap
    <2>3. \/ copy' = Remove(copy, l) \/ copy' = Put(copy, l, new) \/ copy' = copy
          \/ l \in DOMAIN copy /\ copy' = Put(copy, l, old)
      BY DEF WriteCopy, l
    <2> HIDE DEF new, old, f
    <2>4. PartialMap(Remove(copy, l), LocalIds, Copy) BY <1>4, RemoveType
    <2>5. PartialMap(Put(copy, l, new), LocalIds, Copy) BY <1>2, <1>4, <2>1, PutType
    <2>6. l \in DOMAIN copy => PartialMap(Put(copy, l, old), LocalIds, Copy)
      BY <1>2, <1>4, <2>2, PutType
    <2>7. PartialMap(copy', LocalIds, Copy) BY <1>4, <2>3, <2>4, <2>5, <2>6
    <2> QED BY <2>7 DEF PartialMap
  <1>6. PartialMap(states, LocalIds, State)' /\ faults' \in Nat
    BY <1>3 DEF IInv, TypeOK, PartialMap
  <1>7. g \in Form /\ g.local # NoRow
    <2> HIDE DEF l
    <2> QED BY <1>1, <1>2 DEF Form
  <1> HIDE DEF g
  <1> QED BY <1>3, <1>5, <1>6, <1>7, EditKeeps

LEMMA MarkResultStep == ASSUME IInv, NEW e \in Edits, MarkResult(e) PROVE IInv'
  <1> DEFINE f   == form[e]
             old == IF f.local \in DOMAIN states THEN states[f.local].version ELSE 0
             v   == [obj |-> f.obj, version |-> IF f.reply = 0 THEN old ELSE f.reply]
  <1>1. f \in Form BY DEF IInv, TypeOK
  <1>2. f.local \in LocalIds BY <1>1 DEF IInv, StepsKnow, MarkResult, Form
  <1>3. PartialMap(states, LocalIds, State) BY DEF IInv, TypeOK
  <1>4. v \in State BY <1>1, <1>3 DEF State, PartialMap, Form
  <1>5. /\ states' = Put(states, f.local, v) /\ stage' = [stage EXCEPT ![e] = "done"]
        /\ UNCHANGED <<log, server, copy, cursor, pulling, form, handled, faults>>
    BY DEF MarkResult, Move
  <1>6. PartialMap(states, LocalIds, State)'
    <2> HIDE DEF v, f
    <2>1. PartialMap(Put(states, f.local, v), LocalIds, State) BY <1>2, <1>3, <1>4, PutType
    <2> QED BY <1>5, <2>1 DEF PartialMap
  <1>7. PartialMap(copy, LocalIds, Copy)' /\ faults' \in Nat
    BY <1>5 DEF IInv, TypeOK, PartialMap
  <1>8. form' = [form EXCEPT ![e] = form[e]] BY <1>5 DEF IInv, TypeOK
  <1> QED BY <1>1, <1>5, <1>6, <1>7, <1>8, EditKeeps

LEMMA CloseFormStep == ASSUME IInv, NEW e \in Edits, CloseForm(e) PROVE IInv'
  <1>1. form[e] \in Form BY DEF IInv, TypeOK
  <1>2. /\ stage' = [stage EXCEPT ![e] = "done"]
        /\ UNCHANGED <<log, server, database, pulling, form, handled, faults>>
    BY DEF CloseForm, Move
  <1>3. /\ PartialMap(copy, LocalIds, Copy)' /\ PartialMap(states, LocalIds, State)'
        /\ faults' \in Nat /\ form' = [form EXCEPT ![e] = form[e]]
    BY <1>2 DEF IInv, TypeOK, PartialMap
  <1> QED BY <1>1, <1>2, <1>3, EditKeeps

-----------------------------------------------------------------------------
(* The pull                                                                *)

LEMMA StartPullStep == ASSUME IInv, NEW p \in Pulls, StartPull(p) PROVE IInv'
  <1>1. TypeOK' BY DEF IInv, TypeOK, PartialMap, StartPull
  <1>2. StepsKnow' BY DEF IInv, TypeOK, StepsKnow, StartPull
  <1>3. CursorsReached' BY DEF IInv, TypeOK, CursorsReached, Reached, Theirs, StartPull
  <1> QED BY <1>1, <1>2, <1>3 DEF IInv

\* The response: up to its last id everything was reached before or is in the page.
LEMMA FetchStep == ASSUME IInv, NEW p \in Pulls, Fetch(p) PROVE IInv'
  <1>1. at[p] \in Nat /\ Reached(at[p]) BY DEF IInv, TypeOK, CursorsReached
  <1>2. /\ Page(at[p]) \subseteq Theirs(at[p])
        /\ \A last \in Page(at[p]), i \in Theirs(at[p]) : i <= last => i \in Page(at[p])
    BY <1>1, PageIsLowest DEF IInv
  <1>3. Page(at[p]) \subseteq DOMAIN log /\ DOMAIN log = 1..Len(log)
    BY <1>2 DEF Theirs, IInv, TypeOK
  <1>4. PICK n \in Nat : /\ next' = [next EXCEPT ![p] = n]
                         /\ n = at[p] \/ n \in Page(at[p])
    BY <1>1, <1>3 DEF Fetch
  <1>5. /\ page' = [page EXCEPT ![p] = Page(at[p])]
        /\ pc' = [pc EXCEPT ![p] = "read"] /\ failed' = [failed EXCEPT ![p] = FALSE]
        /\ full' = [full EXCEPT ![p] = Cardinality(Page(at[p])) = Limit]
        /\ UNCHANGED <<log, server, database, at, now, found, editing, handled, faults>>
    BY DEF Fetch
  <1>6. TypeOK'
    <2>1. Page(at[p]) \in SUBSET (Nat \ {0}) BY <1>3
    <2>2. (Cardinality(Page(at[p])) = Limit) \in BOOLEAN OBVIOUS
    <2> DEFINE b == Cardinality(Page(at[p])) = Limit
    <2>3. full' = [full EXCEPT ![p] = b] /\ b \in BOOLEAN BY <1>5, <2>2
    <2> HIDE DEF b
    <2>4. full' \in [Pulls -> BOOLEAN] BY <2>3 DEF IInv, TypeOK
    <2> QED BY <1>4, <1>5, <2>1, <2>4 DEF IInv, TypeOK, PartialMap
  <1>7. StepsKnow' BY <1>3, <1>5 DEF IInv, TypeOK, StepsKnow
  <1>8. n \in 0..Len(log) BY <1>1, <1>3, <1>4 DEF Reached
  <1>9. ASSUME NEW i \in Theirs(0), i <= n PROVE i \in handled \cup Page(at[p])
    <2>1. i \in DOMAIN log /\ ~log[i].mine /\ i \in Nat BY <1>3 DEF Theirs
    <2>2. CASE i <= at[p] BY <2>2, <1>1 DEF Reached
    <2>3. CASE i > at[p]
      <3>1. i \in Theirs(at[p]) BY <2>1, <2>3 DEF Theirs
      <3>2. n \in Page(at[p]) BY <1>1, <1>4, <1>9, <2>1, <2>3
      <3> QED BY <1>2, <1>9, <3>1, <3>2
    <2> QED BY <1>1, <2>1, <2>2, <2>3
  <1>10. CursorsReached'
    BY <1>4, <1>5, <1>8, <1>9 DEF IInv, TypeOK, CursorsReached, Reached, Theirs
  <1> QED BY <1>6, <1>7, <1>10 DEF IInv

\* Handling one change keeps every other place reached.
LEMMA HandleKeeps ==
    ASSUME IInv, NEW p \in Pulls, NEW i \in DOMAIN log, Handle(p, i),
           UNCHANGED <<log, server, copy, cursor, at, next, full, failed, editing, faults>>,
           PartialMap(states, LocalIds, State)',
           pc[p] \in {"read", "forget", "mark"}
    PROVE  IInv'
  <1>1. i \in Nat \ {0} BY DEF IInv, TypeOK
  <1>2. /\ page' = [page EXCEPT ![p] = page[p] \ {i}] /\ now' = [now EXCEPT ![p] = 0]
        /\ found' = [found EXCEPT ![p] = NoRow] /\ pc' = [pc EXCEPT ![p] = "read"]
        /\ handled' = handled \cup {i}
    BY DEF Handle, Return
  <1>3. TypeOK' BY <1>1, <1>2 DEF IInv, TypeOK, PartialMap
  <1>4. StepsKnow' BY <1>2 DEF IInv, TypeOK, StepsKnow
  <1>5. CursorsReached'
    BY <1>2 DEF IInv, TypeOK, CursorsReached, Reached, Theirs
  <1> QED BY <1>3, <1>4, <1>5 DEF IInv

LEMMA ReadStateStep ==
    ASSUME IInv, NEW p \in Pulls, NEW i \in page[p], NEW l \in LocalIds \cup {NoRow},
           ReadState(p, i, l)
    PROVE  IInv'
  <1>1. i \in DOMAIN log BY DEF IInv, StepsKnow
  <1>2. /\ UNCHANGED <<log, server, database, at, next, full, failed, editing, faults>>
        /\ pc[p] = "read" /\ PartialMap(states, LocalIds, State)'
    BY DEF ReadState, IInv, TypeOK, PartialMap
  <1>3. CASE Handle(p, i) BY <1>1, <1>2, <1>3, HandleKeeps
  <1>4. ASSUME NEW step \in {"upsert", "delete"}, Examine(p, i, l, step),
               step = "delete" => l # NoRow
        PROVE  IInv'
    <2>1. i \in Nat BY <1>1 DEF IInv, TypeOK
    <2>2. TypeOK' BY <1>2, <1>4, <2>1 DEF Examine, IInv, TypeOK, PartialMap
    <2>3. StepsKnow' BY <1>1, <1>2, <1>4 DEF Examine, IInv, TypeOK, StepsKnow
    <2>4. CursorsReached'
      BY <1>2, <1>4 DEF Examine, IInv, TypeOK, CursorsReached, Reached, Theirs
    <2> QED BY <2>2, <2>3, <2>4 DEF IInv
  <1> QED BY <1>3, <1>4 DEF ReadState

LEMMA DeleteCopyStep == ASSUME IInv, NEW p \in Pulls, DeleteCopy(p) PROVE IInv'
  <1>1. PartialMap(Remove(copy, found[p]), LocalIds, Copy)
    BY RemoveType DEF IInv, TypeOK
  <1>2. PartialMap(copy, LocalIds, Copy)' BY <1>1 DEF DeleteCopy, PartialMap
  <1>3. TypeOK' BY <1>2 DEF DeleteCopy, IInv, TypeOK, PartialMap
  <1>4. StepsKnow' BY DEF DeleteCopy, IInv, TypeOK, StepsKnow
  <1>5. CursorsReached' BY DEF DeleteCopy, IInv, TypeOK, CursorsReached, Reached, Theirs
  <1> QED BY <1>3, <1>4, <1>5 DEF IInv

LEMMA RemoveStateStep == ASSUME IInv, NEW p \in Pulls, RemoveState(p) PROVE IInv'
  <1>1. PartialMap(Remove(states, found[p]), LocalIds, State)
    BY RemoveType DEF IInv, TypeOK
  <1>2. PartialMap(states, LocalIds, State)' BY <1>1 DEF RemoveState, PartialMap
  <1>3. now[p] \in DOMAIN log BY DEF RemoveState, IInv, StepsKnow
  <1> QED BY <1>2, <1>3, HandleKeeps DEF RemoveState

LEMMA UpsertCopyStep == ASSUME IInv, NEW p \in Pulls, UpsertCopy(p) PROVE IInv'
  <1> DEFINE c   == log[now[p]]
             new == [obj |-> c.obj, version |-> c.version, extra |-> FALSE]
  <1>1. now[p] \in DOMAIN log /\ PartialMap(copy, LocalIds, Copy)
    BY DEF UpsertCopy, IInv, StepsKnow, TypeOK
  <1>2. c \in Change BY <1>1 DEF IInv, TypeOK
  <1>3. new \in Copy BY <1>2 DEF Change, Copy
  <1>4. PICK l \in LocalIds :
          /\ l # NoRow /\ found' = [found EXCEPT ![p] = l]
          /\ copy' = copy \/ copy' = Put(copy, l, new)
    <2>1. CASE found[p] = NoRow BY <2>1, FreshRowIsLocal DEF UpsertCopy
    <2>2. CASE found[p] # NoRow
      <3>1. found[p] \in LocalIds /\ found = [found EXCEPT ![p] = found[p]]
        BY <2>2 DEF IInv, TypeOK
      <3> QED BY <2>2, <3>1 DEF UpsertCopy
    <2> QED BY <2>1, <2>2
  <1>5. PartialMap(copy, LocalIds, Copy)'
    <2> HIDE DEF new
    <2>1. PartialMap(Put(copy, l, new), LocalIds, Copy) BY <1>1, <1>3, PutType
    <2> QED BY <1>1, <1>4, <2>1 DEF PartialMap
  <1>6. /\ pc' = [pc EXCEPT ![p] = "mark"] /\ pc[p] = "upsert"
        /\ UNCHANGED <<log, server, states, cursor, at, page, next, full, now, failed,
                       editing, handled, faults>>
    BY DEF UpsertCopy
  <1>7. TypeOK' BY <1>4, <1>5, <1>6 DEF IInv, TypeOK, PartialMap
  <1>8. StepsKnow' BY <1>1, <1>4, <1>6 DEF IInv, TypeOK, StepsKnow
  <1>9. CursorsReached' BY <1>6 DEF IInv, TypeOK, CursorsReached, Reached, Theirs
  <1> QED BY <1>7, <1>8, <1>9 DEF IInv

LEMMA MarkSyncedStep == ASSUME IInv, NEW p \in Pulls, MarkSynced(p) PROVE IInv'
  <1> DEFINE v == [obj |-> log[now[p]].obj, version |-> log[now[p]].version]
  <1>1. now[p] \in DOMAIN log /\ found[p] \in LocalIds /\ PartialMap(states, LocalIds, State)
    BY DEF MarkSynced, IInv, StepsKnow, TypeOK
  <1>2. v \in State
    <2>1. log[now[p]] \in Change BY <1>1 DEF IInv, TypeOK
    <2> QED BY <2>1 DEF Change, State
  <1>3. states' = Put(states, found[p], v) BY DEF MarkSynced
  <1>4. PartialMap(states, LocalIds, State)'
    <2> HIDE DEF v
    <2>1. PartialMap(Put(states, found[p], v), LocalIds, State) BY <1>1, <1>2, PutType
    <2> QED BY <1>3, <2>1 DEF PartialMap
  <1> QED BY <1>1, <1>4, HandleKeeps DEF MarkSynced

\* A failed change leaves the page and takes the page's right to be acknowledged.
LEMMA ChangeFailsStep == ASSUME IInv, NEW p \in Pulls, ChangeFails(p) PROVE IInv'
  <1>1. /\ page' = [page EXCEPT ![p] = page[p] \ {now[p]}] /\ now' = [now EXCEPT ![p] = 0]
        /\ found' = [found EXCEPT ![p] = NoRow] /\ pc' = [pc EXCEPT ![p] = "read"]
        /\ failed' = [failed EXCEPT ![p] = TRUE] /\ faults' = faults + 1
        /\ UNCHANGED <<log, server, database, at, next, full, editing, handled>>
    BY DEF ChangeFails, Return, Fault
  <1>2. TypeOK' BY <1>1 DEF IInv, TypeOK, PartialMap
  <1>3. StepsKnow' BY <1>1 DEF IInv, TypeOK, StepsKnow
  <1>4. CursorsReached' BY <1>1 DEF IInv, TypeOK, CursorsReached, Reached, Theirs
  <1> QED BY <1>2, <1>3, <1>4 DEF IInv

\* Ending a pull keeps the invariant wherever it is, if the saved cursor is a place
\* that was reached.
LEMMA LeaveKeeps ==
    ASSUME IInv, NEW p \in Pulls, Leave(p), Reached(cursor)', faults' \in Nat, cursor' \in Nat,
           UNCHANGED <<log, server, copy, states, editing, handled>>,
           pc[p] \in {"fetch", "read", "ack", "save"}
    PROVE  IInv'
  <1>1. TypeOK' BY DEF Leave, IInv, TypeOK, PartialMap
  <1>2. StepsKnow' BY DEF Leave, IInv, TypeOK, StepsKnow
  <1>3. CursorsReached'
    <2>1. Reached(0)' BY DEF Reached, Theirs, IInv, TypeOK
    <2> QED BY <2>1 DEF Leave, IInv, TypeOK, CursorsReached, Reached, Theirs
  <1> QED BY <1>1, <1>2, <1>3 DEF IInv

LEMMA EndPageStep == ASSUME IInv, NEW p \in Pulls, EndPage(p) PROVE IInv'
  <1>1. /\ pc[p] = "read" /\ page[p] = {}
        /\ UNCHANGED <<log, server, database, editing, handled, faults>>
    BY DEF EndPage
  <1>2. CASE ~failed[p]
    <2>1. pc' = [pc EXCEPT ![p] = "ack"] /\ UNCHANGED <<at, page, next, full, now, found, failed>>
      BY <1>2 DEF EndPage, MayAck
    <2>2. TypeOK' BY <1>1, <2>1 DEF IInv, TypeOK, PartialMap
    <2>3. StepsKnow' BY <1>1, <2>1 DEF IInv, TypeOK, StepsKnow
    <2>4. CursorsReached'
      BY <1>1, <1>2, <2>1 DEF IInv, TypeOK, CursorsReached, Reached, Theirs
    <2> QED BY <2>2, <2>3, <2>4 DEF IInv
  <1>3. CASE failed[p]
    <2>1. Leave(p) BY <1>3 DEF EndPage, MayAck
    <2>2. Reached(cursor)' /\ faults' \in Nat /\ cursor' \in Nat
      BY <1>1 DEF IInv, TypeOK, CursorsReached, Reached, Theirs
    <2> QED BY <1>1, <2>1, <2>2, LeaveKeeps
  <1> QED BY <1>2, <1>3

LEMMA AckStep == ASSUME IInv, NEW p \in Pulls, Ack(p) PROVE IInv'
  <1>1. TypeOK' BY DEF Ack, IInv, TypeOK, PartialMap
  <1>2. StepsKnow' BY DEF Ack, IInv, TypeOK, StepsKnow
  <1>3. CursorsReached' BY DEF Ack, IInv, TypeOK, CursorsReached, Reached, Theirs
  <1> QED BY <1>1, <1>2, <1>3 DEF IInv

LEMMA RequestFailsStep == ASSUME IInv, NEW p \in Pulls, RequestFails(p) PROVE IInv'
  <1>1. /\ Leave(p) /\ pc[p] \in {"fetch", "ack"} /\ faults' = faults + 1
        /\ UNCHANGED <<log, server, database, editing, handled>>
    BY DEF RequestFails, Fault
  <1>2. Reached(cursor)' /\ faults' \in Nat /\ cursor' \in Nat
    BY <1>1 DEF IInv, TypeOK, CursorsReached, Reached, Theirs
  <1> QED BY <1>1, <1>2, LeaveKeeps

\* The saved cursor was reached, and so was the place the next page starts from.
LEMMA SaveCursorStep == ASSUME IInv, NEW p \in Pulls, SaveCursor(p) PROVE IInv'
  <1>1. /\ pc[p] = "save" /\ cursor' = next[p]
        /\ UNCHANGED <<log, server, copy, states, editing, handled, faults>>
    BY DEF SaveCursor, SavedCursor
  <1>2. Reached(next[p]) /\ next[p] \in Nat BY <1>1 DEF IInv, CursorsReached, TypeOK
  <1>3. Reached(cursor)' /\ faults' \in Nat /\ cursor' \in Nat
    BY <1>1, <1>2 DEF IInv, TypeOK, Reached, Theirs
  <1>4. CASE Leave(p) BY <1>1, <1>3, <1>4, LeaveKeeps
  <1>5. CASE /\ at' = [at EXCEPT ![p] = next[p]] /\ pc' = [pc EXCEPT ![p] = "fetch"]
             /\ UNCHANGED <<page, next, full, now, found, failed>>
    <2>1. TypeOK' BY <1>1, <1>3, <1>5 DEF IInv, TypeOK, PartialMap
    <2>2. StepsKnow' BY <1>1, <1>5 DEF IInv, TypeOK, StepsKnow
    <2>3. CursorsReached'
      BY <1>1, <1>2, <1>5 DEF IInv, TypeOK, CursorsReached, Reached, Theirs
    <2> QED BY <2>1, <2>2, <2>3 DEF IInv
  <1> QED BY <1>4, <1>5 DEF SaveCursor

\* A crash keeps the database, and a pull that is gone has reached nothing.
LEMMA CrashStep == ASSUME IInv, Crash PROVE IInv'
  <1>1. Reached(0)' BY DEF Crash, Reached, Theirs, IInv, TypeOK
  <1>2. TypeOK' BY DEF Crash, Fault, IInv, TypeOK, PartialMap, NoRow
  <1>3. StepsKnow' BY DEF Crash, IInv, TypeOK, StepsKnow
  <1>4. CursorsReached'
    BY <1>1 DEF Crash, IInv, TypeOK, CursorsReached, Reached, Theirs
  <1> QED BY <1>2, <1>3, <1>4 DEF IInv

-----------------------------------------------------------------------------

\* Every step keeps the invariant.
LEMMA StepIInv == IInv /\ [Next]_vars => IInv'
  <1> SUFFICES ASSUME IInv, [Next]_vars PROVE IInv' OBVIOUS
  <1>1. ASSUME NEW o \in Objects, NEW a \in {"upsert", "delete"}, OtherWrite(o, a)
        PROVE  IInv'
    BY <1>1, OtherWriteStep
  <1>2. ASSUME NEW p \in Pulls, StartPull(p) PROVE IInv' BY <1>2, StartPullStep
  <1>3. ASSUME NEW p \in Pulls, PullStep(p) PROVE IInv'
    <2>1. CASE ApplyStep(p)
      BY <2>1, ReadStateStep, DeleteCopyStep, RemoveStateStep, UpsertCopyStep, MarkSyncedStep
      DEF ApplyStep
    <2> QED BY <1>3, <2>1, FetchStep, EndPageStep, AckStep, SaveCursorStep DEF PullStep
  <1>4. ASSUME NEW p \in Pulls, ChangeFails(p) \/ RequestFails(p) PROVE IInv'
    BY <1>4, ChangeFailsStep, RequestFailsStep
  <1>5. ASSUME NEW e \in Edits, NEW kind \in Kinds, NEW l \in LocalIds, OpenForm(e, kind, l)
        PROVE  IInv'
    BY <1>5, OpenFormStep
  <1>6. ASSUME NEW e \in Edits, NEW o \in Objects, StartCreate(e, o) PROVE IInv'
    BY <1>6, StartCreateStep
  <1>7. ASSUME NEW e \in Edits, EditStep(e) \/ CloseForm(e) \/ AnswerLost(e) PROVE IInv'
    BY <1>7, ReadBaseStep, SendStep, WriteCopyStep, MarkResultStep, CloseFormStep,
       AnswerLostStep
    DEF EditStep
  <1>8. CASE Crash BY <1>8, CrashStep
  <1>9. CASE UNCHANGED vars
    BY <1>9 DEF vars, IInv, TypeOK, PartialMap, StepsKnow, CursorsReached, Reached, Theirs
  <1> QED BY <1>1, <1>2, <1>3, <1>4, <1>5, <1>6, <1>7, <1>8, <1>9 DEF Next

\* The strengthening of the theorems below.
THEOREM InductiveInvariant == Spec => []IInv
  BY InitIInv, StepIInv, PTL DEF Spec

\* The tables of the device and the variables of its pulls and edits keep their types.
THEOREM TypeCorrect == Spec => []TypeOK
  <1>1. IInv => TypeOK BY DEF IInv
  <1> QED BY <1>1, InductiveInvariant, PTL

\* The saved cursor never passes a change of another device that was not applied or
\* skipped on purpose: for any number of overlapping pulls, edits, crashes, failed
\* requests and failed statements, and whatever order the two sorts give a page.
THEOREM CursorSkipsNothing == Spec => []NothingSkipped
  <1>1. IInv => NothingSkipped BY DEF IInv, CursorsReached, Reached, NothingSkipped
  <1> QED BY <1>1, InductiveInvariant, PTL

-----------------------------------------------------------------------------
(* One at a time                                                           *)

\* A step of the pull that is under way: the others are idle, and no form is open.
LEMMA PullMoves ==
    ASSUME SerialInv, IInv', NEW p \in Pulls, pc[p] # "idle", NEW step,
           pc' = [pc EXCEPT ![p] = step],
           UNCHANGED <<log, server, editing>>,
           \A l \in LocalIds : RowFits(l)',
           PullFits(p)'
    PROVE  SerialInv'
  <1>1. \A e \in Edits : ~Busy(e) BY DEF SerialInv, OneAtATime
  <1>2. \A q \in Pulls \ {p} : pc[q] = "idle" BY DEF SerialInv, OneAtATime
  <1>3. \A q \in Pulls \ {p} : pc'[q] = "idle" BY <1>2 DEF SerialInv, IInv, TypeOK
  <1>4. \A e \in Edits : Busy(e)' = Busy(e) BY DEF Busy
  <1>5. OneAtATime' BY <1>1, <1>3, <1>4 DEF OneAtATime
  <1>6. \A q \in Pulls : PullFits(q)' BY <1>3 DEF PullFits
  <1>7. \A e \in Edits : EditFits(e)' BY <1>1 DEF EditFits, Busy
  <1>8. LogFits' /\ NoBlindOverwrite' BY DEF SerialInv, LogFits, NoBlindOverwrite
  <1> QED BY <1>5, <1>6, <1>7, <1>8 DEF SerialInv

\* A step of the edit that is under way: no pull is, and no other edit.
LEMMA EditMoves ==
    ASSUME SerialInv, IInv', NEW e \in Edits, Busy(e), NEW step,
           stage' = [stage EXCEPT ![e] = step],
           UNCHANGED pulling,
           LogFits', NoBlindOverwrite',
           \A l \in LocalIds : RowFits(l)',
           EditFits(e)'
    PROVE  SerialInv'
  <1>1. \A p \in Pulls : pc[p] = "idle" BY DEF SerialInv, OneAtATime
  <1>2. \A d \in Edits \ {e} : ~Busy(d) BY DEF SerialInv, OneAtATime
  <1>3. \A d \in Edits \ {e} : ~Busy(d)' BY <1>2 DEF SerialInv, IInv, TypeOK, Busy
  <1>4. OneAtATime' BY <1>1, <1>3 DEF OneAtATime
  <1>5. \A d \in Edits : EditFits(d)' BY <1>3 DEF EditFits, Busy
  <1>6. \A p \in Pulls : PullFits(p)' BY <1>1 DEF PullFits
  <1> QED BY <1>4, <1>5, <1>6 DEF SerialInv

\* A pull or an edit starts when nothing else is under way.
LEMMA QuietIdle ==
    ASSUME SerialInv, Concurrent = FALSE, MayStart
    PROVE  /\ \A p \in Pulls : pc[p] = "idle"
           /\ \A e \in Edits : ~Busy(e)
  BY DEF MayStart, Quiet, Busy

\* A commit of the request, or of somebody else.
LEMMA WriteFits ==
    ASSUME SerialInv, NEW o \in Objects, NEW a \in {"upsert", "delete"}, NEW m \in BOOLEAN,
           NEW v \in Nat, Write(o, a, m, v),
           m /\ a = "upsert" => server[o].version = v
    PROVE  /\ LogFits' /\ NoBlindOverwrite'
           /\ server'[o].version = server[o].version + 1
           /\ \A x \in Objects \ {o} : server'[x] = server[x]
           /\ \A i \in DOMAIN log : i \in DOMAIN log' /\ log'[i] = log[i]
  <1> DEFINE c == [obj |-> o, version |-> server[o].version + 1, action |-> a, mine |-> m,
                   seen |-> v]
             n == Len(log) + 1
  <1>1. TypeOK BY DEF SerialInv, IInv
  <1>2. /\ server[o].version \in Nat /\ \A x \in Objects : server[x].version \in Nat
        /\ log \in Seq(Change) /\ c \in Change
    BY <1>1 DEF TypeOK, ServerRow, Change
  <1>3. log' = Append(log, c) BY DEF Write
  <1>4. server'[o].version = server[o].version + 1 /\ \A x \in Objects \ {o} : server'[x] = server[x]
    BY <1>1 DEF Write, TypeOK
  <1>5. /\ c.obj = o /\ c.version = server[o].version + 1 /\ c.action = a /\ c.mine = m
        /\ c.seen = v
    OBVIOUS
  <1> HIDE DEF c
  <1>6. /\ DOMAIN log' = 1..n /\ log'[n] = c /\ DOMAIN log = 1..Len(log) /\ Len(log) \in Nat
        /\ \A i \in DOMAIN log : i \in DOMAIN log' /\ log'[i] = log[i]
    BY <1>2, <1>3
  <1>7. \A i \in DOMAIN log' : i = n \/ i \in DOMAIN log BY <1>6
  <1>8. LogFits'
    <2> SUFFICES ASSUME NEW i \in DOMAIN log'
                 PROVE  log'[i].version \in 1..server'[log'[i].obj].version
      BY DEF LogFits
    <2>1. CASE i = n BY <1>2, <1>4, <1>5, <1>6, <2>1
    <2>2. CASE i \in DOMAIN log
      <3>1. log[i].version \in 1..server[log[i].obj].version /\ log[i].obj \in Objects
        <4>1. log[i] \in Change BY <1>2, <2>2
        <4> QED BY <2>2, <4>1 DEF SerialInv, LogFits, Change
      <3> QED BY <1>2, <1>4, <1>6, <2>2, <3>1
    <2> QED BY <1>7, <2>1, <2>2
  <1>9. NoBlindOverwrite'
    BY <1>5, <1>6, <1>7 DEF SerialInv, NoBlindOverwrite
  <1> QED BY <1>4, <1>6, <1>8, <1>9

\* Rows are no newer than a server that goes on.
LEMMA RowsStay ==
    ASSUME SerialInv, UNCHANGED <<copy, states>>,
           \A x \in Objects : server[x].version <= server'[x].version,
           TypeOK'
    PROVE  \A l \in LocalIds : RowFits(l)'
  <1> SUFFICES ASSUME NEW l \in LocalIds PROVE RowFits(l)' OBVIOUS
  <1>1. RowFits(l) BY DEF SerialInv
  <1>2. l \in DOMAIN copy => copy[l].obj \in Objects /\ copy[l].version \in Nat
    BY DEF SerialInv, IInv, TypeOK, PartialMap, Copy
  <1>3. \A x \in Objects : server[x].version \in Nat /\ server'[x].version \in Nat
    BY DEF SerialInv, IInv, TypeOK, ServerRow
  <1> QED BY <1>1, <1>2, <1>3 DEF RowFits

(* A write of another device leaves the rows here no newer than the server. *)
LEMMA OtherWriteSerial ==
    ASSUME SerialInv, NEW o \in Objects, NEW a \in {"upsert", "delete"}, OtherWrite(o, a)
    PROVE  SerialInv'
  <1>1. /\ Write(o, a, FALSE, server[o].version)
        /\ UNCHANGED <<database, pulling, editing, handled, faults>>
        /\ server[o].version = 0 => ~BornHere(o)
    BY DEF OtherWrite
  <1>2. server[o].version \in Nat BY DEF SerialInv, IInv, TypeOK, ServerRow
  <1>3. /\ LogFits' /\ NoBlindOverwrite'
        /\ server'[o].version = server[o].version + 1
        /\ \A x \in Objects \ {o} : server'[x] = server[x]
        /\ \A i \in DOMAIN log : i \in DOMAIN log' /\ log'[i] = log[i]
    BY <1>1, <1>2, WriteFits
  <1>4. IInv' /\ TypeOK' BY OtherWriteStep DEF SerialInv, IInv
  <1>5. \A x \in Objects : server[x].version \in Nat /\ server[x].version <= server'[x].version
    <2> SUFFICES ASSUME NEW x \in Objects
                 PROVE  server[x].version \in Nat /\ server[x].version <= server'[x].version
      OBVIOUS
    <2>1. server[x].version \in Nat BY DEF SerialInv, IInv, TypeOK, ServerRow
    <2>2. CASE x = o BY <1>2, <1>3, <2>2
    <2>3. CASE x # o
      <3>1. server'[x] = server[x] BY <1>3, <2>3
      <3> QED BY <2>1, <3>1
    <2> QED BY <2>1, <2>2, <2>3
  <1>6. \A l \in LocalIds : RowFits(l)' BY <1>1, <1>4, <1>5, RowsStay
  <1>7. OneAtATime' BY <1>1 DEF SerialInv, OneAtATime, Busy
  <1>8. ASSUME NEW p \in Pulls PROVE PullFits(p)'
    <2>1. pc[p] \in {"upsert", "mark"} => now[p] \in DOMAIN log /\ log'[now[p]] = log[now[p]]
      BY <1>3 DEF SerialInv, IInv, StepsKnow
    <2> QED BY <1>1, <2>1 DEF SerialInv, PullFits
  <1>9. ASSUME NEW e \in Edits PROVE EditFits(e)'
    <2>1. EditFits(e) /\ form[e].obj \in Objects /\ form[e].reply \in Nat
      BY DEF SerialInv, IInv, TypeOK, Form
    <2>2. form[e].reply <= server[form[e].obj].version => form[e].reply <= server'[form[e].obj].version
      BY <1>4, <1>5, <2>1 DEF TypeOK, ServerRow
    <2>3. form[e].kind = "create" /\ server[form[e].obj].version = 0 => server'[form[e].obj].version = 0
      BY <1>1, <1>3, <2>1 DEF BornHere
    <2> QED BY <1>1, <2>1, <2>2, <2>3 DEF EditFits, Busy
  <1> QED BY <1>3, <1>4, <1>6, <1>7, <1>8, <1>9 DEF SerialInv

-----------------------------------------------------------------------------
(* The pull                                                                *)

(* A step that changes no object, copy or state leaves the rows fitting. *)
LEMMA RowsUntouched ==
    ASSUME SerialInv, UNCHANGED <<server, copy, states>>
    PROVE  \A l \in LocalIds : RowFits(l)'
  BY DEF SerialInv, RowFits

\* Steps of a pull that touch no row and examine none.
LEMMA PullGoesOnSerial ==
    ASSUME SerialInv, IInv', NEW p \in Pulls,
           Fetch(p) \/ EndPage(p) \/ Ack(p) \/ RequestFails(p) \/ SaveCursor(p) \/ ChangeFails(p)
    PROVE  SerialInv'
  <1>1. /\ UNCHANGED <<log, server, editing, copy, states>>
        /\ pc[p] # "idle"
    BY DEF Fetch, EndPage, Ack, RequestFails, SaveCursor, ChangeFails
  <1>2. PICK step \in {"idle", "fetch", "read", "ack", "save"} : pc' = [pc EXCEPT ![p] = step]
    BY DEF Fetch, EndPage, Ack, RequestFails, SaveCursor, ChangeFails, Leave, Return
  <1>3. pc'[p] = step BY <1>2 DEF SerialInv, IInv, TypeOK
  <1>4. PullFits(p)' BY <1>3 DEF PullFits
  <1> QED BY <1>1, <1>2, <1>4, RowsUntouched, PullMoves

(* A pull starts only when nothing else runs. *)
LEMMA StartPullSerial ==
    ASSUME SerialInv, IInv', Concurrent = FALSE, NEW p \in Pulls, StartPull(p)
    PROVE  SerialInv'
  <1>1. /\ \A q \in Pulls : pc[q] = "idle"
        /\ \A e \in Edits : ~Busy(e)
    BY QuietIdle DEF StartPull
  <1>2. /\ pc' = [pc EXCEPT ![p] = "fetch"]
        /\ UNCHANGED <<log, server, copy, states, now, found, editing>>
    BY DEF StartPull
  <1>3. pc'[p] = "fetch" /\ \A q \in Pulls \ {p} : pc'[q] = "idle"
    BY <1>1, <1>2 DEF SerialInv, IInv, TypeOK
  <1>4. OneAtATime' BY <1>1, <1>2, <1>3 DEF OneAtATime, Busy
  <1>5. \A q \in Pulls : PullFits(q)' BY <1>3 DEF PullFits
  <1>6. \A e \in Edits : EditFits(e)' BY <1>1, <1>2 DEF EditFits, Busy
  <1>7. LogFits' /\ NoBlindOverwrite' BY <1>2 DEF SerialInv, LogFits, NoBlindOverwrite
  <1> QED BY <1>2, <1>4, <1>5, <1>6, <1>7, RowsUntouched DEF SerialInv

(* The state a pull reads cannot change before it writes, for nothing else runs. *)
LEMMA ReadStateSerial ==
    ASSUME SerialInv, IInv', NEW p \in Pulls, NEW i \in page[p], NEW l \in LocalIds \cup {NoRow},
           ReadState(p, i, l)
    PROVE  SerialInv'
  <1>1. /\ UNCHANGED <<log, server, editing, copy, states>>
        /\ pc[p] = "read"
    BY DEF ReadState
  <1>2. i \in DOMAIN log BY DEF SerialInv, IInv, StepsKnow
  <1>3. log[i].version \in Nat
    <2>1. log[i] \in Change BY <1>2 DEF SerialInv, IInv, TypeOK
    <2> QED BY <2>1 DEF Change
  <1>4. CASE Handle(p, i)
    <2>1. pc' = [pc EXCEPT ![p] = "read"] BY <1>4 DEF Handle, Return
    <2>2. pc'[p] = "read" BY <2>1 DEF SerialInv, IInv, TypeOK
    <2>3. PullFits(p)' BY <2>2 DEF PullFits
    <2> QED BY <1>1, <2>1, <2>3, RowsUntouched, PullMoves
  <1>5. CASE Examine(p, i, l, "delete")
    <2>1. pc' = [pc EXCEPT ![p] = "delete"] BY <1>5 DEF Examine
    <2>2. pc'[p] = "delete" BY <2>1 DEF SerialInv, IInv, TypeOK
    <2>3. PullFits(p)' BY <2>2 DEF PullFits
    <2> QED BY <1>1, <2>1, <2>3, RowsUntouched, PullMoves
  <1>6. CASE Examine(p, i, l, "upsert") /\ ~IsOld(i, l)
    <2>1. pc' = [pc EXCEPT ![p] = "upsert"] BY <1>6 DEF Examine
    <2>2. pc'[p] = "upsert" /\ now'[p] = i /\ found'[p] = l
      BY <1>6 DEF SerialInv, IInv, TypeOK, Examine
    <2>3. l # NoRow => l \in DOMAIN states /\ states[l].obj = log[i].obj
      BY DEF ReadState
    <2>4. l # NoRow => states[l].version < log[i].version
      <3> SUFFICES ASSUME l # NoRow PROVE states[l].version < log[i].version OBVIOUS
      <3>1. l \in LocalIds /\ RowFits(l) /\ states[l].version \in Nat
        BY <2>3 DEF SerialInv, IInv, TypeOK, PartialMap, State
      <3> QED BY <1>3, <1>6, <2>3, <3>1 DEF IsOld, RowFits
    <2>5. PullFits(p)' BY <1>1, <2>2, <2>3, <2>4 DEF PullFits
    <2> QED BY <1>1, <2>1, <2>5, RowsUntouched, PullMoves
  <1> QED BY <1>4, <1>5, <1>6 DEF ReadState

(* A step that ends a pull, or passes a change over, writes no row. *)
LEMMA ForgetSerial ==
    ASSUME SerialInv, IInv', NEW p \in Pulls, DeleteCopy(p) \/ RemoveState(p)
    PROVE  SerialInv'
  <1>1. UNCHANGED <<log, server, editing>> /\ pc[p] # "idle"
    BY DEF DeleteCopy, RemoveState
  <1>2. PICK step \in {"forget", "read"} : pc' = [pc EXCEPT ![p] = step]
    BY DEF DeleteCopy, RemoveState, Handle, Return
  <1>3. pc'[p] = step BY <1>2 DEF SerialInv, IInv, TypeOK
  <1>4. PullFits(p)' BY <1>3 DEF PullFits
  <1>5. ASSUME NEW l \in LocalIds PROVE RowFits(l)'
    BY <1>1 DEF SerialInv, RowFits, DeleteCopy, RemoveState, Remove
  <1> QED BY <1>1, <1>2, <1>4, <1>5, PullMoves

(* A fresh local id has neither a copy nor a state. *)
LEMMA FreshIsNew == 
    ASSUME LocalIds \ Named # {}
    PROVE  FreshRow \in LocalIds /\ FreshRow \notin DOMAIN copy /\ FreshRow \notin DOMAIN states
  BY DEF FreshRow, Named

(* The row a pull writes is the one its change tells of. *)
LEMMA UpsertSerial ==
    ASSUME SerialInv, IInv', NEW p \in Pulls, UpsertCopy(p)
    PROVE  SerialInv'
  <1>1. /\ UNCHANGED <<log, server, editing, states, now>>
        /\ pc[p] = "upsert" /\ pc' = [pc EXCEPT ![p] = "mark"]
    BY DEF UpsertCopy
  <1>2. PICK c \in Change : c = log[now[p]] /\ now[p] \in DOMAIN log
    BY <1>1 DEF SerialInv, IInv, StepsKnow, TypeOK
  <1>3. /\ c.obj \in Objects /\ c.version \in Nat /\ c.version <= server[c.obj].version
        /\ server[c.obj].version \in Nat
    BY <1>2 DEF SerialInv, IInv, TypeOK, LogFits, Change, ServerRow
  <1> DEFINE new == [obj |-> c.obj, version |-> c.version, extra |-> FALSE]
  <1>4. new.obj = c.obj /\ new.version = c.version OBVIOUS
  <1>5. PICK l \in LocalIds :
          /\ found'[p] = l
          /\ \/ copy' = Put(copy, l, new)
             \/ copy' = copy /\ l \notin DOMAIN copy
          /\ l \in DOMAIN states => states[l].obj = c.obj /\ states[l].version < c.version
    <2>1. CASE found[p] = NoRow
      <3>1. /\ LocalIds \ Named # {} /\ found' = [found EXCEPT ![p] = FreshRow]
            /\ copy' = Put(copy, FreshRow, new)
        BY <1>2, <2>1 DEF UpsertCopy
      <3>2. FreshRow \in LocalIds /\ FreshRow \notin DOMAIN states
        BY <3>1, FreshIsNew
      <3>3. found'[p] = FreshRow BY <3>1 DEF SerialInv, IInv, TypeOK
      <3> HIDE DEF new
      <3> QED BY <3>1, <3>2, <3>3
    <2>2. CASE found[p] # NoRow
      <3>1. found[p] \in LocalIds /\ found' = found
        BY <2>2 DEF SerialInv, IInv, TypeOK, UpsertCopy
      <3>2. copy' = IF found[p] \in DOMAIN copy THEN Put(copy, found[p], new) ELSE copy
        BY <1>2, <2>2 DEF UpsertCopy
      <3>3. states[found[p]].obj = c.obj /\ states[found[p]].version < c.version
        BY <1>1, <1>2, <2>2 DEF SerialInv, PullFits
      <3> HIDE DEF new
      <3> QED BY <3>1, <3>2, <3>3
    <2> QED BY <2>1, <2>2
  <1> HIDE DEF new
  <1>6. /\ l \in DOMAIN copy' => copy'[l] = new
        /\ \A m \in LocalIds \ {l} :
             /\ m \in DOMAIN copy' <=> m \in DOMAIN copy
             /\ m \in DOMAIN copy => copy'[m] = copy[m]
    <2>1. /\ DOMAIN Put(copy, l, new) = DOMAIN copy \cup {l}
          /\ Put(copy, l, new)[l] = new
          /\ \A y \in DOMAIN copy \ {l} : Put(copy, l, new)[y] = copy[y]
      BY DEF Put
    <2> QED BY <1>5, <2>1
  <1>7. pc'[p] = "mark" BY <1>1 DEF SerialInv, IInv, TypeOK
  <1>8. PullFits(p)' BY <1>1, <1>2, <1>4, <1>5, <1>6, <1>7 DEF PullFits
  <1>9. ASSUME NEW m \in LocalIds PROVE RowFits(m)'
    <2>1. RowFits(m) BY DEF SerialInv
    <2>2. CASE m # l BY <1>1, <1>6, <2>1, <2>2 DEF RowFits
    <2>3. CASE m = l
      <3>1. m \in DOMAIN states => states[m].version \in Nat
        BY DEF SerialInv, IInv, TypeOK, PartialMap, State
      <3> QED BY <1>1, <1>3, <1>4, <1>5, <1>6, <2>1, <2>3, <3>1 DEF RowFits
    <2> QED BY <2>2, <2>3
  <1> QED BY <1>1, <1>8, <1>9, PullMoves

(* Saving the state of an object after its row keeps the state no newer than the row. *)
LEMMA MarkSerial ==
    ASSUME SerialInv, IInv', NEW p \in Pulls, MarkSynced(p)
    PROVE  SerialInv'
  <1>1. /\ UNCHANGED <<log, server, editing, copy>>
        /\ pc[p] = "mark" /\ pc' = [pc EXCEPT ![p] = "read"]
    BY DEF MarkSynced, Handle, Return
  <1>2. PICK c \in Change : c = log[now[p]] /\ now[p] \in DOMAIN log
    BY <1>1 DEF SerialInv, IInv, StepsKnow, TypeOK
  <1>3. c.version \in Nat /\ c.version # 0
    BY <1>2 DEF SerialInv, IInv, TypeOK, LogFits, Change
  <1> DEFINE l == found[p]
             v == [obj |-> c.obj, version |-> c.version]
  <1>4. v.obj = c.obj /\ v.version = c.version OBVIOUS
  <1>5. states' = Put(states, l, v) BY <1>2 DEF MarkSynced
  <1>6. l \in DOMAIN copy => copy[l].obj = c.obj /\ copy[l].version = c.version
    BY <1>1, <1>2 DEF SerialInv, PullFits
  <1> HIDE DEF l, v
  <1>7. /\ states'[l] = v
        /\ \A m \in LocalIds \ {l} :
             /\ m \in DOMAIN states' <=> m \in DOMAIN states
             /\ m \in DOMAIN states => states'[m] = states[m]
    <2>1. /\ DOMAIN Put(states, l, v) = DOMAIN states \cup {l}
          /\ Put(states, l, v)[l] = v
          /\ \A y \in DOMAIN states \ {l} : Put(states, l, v)[y] = states[y]
      BY DEF Put
    <2> QED BY <1>5, <2>1
  <1>8. pc'[p] = "read" BY <1>1 DEF SerialInv, IInv, TypeOK
  <1>9. PullFits(p)' BY <1>8 DEF PullFits
  <1>10. ASSUME NEW m \in LocalIds PROVE RowFits(m)'
    <2>1. RowFits(m) BY DEF SerialInv
    <2>2. CASE m # l BY <1>1, <1>7, <2>1, <2>2 DEF RowFits
    <2>3. CASE m = l BY <1>1, <1>3, <1>4, <1>6, <1>7, <2>1, <2>3 DEF RowFits
    <2> QED BY <2>2, <2>3
  <1> QED BY <1>1, <1>9, <1>10, PullMoves

-----------------------------------------------------------------------------
(* The edits                                                               *)

(* An edit starts only when nothing else runs. *)
LEMMA StartEditSerial ==
    ASSUME SerialInv, IInv', Concurrent = FALSE, NEW e \in Edits, MayStart,
           NEW step \in {"open", "send"},
           stage' = [stage EXCEPT ![e] = step],
           UNCHANGED <<log, server, database, pulling>>,
           EditFits(e)'
    PROVE  SerialInv'
  <1>1. /\ \A q \in Pulls : pc[q] = "idle"
        /\ \A d \in Edits : ~Busy(d)
    BY QuietIdle
  <1>2. \A d \in Edits \ {e} : ~Busy(d)' BY <1>1 DEF SerialInv, IInv, TypeOK, Busy
  <1>3. OneAtATime' BY <1>1, <1>2 DEF OneAtATime
  <1>4. \A q \in Pulls : PullFits(q)' BY <1>1 DEF PullFits
  <1>5. \A d \in Edits : EditFits(d)' BY <1>2 DEF EditFits, Busy
  <1>6. LogFits' /\ NoBlindOverwrite' BY DEF SerialInv, LogFits, NoBlindOverwrite
  <1> QED BY <1>3, <1>4, <1>5, <1>6, RowsUntouched DEF SerialInv

(* The form shows the row as it is. *)
LEMMA OpenFormSerial ==
    ASSUME SerialInv, IInv', Concurrent = FALSE, NEW e \in Edits, NEW kind \in Kinds,
           NEW l \in LocalIds, OpenForm(e, kind, l)
    PROVE  SerialInv'
  <1> DEFINE f == [kind |-> kind, local |-> l, obj |-> copy[l].obj,
                   seen |-> copy[l].version, base |-> 0, reply |-> 0]
  <1>1. /\ stage' = [stage EXCEPT ![e] = "open"] /\ form' = [form EXCEPT ![e] = f]
        /\ UNCHANGED <<log, server, database, pulling>>
        /\ MayStart /\ kind # "create" /\ l \in DOMAIN copy
    BY DEF OpenForm, Move, Fill
  <1>2. f.kind = kind /\ f.local = l /\ f.seen = copy[l].version OBVIOUS
  <1> HIDE DEF f
  <1>3. stage'[e] = "open" /\ form'[e] = f BY <1>1 DEF SerialInv, IInv, TypeOK
  <1>4. EditFits(e)' BY <1>1, <1>2, <1>3, TypesAssumption DEF EditFits, Busy
  <1> QED BY <1>1, <1>4, StartEditSerial

(* A form for a new object has seen no version. *)
LEMMA StartCreateSerial ==
    ASSUME SerialInv, IInv', Concurrent = FALSE, NEW e \in Edits, NEW o \in Objects,
           StartCreate(e, o)
    PROVE  SerialInv'
  <1> DEFINE f == [kind |-> "create", local |-> NoRow, obj |-> o, seen |-> 0, base |-> 0,
                   reply |-> 0]
  <1>1. /\ stage' = [stage EXCEPT ![e] = "send"] /\ form' = [form EXCEPT ![e] = f]
        /\ UNCHANGED <<log, server, database, pulling>>
        /\ MayStart /\ server[o].version = 0
    BY DEF StartCreate, Move, Fill
  <1>2. f.kind = "create" /\ f.obj = o /\ f.seen = 0 OBVIOUS
  <1> HIDE DEF f
  <1>3. stage'[e] = "send" /\ form'[e] = f BY <1>1 DEF SerialInv, IInv, TypeOK
  <1>4. EditFits(e)' BY <1>1, <1>2, <1>3, TypesAssumption DEF EditFits, Busy
  <1> QED BY <1>1, <1>4, StartEditSerial

(* The base an edit reads is the version of the row its form showed. *)
LEMMA ReadBaseSerial ==
    ASSUME SerialInv, IInv', NEW e \in Edits, ReadBase(e)
    PROVE  SerialInv'
  <1>1. Busy(e) /\ UNCHANGED <<log, server, database, pulling>> /\ stage[e] = "open"
    BY DEF ReadBase, Busy
  <1>2. LogFits' /\ NoBlindOverwrite' BY <1>1 DEF SerialInv, LogFits, NoBlindOverwrite
  <1>3. EditFits(e) BY DEF SerialInv
  <1> DEFINE l == form[e].local
  <1>4. CASE l \in DOMAIN states
    <2> DEFINE f == [kind |-> form[e].kind, local |-> l, obj |-> states[l].obj,
                     seen |-> form[e].seen, base |-> states[l].version, reply |-> 0]
    <2>1. stage' = [stage EXCEPT ![e] = "send"] /\ form' = [form EXCEPT ![e] = f]
      BY <1>4 DEF ReadBase, Move, Fill
    <2>2. /\ f.kind = form[e].kind /\ f.local = l /\ f.obj = states[l].obj
          /\ f.seen = form[e].seen /\ f.base = states[l].version
      OBVIOUS
    <2> HIDE DEF f
    <2>3. stage'[e] = "send" /\ form'[e] = f BY <2>1 DEF SerialInv, IInv, TypeOK
    <2>4. EditFits(e)' BY <1>1, <1>3, <1>4, <2>2, <2>3 DEF EditFits, Busy
    <2> QED BY <1>1, <1>2, <2>1, <2>4, RowsUntouched, EditMoves
  <1>5. CASE l \notin DOMAIN states
    <2>1. stage' = [stage EXCEPT ![e] = "done"] BY <1>5 DEF ReadBase, Move
    <2>2. stage'[e] = "done" BY <2>1 DEF SerialInv, IInv, TypeOK
    <2>3. EditFits(e)' BY <2>2 DEF EditFits, Busy
    <2> QED BY <1>1, <1>2, <2>1, <2>3, RowsUntouched, EditMoves
  <1> QED BY <1>4, <1>5

\* What a request does to the log: an update that is accepted was made on the version
\* its user saw.
LEMMA ServeFits ==
    ASSUME SerialInv, TypeOK', NEW e \in Edits, stage[e] = "send",
           Serve(form[e]) \/ UNCHANGED <<log, server>>, UNCHANGED <<copy, states>>
    PROVE  /\ LogFits' /\ NoBlindOverwrite'
           /\ \A x \in Objects : server[x].version <= server'[x].version
           /\ \A l \in LocalIds : RowFits(l)'
  <1> DEFINE f == form[e]
  <1>1. /\ f \in Form /\ f.obj \in Objects /\ f.seen \in Nat /\ f.base \in Nat
        /\ f.local \in LocalIds \cup {NoRow} /\ f.kind \in Kinds \cup {"none"}
    BY DEF SerialInv, IInv, TypeOK, Form
  <1>2. \A x \in Objects : server[x].version \in Nat BY DEF SerialInv, IInv, TypeOK, ServerRow
  <1>3. EditFits(e) BY DEF SerialInv
  <1>4. CASE UNCHANGED <<log, server>>
    BY <1>2, <1>4, RowsUntouched DEF SerialInv, LogFits, NoBlindOverwrite
  <1>5. ASSUME NEW a \in {"upsert", "delete"}, NEW v \in Nat, Write(f.obj, a, TRUE, v),
               a = "upsert" => server[f.obj].version = v
        PROVE  /\ LogFits' /\ NoBlindOverwrite'
               /\ \A x \in Objects : server[x].version <= server'[x].version
               /\ \A l \in LocalIds : RowFits(l)'
    <2>1. PICK o \in Objects : o = f.obj BY <1>1
    <2> HIDE DEF f
    <2>2. /\ LogFits' /\ NoBlindOverwrite'
          /\ server'[o].version = server[o].version + 1
          /\ \A x \in Objects \ {o} : server'[x] = server[x]
      <3>1. Write(o, a, TRUE, v) /\ (TRUE /\ a = "upsert" => server[o].version = v)
        BY <1>5, <2>1
      <3> QED BY <3>1, WriteFits
    <2>3. \A x \in Objects : server[x].version <= server'[x].version
      <3> SUFFICES ASSUME NEW x \in Objects PROVE server[x].version <= server'[x].version
        OBVIOUS
      <3>1. CASE x = o BY <1>2, <2>2, <3>1
      <3>2. CASE x # o
        <4>1. server'[x] = server[x] BY <2>2, <3>2
        <4> QED BY <1>2, <4>1
      <3> QED BY <3>1, <3>2
    <2> QED BY <2>2, <2>3, RowsStay
  <1>6. CASE f.kind = "create"
    <2>1. Write(f.obj, "upsert", TRUE, 0) \/ UNCHANGED <<log, server>>
      BY <1>6 DEF Serve
    <2>2. server[f.obj].version = 0 BY <1>3, <1>6 DEF EditFits
    <2> HIDE DEF f
    <2>3. CASE Write(f.obj, "upsert", TRUE, 0)
      <3>1. PICK v \in Nat : v = 0 OBVIOUS
      <3> QED BY <1>5, <2>2, <2>3, <3>1
    <2> QED BY <1>4, <2>1, <2>3
  <1>7. CASE f.kind = "delete"
    <2>1. Write(f.obj, "delete", TRUE, f.seen) \/ UNCHANGED <<log, server>>
      BY <1>7 DEF Serve
    <2> QED BY <1>1, <1>4, <1>5, <2>1
  <1>8. CASE f.kind \notin {"create", "delete"}
    <2>1. \/ Write(f.obj, "upsert", TRUE, f.seen) /\ ~IsStale(f)
          \/ UNCHANGED <<log, server>>
      BY <1>8 DEF Serve
    <2>2. CASE Write(f.obj, "upsert", TRUE, f.seen) /\ ~IsStale(f)
      <3>1. /\ f.local \in DOMAIN states \cap DOMAIN copy /\ f.obj = states[f.local].obj
            /\ f.base = states[f.local].version /\ f.seen = copy[f.local].version
        BY <1>3, <1>8 DEF EditFits
      <3>2. f.local \in LocalIds BY <3>1 DEF SerialInv, IInv, TypeOK, PartialMap
      <3>3. RowFits(f.local) BY <3>2 DEF SerialInv
      <3>4. f.base # 0 /\ f.base <= f.seen /\ f.seen <= server[f.obj].version
        BY <3>1, <3>3 DEF RowFits
      <3>5. f.kind = "update" => server[f.obj].version = f.base
        BY <2>2, <3>4 DEF IsStale
      <3>6. f.kind = "update"
        <4>1. f.kind # "none" BY <1>3 DEF EditFits, Busy
        <4> QED BY <1>1, <1>8, <4>1, TypesAssumption
      <3>7. server[f.obj].version = f.seen
        BY <1>1, <1>2, <3>4, <3>5, <3>6
      <3> QED BY <1>1, <1>5, <2>2, <3>7
    <2> QED BY <1>4, <2>1, <2>2
  <1> QED BY <1>6, <1>7, <1>8

(* An accepted edit was made on the version of the row, which is the one that was seen. *)
LEMMA SendSerial ==
    ASSUME SerialInv, IInv', NEW e \in Edits, Send(e)
    PROVE  SerialInv'
  <1> DEFINE f == form[e]
             o == f.obj
  <1>1. /\ Busy(e) /\ stage[e] = "send" /\ UNCHANGED <<database, pulling>> /\ Serve(f)
        /\ TypeOK' /\ f \in Form /\ o \in Objects /\ server[o].version \in Nat
    BY DEF Send, Busy, SerialInv, IInv, TypeOK, Form, ServerRow
  <1>2. /\ LogFits' /\ NoBlindOverwrite'
        /\ \A x \in Objects : server[x].version <= server'[x].version
        /\ \A l \in LocalIds : RowFits(l)'
    BY <1>1, ServeFits
  <1>3. EditFits(e) BY DEF SerialInv
  <1>4. CASE f.kind # "create" /\ server[o].live /\ IsStale(f)
    <2>1. stage' = [stage EXCEPT ![e] = "open"] /\ form' = form
      BY <1>4 DEF Send, Move
    <2>2. stage'[e] = "open" BY <2>1 DEF SerialInv, IInv, TypeOK
    <2>3. EditFits(e)' BY <1>1, <1>3, <1>4, <2>1, <2>2 DEF EditFits, Busy
    <2> QED BY <1>1, <1>2, <2>1, <2>3, EditMoves
  <1>5. CASE ~(f.kind # "create" /\ server[o].live /\ IsStale(f))
    <2> DEFINE v == IF f.kind = "create" \/ server[o].live THEN server[o].version + 1 ELSE 0
               g == Answered(f, v)
    <2>1. stage' = [stage EXCEPT ![e] = "local"] /\ form' = [form EXCEPT ![e] = g]
      BY <1>5 DEF Send, Move, Fill
    <2>2. /\ g.kind = f.kind /\ g.local = f.local /\ g.obj = f.obj /\ g.seen = f.seen
          /\ g.base = f.base /\ g.reply = v
      BY DEF Answered
    <2>3. v # 0 => server'[o].version = server[o].version + 1
      <3>1. v # 0 => \E a \in {"upsert", "delete"} :
                       server' = [server EXCEPT ![o] = [version |-> server[o].version + 1,
                                                        live |-> a = "upsert"]]
        BY <1>1, <1>5 DEF Serve, Write
      <3>2. server \in [Objects -> ServerRow] BY DEF SerialInv, IInv, TypeOK
      <3> HIDE DEF v, o
      <3> QED BY <1>1, <3>1, <3>2
    <2>4. v <= server'[o].version
      <3>1. server'[o].version \in Nat BY <1>1 DEF TypeOK, ServerRow
      <3> QED BY <1>1, <2>3, <3>1
    <2>5. f.kind = "create" => v # 0 BY <1>1
    <2>6. f.kind = "update" /\ v # 0 => f.base < v
      <3> SUFFICES ASSUME f.kind = "update", v # 0 PROVE f.base < v OBVIOUS
      <3>1. ~IsStale(f) BY <1>5
      <3>2. f.local \in DOMAIN states /\ f.base = states[f.local].version
        BY <1>1, <1>3 DEF EditFits
      <3>3. f.base # 0
        <4>1. RowFits(f.local) BY <3>2 DEF SerialInv, IInv, TypeOK, PartialMap
        <4> QED BY <3>2, <4>1 DEF RowFits
      <3> QED BY <1>1, <3>1, <3>3 DEF IsStale
    <2> HIDE DEF g, v
    <2>7. stage'[e] = "local" /\ form'[e] = g BY <2>1 DEF SerialInv, IInv, TypeOK
    <2>8. EditFits(e)'
      BY <1>1, <1>3, <2>2, <2>4, <2>5, <2>6, <2>7 DEF EditFits, Busy
    <2> QED BY <1>1, <1>2, <2>1, <2>8, EditMoves
  <1> QED BY <1>4, <1>5

(* An answer that is lost leaves the copy as it was. *)
LEMMA AnswerLostSerial ==
    ASSUME SerialInv, IInv', NEW e \in Edits, AnswerLost(e)
    PROVE  SerialInv'
  <1>1. /\ Busy(e) /\ stage[e] = "send" /\ UNCHANGED <<database, pulling, form>>
        /\ Serve(form[e]) \/ UNCHANGED <<log, server>>
        /\ TypeOK'
    BY DEF AnswerLost, Busy, IInv
  <1>2. /\ LogFits' /\ NoBlindOverwrite'
        /\ \A l \in LocalIds : RowFits(l)'
    BY <1>1, ServeFits
  <1>3. EditFits(e) BY DEF SerialInv
  <1>4. CASE form[e].kind = "create"
    <2>1. stage' = [stage EXCEPT ![e] = "done"] BY <1>4 DEF AnswerLost, Move
    <2>2. stage'[e] = "done" BY <2>1 DEF SerialInv, IInv, TypeOK
    <2>3. EditFits(e)' BY <2>2 DEF EditFits, Busy
    <2> QED BY <1>1, <1>2, <2>1, <2>3, EditMoves
  <1>5. CASE form[e].kind # "create"
    <2>1. stage' = [stage EXCEPT ![e] = "open"] BY <1>5 DEF AnswerLost, Move
    <2>2. stage'[e] = "open" BY <2>1 DEF SerialInv, IInv, TypeOK
    <2>3. EditFits(e)' BY <1>1, <1>3, <1>5, <2>2 DEF EditFits, Busy
    <2> QED BY <1>1, <1>2, <2>1, <2>3, EditMoves
  <1> QED BY <1>4, <1>5

(* A form that is closed leaves everything else alone. *)
LEMMA CloseFormSerial ==
    ASSUME SerialInv, IInv', NEW e \in Edits, CloseForm(e)
    PROVE  SerialInv'
  <1>1. /\ Busy(e) /\ stage' = [stage EXCEPT ![e] = "done"]
        /\ UNCHANGED <<log, server, database, pulling>>
    BY DEF CloseForm, Busy, Move
  <1>2. stage'[e] = "done" BY <1>1 DEF SerialInv, IInv, TypeOK
  <1>3. EditFits(e)' BY <1>2 DEF EditFits, Busy
  <1>4. LogFits' /\ NoBlindOverwrite' BY <1>1 DEF SerialInv, LogFits, NoBlindOverwrite
  <1> QED BY <1>1, <1>3, <1>4, RowsUntouched, EditMoves

(* The copy written after an answer is the row the server answered. *)
LEMMA WriteCopySerial ==
    ASSUME SerialInv, IInv', NEW e \in Edits, WriteCopy(e)
    PROVE  SerialInv'
  <1> DEFINE f == form[e]
             l == IF f.kind = "create" THEN FreshRow ELSE f.local
             g == [kind |-> f.kind, local |-> l, obj |-> f.obj, seen |-> f.seen,
                   base |-> f.base, reply |-> f.reply]
  <1>1. /\ Busy(e) /\ stage[e] = "local" /\ UNCHANGED <<log, server, states, pulling>>
        /\ stage' = [stage EXCEPT ![e] = "mark"] /\ form' = [form EXCEPT ![e] = g]
    BY DEF WriteCopy, Busy, Move, Fill
  <1>2. LogFits' /\ NoBlindOverwrite' BY <1>1 DEF SerialInv, LogFits, NoBlindOverwrite
  <1>3. EditFits(e) /\ f \in Form BY DEF SerialInv, IInv, TypeOK
  <1>4. /\ f.kind = "create" => l \in LocalIds /\ l \notin DOMAIN states
        /\ f.kind # "create" => l = f.local /\ l \in DOMAIN states /\ f.obj = states[l].obj
    BY <1>1, <1>3, FreshIsNew DEF WriteCopy, EditFits
  <1>5. l \in LocalIds BY <1>4 DEF SerialInv, IInv, TypeOK, PartialMap
  <1>6. f.reply \in Nat /\ f.obj \in Objects /\ f.base \in Nat
        /\ f.reply <= server[f.obj].version /\ (f.kind = "create" => f.reply # 0)
        /\ f.kind \in Kinds
    BY <1>1, <1>3 DEF Form, EditFits, Busy
  <1>7. f.kind = "update" => f.base = states[l].version /\ (f.reply # 0 => f.base < f.reply)
    BY <1>1, <1>3, <1>4 DEF EditFits
  <1>8. /\ g.kind = f.kind /\ g.local = l /\ g.obj = f.obj /\ g.reply = f.reply
    OBVIOUS
  <1> HIDE DEF g
  <1>9. stage'[e] = "mark" /\ form'[e] = g BY <1>1 DEF SerialInv, IInv, TypeOK
  <1>10. \A m \in LocalIds \ {l} : /\ m \in DOMAIN copy' <=> m \in DOMAIN copy
                                   /\ m \in DOMAIN copy => copy'[m] = copy[m]
    BY DEF WriteCopy, Put, Remove
  <1>11. l \in DOMAIN copy' =>
           /\ copy'[l].obj = f.obj
           /\ f.reply # 0 => copy'[l].version = f.reply
           /\ f.reply = 0 => l \in DOMAIN copy /\ copy'[l].version = copy[l].version
                             /\ f.kind # "create"
    <2>1. f.kind \in {"create", "update", "delete"} BY <1>6, TypesAssumption
    <2>2. CASE f.kind = "delete"
      BY <2>2 DEF WriteCopy, Remove
    <2>3. CASE f.kind = "create"
      <3> DEFINE new == [obj |-> f.obj, version |-> f.reply, extra |-> FALSE]
      <3>1. copy' = Put(copy, l, new) BY <2>3 DEF WriteCopy
      <3>2. new.obj = f.obj /\ new.version = f.reply OBVIOUS
      <3> HIDE DEF new
      <3> QED BY <1>6, <2>3, <3>1, <3>2 DEF Put
    <2>4. CASE f.kind = "update"
      <3> DEFINE new == [obj |-> f.obj,
                         version |-> IF f.reply = 0 THEN copy[l].version ELSE f.reply,
                         extra |-> f.reply = 0]
      <3>1. copy' = IF l \notin DOMAIN copy THEN copy ELSE Put(copy, l, new)
        BY <2>4 DEF WriteCopy
      <3>2. new.obj = f.obj /\ (f.reply # 0 => new.version = f.reply)
            /\ (f.reply = 0 => new.version = copy[l].version)
        OBVIOUS
      <3> HIDE DEF new
      <3> QED BY <2>4, <3>1, <3>2 DEF Put
    <2> QED BY <2>1, <2>2, <2>3, <2>4
  <1> HIDE DEF l
  <1>12. EditFits(e)'
    <2>1. l \in DOMAIN copy' /\ f.reply # 0 => f.reply <= copy'[l].version
      BY <1>6, <1>11
    <2> QED BY <1>1, <1>4, <1>6, <1>8, <1>9, <1>11, <2>1, TypesAssumption DEF EditFits, Busy
  <1>13. ASSUME NEW m \in LocalIds PROVE RowFits(m)'
    <2>1. RowFits(m) BY DEF SerialInv
    <2>2. CASE m # l BY <1>1, <1>10, <2>1, <2>2 DEF RowFits
    <2>3. CASE m = l
      <3>1. l \in DOMAIN copy' /\ f.reply # 0 => copy'[l].version <= server[f.obj].version
        BY <1>6, <1>11
      <3>2. l \in DOMAIN copy' /\ f.reply = 0 =>
              copy[l].obj = f.obj /\ copy'[l].version <= server[f.obj].version
        BY <1>4, <1>11, <2>1, <2>3 DEF RowFits
      <3>3. l \in DOMAIN copy' /\ l \in DOMAIN states =>
              states[l].obj = f.obj /\ states[l].version <= copy'[l].version
        <4>1. SUFFICES ASSUME l \in DOMAIN copy', l \in DOMAIN states
                       PROVE  states[l].obj = f.obj /\ states[l].version <= copy'[l].version
          OBVIOUS
        <4>2. f.kind = "update"
          <5>1. f.kind # "create" BY <1>4, <4>1
          <5>2. f.kind # "delete"
            BY <1>4, <4>1 DEF WriteCopy, Remove
          <5> QED BY <1>6, <5>1, <5>2, TypesAssumption
        <4>3. CASE f.reply = 0
          BY <1>4, <1>11, <2>1, <2>3, <4>1, <4>2, <4>3 DEF RowFits
        <4>4. CASE f.reply # 0
          BY <1>4, <1>6, <1>7, <1>11, <4>1, <4>2, <4>4
        <4> QED BY <4>3, <4>4
      <3> QED BY <1>1, <1>11, <2>1, <2>3, <3>1, <3>2, <3>3 DEF RowFits
    <2> QED BY <2>2, <2>3
  <1> QED BY <1>1, <1>2, <1>12, <1>13, EditMoves

(* The state saved after an answer is that of the copy. *)
LEMMA MarkResultSerial ==
    ASSUME SerialInv, IInv', NEW e \in Edits, MarkResult(e)
    PROVE  SerialInv'
  <1> DEFINE f   == form[e]
             l   == f.local
             old == IF l \in DOMAIN states THEN states[l].version ELSE 0
             v   == [obj |-> f.obj, version |-> IF f.reply = 0 THEN old ELSE f.reply]
  <1>1. /\ Busy(e) /\ stage[e] = "mark" /\ UNCHANGED <<log, server, copy, pulling>>
        /\ stage' = [stage EXCEPT ![e] = "done"]
        /\ states' = Put(states, l, v)
    BY DEF MarkResult, Busy, Move
  <1>2. LogFits' /\ NoBlindOverwrite' BY <1>1 DEF SerialInv, LogFits, NoBlindOverwrite
  <1>3. EditFits(e) BY DEF SerialInv
  <1>4. stage'[e] = "done" BY <1>1 DEF SerialInv, IInv, TypeOK
  <1>5. EditFits(e)' BY <1>4 DEF EditFits, Busy
  <1>6. /\ f.kind # "create" => l \in DOMAIN states
        /\ f.kind = "create" => f.reply # 0
        /\ l \in DOMAIN copy => copy[l].obj = f.obj /\ (f.reply # 0 => f.reply <= copy[l].version)
    BY <1>1, <1>3 DEF EditFits
  <1>7. v.obj = f.obj /\ v.version = IF f.reply = 0 THEN old ELSE f.reply OBVIOUS
  <1>8. ASSUME NEW m \in LocalIds PROVE RowFits(m)'
    <2>1. RowFits(m) BY DEF SerialInv
    <2> HIDE DEF v, f
    <2>2. CASE m # l BY <1>1, <2>1, <2>2 DEF RowFits, Put
    <2>3. CASE m = l
      <3>1. states'[l] = v BY <1>1 DEF Put
      <3>2. v.version # 0 /\ (l \in DOMAIN copy => v.version <= copy[l].version)
        BY <1>6, <1>7, <2>1, <2>3 DEF RowFits
      <3> QED BY <1>1, <1>6, <1>7, <2>1, <2>3, <3>1, <3>2 DEF RowFits
    <2> QED BY <2>2, <2>3
  <1> QED BY <1>1, <1>2, <1>5, <1>8, EditMoves

(* A crash ends what runs. *)
LEMMA CrashSerial ==
    ASSUME SerialInv, IInv', Crash
    PROVE  SerialInv'
  <1>1. /\ \A p \in Pulls : pc'[p] = "idle"
        /\ \A e \in Edits : ~Busy(e)'
        /\ UNCHANGED <<log, server, database>>
    BY DEF Crash, Busy
  <1>2. OneAtATime' BY <1>1 DEF OneAtATime
  <1>3. (\A p \in Pulls : PullFits(p)') /\ (\A e \in Edits : EditFits(e)')
    BY <1>1 DEF PullFits, EditFits, Busy
  <1>4. LogFits' /\ NoBlindOverwrite' BY <1>1 DEF SerialInv, LogFits, NoBlindOverwrite
  <1> QED BY <1>1, <1>2, <1>3, <1>4, RowsUntouched DEF SerialInv

-----------------------------------------------------------------------------

(* Nothing runs and nothing is stored at first. *)
LEMMA InitSerial == Init => SerialInv
  <1> SUFFICES ASSUME Init PROVE SerialInv OBVIOUS
  <1>1. OneAtATime BY DEF Init, OneAtATime, Busy
  <1>2. LogFits /\ NoBlindOverwrite BY DEF Init, LogFits, NoBlindOverwrite
  <1>3. \A l \in LocalIds : RowFits(l) BY DEF Init, RowFits, Nothing
  <1>4. (\A p \in Pulls : PullFits(p)) /\ (\A e \in Edits : EditFits(e))
    BY DEF Init, PullFits, EditFits, Busy
  <1> QED BY <1>1, <1>2, <1>3, <1>4, InitIInv DEF SerialInv

(* Every step keeps the invariant, when one thing runs at a time. *)
LEMMA StepSerial == ASSUME Concurrent = FALSE PROVE SerialInv /\ [Next]_vars => SerialInv'
  <1> SUFFICES ASSUME SerialInv, [Next]_vars PROVE SerialInv' OBVIOUS
  <1>0. IInv' BY StepIInv DEF SerialInv
  <1>1. ASSUME NEW o \in Objects, NEW a \in {"upsert", "delete"}, OtherWrite(o, a)
        PROVE  SerialInv'
    BY <1>1, OtherWriteSerial
  <1>2. ASSUME NEW p \in Pulls, StartPull(p) PROVE SerialInv'
    BY <1>0, <1>2, StartPullSerial
  <1>3. ASSUME NEW p \in Pulls, PullStep(p) PROVE SerialInv'
    <2>1. CASE ApplyStep(p)
      BY <1>0, <2>1, ReadStateSerial, ForgetSerial, UpsertSerial, MarkSerial DEF ApplyStep
    <2> QED BY <1>0, <1>3, <2>1, PullGoesOnSerial DEF PullStep
  <1>4. ASSUME NEW p \in Pulls, ChangeFails(p) \/ RequestFails(p) PROVE SerialInv'
    BY <1>0, <1>4, PullGoesOnSerial
  <1>5. ASSUME NEW e \in Edits, NEW kind \in Kinds, NEW l \in LocalIds, OpenForm(e, kind, l)
        PROVE  SerialInv'
    BY <1>0, <1>5, OpenFormSerial
  <1>6. ASSUME NEW e \in Edits, NEW o \in Objects, StartCreate(e, o) PROVE SerialInv'
    BY <1>0, <1>6, StartCreateSerial
  <1>7. ASSUME NEW e \in Edits, EditStep(e) \/ CloseForm(e) \/ AnswerLost(e) PROVE SerialInv'
    BY <1>0, <1>7, ReadBaseSerial, SendSerial, WriteCopySerial, MarkResultSerial,
       CloseFormSerial, AnswerLostSerial
    DEF EditStep
  <1>8. CASE Crash BY <1>0, <1>8, CrashSerial
  <1>9. CASE UNCHANGED vars
    BY <1>0, <1>9, RowsUntouched DEF vars, SerialInv, OneAtATime, Busy, LogFits,
       NoBlindOverwrite, PullFits, EditFits
  <1> QED BY <1>1, <1>2, <1>3, <1>4, <1>5, <1>6, <1>7, <1>8, <1>9 DEF Next

\* When pulls and edits do not overlap, an update of this device replaces the very version
\* its user had on the screen, whatever the other devices write and whatever fails between
\* its steps.
THEOREM UpdatesAreOnWhatWasSeen ==
    ASSUME Concurrent = FALSE
    PROVE  Spec => []NoBlindOverwrite
  <1>1. SerialInv => NoBlindOverwrite BY DEF SerialInv
  <1> QED BY <1>1, InitSerial, StepSerial, PTL DEF Spec


-----------------------------------------------------------------------------
(* What a device shows                                                     *)

\* Ids of one length are ordered as strings the way they are as numbers.
LEMMA IdsInOrder ==
    ASSUME OneLength, NEW i \in 1..MaxChanges, NEW j \in 1..MaxChanges,
           StringBefore(Digits(ChangeId(i)), Digits(ChangeId(j)))
    PROVE  i < j
  <1> DEFINE m == ChangeId(i)
             n == ChangeId(j)
  <1>1. m \in Nat /\ n \in Nat /\ (m < n <=> i < j)
    BY BoundsAssumption DEF ChangeId
  <1>2. Len(Digits(m)) = Len(Digits(n)) BY DEF OneLength
  <1>3. StringBefore(Digits(m), Digits(n)) OBVIOUS
  <1> HIDE DEF m, n
  <1>4. m < 10 /\ ~(n < 10) => FALSE BY <1>1, <1>2 DEF Digits
  <1>5. n < 10 /\ ~(m < 10) => FALSE BY <1>1, <1>2 DEF Digits
  <1>6. CASE m < 10
    <2>1. n < 10 BY <1>4, <1>6
    <2>2. Digits(m) = <<m>> /\ Digits(n) = <<n>> BY <1>6, <2>1 DEF Digits
    <2>3. PICK k \in 1..1 : k > 1 \/ Digits(m)[k] < Digits(n)[k]
      BY <1>3, <2>2 DEF StringBefore
    <2>4. m < n BY <2>2, <2>3
    <2> QED BY <1>1, <2>4
  <1>7. CASE ~(m < 10)
    <2>1. ~(n < 10) BY <1>5, <1>7
    <2> DEFINE a == m \div 10
               b == m % 10
               c == n \div 10
               d == n % 10
    <2>2. Digits(m) = <<a, b>> /\ Digits(n) = <<c, d>> BY <1>7, <2>1 DEF Digits
    <2>3. /\ m = 10 * a + b /\ b \in 0..9 /\ a \in Nat
          /\ n = 10 * c + d /\ d \in 0..9 /\ c \in Nat
      BY <1>1
    <2> HIDE DEF a, b, c, d
    <2>4. PICK k \in 1..2 : /\ \A q \in 1..(k - 1) : <<a, b>>[q] = <<c, d>>[q]
                            /\ k > 2 \/ <<a, b>>[k] < <<c, d>>[k]
      BY <1>3, <2>2 DEF StringBefore
    <2>5. k = 1 => a < c BY <2>4
    <2>6. k = 2 => a = c /\ b < d
      <3>1. k = 2 => <<a, b>>[1] = <<c, d>>[1] BY <2>4
      <3> QED BY <2>3, <2>4, <3>1
    <2>7. a < c \/ (a = c /\ b < d)
      <3>1. k = 1 \/ k = 2 OBVIOUS
      <3> QED BY <2>5, <2>6, <3>1
    <2> QED BY <1>1, <2>3, <2>7
  <1> QED BY <1>6, <1>7

\* The types the rest relies on, in one place.
LEMMA SerialTypes ==
    ASSUME SerialInv
    PROVE  /\ Len(log) \in Nat /\ DOMAIN log = 1..Len(log)
           /\ \A i \in DOMAIN log :
                /\ log[i].obj \in Objects /\ log[i].version \in Nat /\ log[i].version # 0
                /\ log[i].version <= server[log[i].obj].version
                /\ log[i].action \in {"upsert", "delete"} /\ log[i].mine \in BOOLEAN
           /\ \A o \in Objects : server[o].version \in Nat /\ server[o].live \in BOOLEAN
           /\ \A l \in DOMAIN states :
                /\ l \in LocalIds /\ l # NoRow
                /\ states[l].obj \in Objects /\ states[l].version \in Nat /\ states[l].version # 0
           /\ \A l \in DOMAIN copy :
                l \in LocalIds /\ l # NoRow /\ copy[l].obj \in Objects /\ copy[l].version \in Nat
           /\ \A l \in DOMAIN states \cap DOMAIN copy : copy[l].obj = states[l].obj
  <1>1. TypeOK /\ LogFits /\ (\A l \in LocalIds : RowFits(l)) BY DEF SerialInv, IInv
  <1>2. Len(log) \in Nat /\ DOMAIN log = 1..Len(log) BY <1>1 DEF TypeOK
  <1>3. ASSUME NEW i \in DOMAIN log
        PROVE  /\ log[i].obj \in Objects /\ log[i].version \in Nat /\ log[i].version # 0
               /\ log[i].version <= server[log[i].obj].version
               /\ log[i].action \in {"upsert", "delete"} /\ log[i].mine \in BOOLEAN
    <2>1. log[i] \in Change BY <1>1 DEF TypeOK
    <2>2. log[i].obj \in Objects /\ log[i].version \in Nat
          /\ log[i].action \in {"upsert", "delete"} /\ log[i].mine \in BOOLEAN
      BY <2>1 DEF Change
    <2>3. server[log[i].obj].version \in Nat BY <1>1, <2>2 DEF TypeOK, ServerRow
    <2> QED BY <1>1, <2>2, <2>3 DEF LogFits
  <1>4. \A o \in Objects : server[o].version \in Nat /\ server[o].live \in BOOLEAN
    BY <1>1 DEF TypeOK, ServerRow
  <1>5. ASSUME NEW l \in DOMAIN states
        PROVE  /\ l \in LocalIds /\ l # NoRow
               /\ states[l].obj \in Objects /\ states[l].version \in Nat /\ states[l].version # 0
    <2>1. l \in LocalIds /\ states[l] \in State BY <1>1 DEF TypeOK, PartialMap
    <2> QED BY <1>1, <2>1 DEF State, RowFits, LocalIds, NoRow
  <1>6. ASSUME NEW l \in DOMAIN copy
        PROVE  l \in LocalIds /\ l # NoRow /\ copy[l].obj \in Objects /\ copy[l].version \in Nat
    <2>1. l \in LocalIds /\ copy[l] \in Copy BY <1>1 DEF TypeOK, PartialMap
    <2> QED BY <2>1 DEF Copy, LocalIds, NoRow
  <1>7. \A l \in DOMAIN states \cap DOMAIN copy : copy[l].obj = states[l].obj
    BY <1>1, <1>5 DEF RowFits
  <1> QED BY <1>2, <1>3, <1>4, <1>5, <1>6, <1>7

\* The pull that is under way is the only thing that is.
LEMMA PullAlone ==
    ASSUME SerialInv, NEW p \in Pulls, pc[p] # "idle"
    PROVE  /\ \A q \in Pulls \ {p} : pc[q] = "idle"
           /\ \A e \in Edits : stage[e] \in {"idle", "done"}
  <1>1. \A e \in Edits : ~Busy(e) BY DEF SerialInv, OneAtATime
  <1>2. \A e \in Edits : stage[e] \in {"idle", "open", "send", "local", "mark", "done"}
    BY DEF SerialInv, IInv, TypeOK
  <1> QED BY <1>1, <1>2 DEF SerialInv, OneAtATime, Busy

(* An edit under way is the only thing under way. *)
LEMMA EditAlone ==
    ASSUME SerialInv, NEW e \in Edits, stage[e] \notin {"idle", "done"}
    PROVE  /\ \A p \in Pulls : pc[p] = "idle"
           /\ \A d \in Edits \ {e} : stage[d] \in {"idle", "done"}
  <1>1. \A d \in Edits : stage[d] \in {"idle", "open", "send", "local", "mark", "done"}
    BY DEF SerialInv, IInv, TypeOK
  <1>2. Busy(e) BY <1>1 DEF Busy
  <1> QED BY <1>1, <1>2 DEF SerialInv, OneAtATime, Busy

\* What the device has of an object, and what is due of it, stays as it was.
LEMMA AgreesKept ==
    ASSUME NEW o \in Objects, Agrees(o), server'[o] = server[o],
           \A i \in DOMAIN log : i \in DOMAIN log' /\ log'[i] = log[i],
           \A i \in DOMAIN log' : log'[i].obj = o => i \in DOMAIN log,
           \A i \in DOMAIN log : log[i].obj = o => (Due(i)' <=> Due(i)) /\ (Known(i) => Known(i)'),
           \A l \in DOMAIN states' : states'[l].obj = o =>
              l \in DOMAIN states /\ states'[l] = states[l] /\ (Marking(l) => Marking(l)'),
           \A l \in DOMAIN copy : copy[l].obj = o => l \in DOMAIN copy' /\ copy'[l] = copy[l],
           \A l \in DOMAIN copy' : copy'[l].obj = o => l \in DOMAIN copy /\ copy'[l] = copy[l],
           \A e \in Edits : stage[e] = "local" => stage'[e] = "local" /\ form'[e] = form[e]
    PROVE  Agrees(o)'
  <1>1. CASE server[o].live
    <2>1. ASSUME NEW i \in DOMAIN log', log'[i].obj = o PROVE Known(i)' \/ Due(i)'
      <3>1. i \in DOMAIN log /\ log[i].obj = o BY <2>1
      <3>2. Known(i) \/ Due(i) BY <1>1, <3>1 DEF Agrees
      <3> QED BY <3>1, <3>2
    <2>2. ASSUME NEW l \in DOMAIN states', states'[l].obj = o
          PROVE  Marking(l)' \/ Shows(l, o, states[l].version)'
      <3>1. l \in DOMAIN states /\ states'[l] = states[l] /\ (Marking(l) => Marking(l)')
        BY <2>2
      <3>2. states[l].obj = o BY <2>2, <3>1
      <3>3. Marking(l) \/ Shows(l, o, states[l].version) BY <1>1, <3>1, <3>2 DEF Agrees
      <3>4. CASE Shows(l, o, states[l].version)
        <4>1. l \in DOMAIN copy /\ copy[l].obj = o BY <3>4 DEF Shows
        <4>2. l \in DOMAIN copy' /\ copy'[l] = copy[l] BY <4>1
        <4> QED BY <3>1, <3>4, <4>2 DEF Shows
      <3> QED BY <3>1, <3>3, <3>4
    <2> QED BY <1>1, <2>1, <2>2 DEF Agrees
  <1>2. CASE ~server[o].live /\ Doomed(o)
    <2>1. PICK d \in DOMAIN log : log[d].obj = o /\ log[d].action = "delete" /\ Due(d)
      BY <1>2 DEF Doomed
    <2>2. Due(d)' BY <2>1
    <2>3. Doomed(o)' BY <2>1, <2>2 DEF Doomed
    <2> QED BY <1>2, <2>3 DEF Agrees
  <1>3. CASE ~server[o].live /\ ~Doomed(o)
    <2>1. ASSUME NEW i \in DOMAIN log', log'[i].obj = o, Due(i)' PROVE Known(i)'
      <3>1. i \in DOMAIN log /\ log[i].obj = o BY <2>1
      <3>2. Due(i) BY <2>1, <3>1
      <3>3. Known(i) BY <1>3, <3>1, <3>2 DEF Agrees
      <3> QED BY <3>1, <3>3
    <2>2. ASSUME NEW l \in DOMAIN copy', copy'[l].obj = o
          PROVE  \E e \in Edits : /\ stage'[e] = "local" /\ form'[e].kind = "delete"
                                  /\ form'[e].local = l
      <3>1. l \in DOMAIN copy /\ copy'[l] = copy[l] BY <2>2
      <3>2. copy[l].obj = o BY <2>2, <3>1
      <3>3. PICK e \in Edits : /\ stage[e] = "local" /\ form[e].kind = "delete"
                               /\ form[e].local = l
        BY <1>3, <3>1, <3>2 DEF Agrees
      <3>4. stage'[e] = "local" /\ form'[e] = form[e] BY <3>3
      <3> QED BY <3>3, <3>4
    <2> QED BY <1>3, <2>1, <2>2 DEF Agrees
  <1> QED BY <1>1, <1>2, <1>3

\* A step of the pull that is under way leaves the log, the other pulls and the edits alone.
LEMMA PullSteps ==
    ASSUME Mirroring, NEW p \in Pulls,
           UNCHANGED <<log, server, editing>>,
           \A q \in Pulls \ {p} : /\ pc[q] = "idle" /\ pc'[q] = "idle"
                                  /\ page'[q] = page[q] /\ failed'[q] = failed[q],
           \A e \in Edits : stage[e] \in {"idle", "done"},
           PullHolds(p)', OneRow', \A o \in Objects : Agrees(o)'
    PROVE  Mirroring'
  <1>1. LogTells' BY DEF Mirroring, LogTells
  <1>2. ASSUME NEW q \in Pulls PROVE PullHolds(q)'
    <2>1. CASE q = p BY <2>1
    <2>2. CASE q # p
      <3>1. PullHolds(q) BY DEF Mirroring
      <3>2. /\ pc[q] = "idle" /\ pc'[q] = "idle"
            /\ page'[q] = page[q] /\ failed'[q] = failed[q]
        BY <2>2
      <3> QED BY <3>1, <3>2 DEF PullHolds
    <2> QED BY <2>1, <2>2
  <1>3. \A e \in Edits : EditHolds(e)' BY DEF EditHolds
  <1> QED BY <1>1, <1>2, <1>3 DEF Mirroring

\* A step of a pull that writes no row and finishes no change keeps what is due due.
LEMMA PullRests ==
    ASSUME SerialInv, Mirroring, NEW p \in Pulls,
           UNCHANGED <<log, server, copy, states, editing>>,
           \A q \in Pulls \ {p} : /\ pc[q] = "idle" /\ pc'[q] = "idle"
                                  /\ page'[q] = page[q] /\ failed'[q] = failed[q],
           \A e \in Edits : stage[e] \in {"idle", "done"},
           pc[p] # "mark", pc'[p] # "mark",
           \A i \in DOMAIN log : Due(i)' <=> Due(i),
           PullHolds(p)'
    PROVE  Mirroring'
  <1>1. ASSUME NEW l PROVE ~Marking(l) /\ ~Marking(l)'
    BY DEF Marking
  <1>2. OneRow'
    BY <1>1 DEF Mirroring, OneRow
  <1>3. \A i \in DOMAIN log : Known(i) => Known(i)' BY DEF Known
  <1>4. ASSUME NEW o \in Objects PROVE Agrees(o)'
    <2>1. Agrees(o) BY DEF Mirroring
    <2> QED BY <1>1, <1>3, <2>1, AgreesKept
  <1> QED BY <1>2, <1>4, PullSteps

\* A pull starts at the saved cursor.
LEMMA StartPullMirror ==
    ASSUME SerialInv, Mirroring, Concurrent = FALSE, NEW p \in Pulls, StartPull(p)
    PROVE  Mirroring'
  <1>1. /\ \A q \in Pulls : pc[q] = "idle"
        /\ \A e \in Edits : stage[e] \in {"idle", "done"}
    BY DEF StartPull, MayStart, Quiet
  <1>2. /\ pc' = [pc EXCEPT ![p] = "fetch"] /\ at' = [at EXCEPT ![p] = cursor]
        /\ UNCHANGED <<log, server, database, page, next, full, now, found, failed, editing>>
    BY DEF StartPull
  <1>3. /\ pc'[p] = "fetch" /\ at'[p] = cursor
        /\ \A q \in Pulls \ {p} : pc'[q] = "idle"
    BY <1>1, <1>2 DEF SerialInv, IInv, TypeOK
  <1>4. PullHolds(p)'
    <2>1. PullHolds(p) BY DEF Mirroring
    <2> QED BY <1>1, <1>2, <1>3, <2>1 DEF PullHolds
  <1>5. ASSUME NEW i \in DOMAIN log PROVE Due(i)' <=> Due(i)
    BY <1>1, <1>2, <1>3 DEF Due
  <1> QED BY <1>1, <1>2, <1>3, <1>4, <1>5, PullRests

\* Everything due is in the page that was fetched, or above its nextCursor.
LEMMA FetchMirror ==
    ASSUME SerialInv, Mirroring, NEW p \in Pulls, Fetch(p)
    PROVE  Mirroring'
  <1>1. /\ pc[p] = "fetch"
        /\ \A q \in Pulls \ {p} : pc[q] = "idle"
        /\ \A e \in Edits : stage[e] \in {"idle", "done"}
    BY PullAlone DEF Fetch
  <1>2. TypeOK /\ at[p] \in Nat /\ cursor \in Nat BY DEF SerialInv, IInv, TypeOK
  <1>3. /\ pc' = [pc EXCEPT ![p] = "read"] /\ page' = [page EXCEPT ![p] = Page(at[p])]
        /\ failed' = [failed EXCEPT ![p] = FALSE]
        /\ UNCHANGED <<log, server, database, at, now, found, editing>>
    BY DEF Fetch
  <1>4. /\ pc'[p] = "read" /\ page'[p] = Page(at[p]) /\ failed'[p] = FALSE
        /\ \A q \in Pulls \ {p} : pc'[q] = "idle" /\ page'[q] = page[q] /\ failed'[q] = failed[q]
    BY <1>1, <1>2, <1>3 DEF TypeOK
  <1>5. /\ Page(at[p]) \subseteq Theirs(at[p])
        /\ \A last \in Page(at[p]), i \in Theirs(at[p]) : i <= last => i \in Page(at[p])
    BY <1>2, PageIsLowest
  <1>6. \/ Page(at[p]) = {} /\ next'[p] = at[p]
        \/ next'[p] \in Page(at[p])
    BY <1>2 DEF Fetch, TypeOK
  <1>7. Theirs(at[p]) = {i \in DOMAIN log : i > at[p] /\ ~log[i].mine} BY DEF Theirs
  <1>8. PullHolds(p) BY DEF Mirroring
  <1>9. at[p] = cursor BY <1>1, <1>8 DEF PullHolds
  <1>10. DOMAIN log \subseteq Nat BY SerialTypes
  <1>11. at[p] <= next'[p] /\ next'[p] \in Nat BY <1>2, <1>5, <1>6, <1>7, <1>10
  <1>12. \A j \in Page(at[p]) : ~log[j].mine /\ j > cursor BY <1>5, <1>7, <1>9
  <1>13. PullHolds(p)' BY <1>3, <1>4, <1>9, <1>11, <1>12 DEF PullHolds
  <1>14. ASSUME NEW i \in DOMAIN log PROVE Due(i)' <=> Due(i)
    <2>1. i \in Nat BY <1>10
    <2>2. Due(i) <=> ~log[i].mine /\ i > at[p]
      BY <1>1, <1>9 DEF Due
    <2>3. Due(i)' <=> ~log[i].mine /\ i > at[p] /\ (i > next'[p] \/ i \in Page(at[p]))
      BY <1>1, <1>3, <1>4, <1>9 DEF Due
    <2>4. ~log[i].mine /\ i > at[p] => i > next'[p] \/ i \in Page(at[p])
      BY <1>2, <1>5, <1>6, <1>7, <1>11, <2>1
    <2> QED BY <2>2, <2>3, <2>4
  <1> QED BY <1>1, <1>3, <1>4, <1>13, <1>14, PullRests

\* A page that is empty, acknowledged and saved leaves what is above its nextCursor.
LEMMA PageEndsMirror ==
    ASSUME SerialInv, Mirroring, NEW p \in Pulls, EndPage(p) \/ Ack(p) \/ SaveCursor(p)
    PROVE  Mirroring'
  <1>1. /\ pc[p] \in {"read", "ack", "save"}
        /\ \A q \in Pulls \ {p} : pc[q] = "idle"
        /\ \A e \in Edits : stage[e] \in {"idle", "done"}
    BY PullAlone DEF EndPage, Ack, SaveCursor
  <1>2. /\ TypeOK /\ at[p] \in Nat /\ cursor \in Nat /\ next[p] \in Nat
        /\ DOMAIN log \subseteq Nat
    BY SerialTypes DEF SerialInv, IInv, TypeOK
  <1>3. PullHolds(p) BY DEF Mirroring
  <1>4. ~failed[p] /\ at[p] = cursor /\ at[p] <= next[p] /\ page[p] = {}
    BY <1>1, <1>3 DEF PullHolds, EndPage, Ack, SaveCursor
  <1>5. UNCHANGED <<log, server, copy, states, editing>>
    BY DEF EndPage, Ack, SaveCursor
  <1>6. PICK step \in {"idle", "fetch", "ack", "save"} : pc' = [pc EXCEPT ![p] = step]
    BY DEF EndPage, Ack, SaveCursor, Leave
  <1>7. pc'[p] = step /\ \A q \in Pulls \ {p} : pc'[q] = "idle"
    BY <1>1, <1>2, <1>6 DEF TypeOK
  <1>8. page'[p] = {} /\ ~failed'[p]
    BY <1>2, <1>4 DEF TypeOK, EndPage, Ack, SaveCursor, Leave
  <1>9. \A q \in Pulls \ {p} : page'[q] = page[q] /\ failed'[q] = failed[q]
    BY <1>2 DEF TypeOK, EndPage, Ack, SaveCursor, Leave
  <1>10. \/ step \in {"ack", "save"} /\ cursor' = cursor /\ at'[p] = at[p] /\ next'[p] = next[p]
         \/ step = "fetch" /\ cursor' = next[p] /\ at'[p] = next[p]
         \/ step = "idle" /\ cursor' = next[p]
    <2>1. CASE EndPage(p)
      <3>1. pc' = [pc EXCEPT ![p] = "ack"] /\ UNCHANGED <<database, at, next>>
        BY <1>4, <2>1 DEF EndPage, MayAck
      <3>2. step = "ack" BY <1>2, <1>7, <3>1 DEF TypeOK
      <3> QED BY <3>1, <3>2
    <2>2. CASE Ack(p)
      <3>1. pc' = [pc EXCEPT ![p] = "save"] /\ UNCHANGED <<database, at, next>>
        BY <2>2 DEF Ack
      <3>2. step = "save" BY <1>2, <1>7, <3>1 DEF TypeOK
      <3> QED BY <3>1, <3>2
    <2>3. CASE SaveCursor(p)
      <3>1. cursor' = next[p] BY <2>3 DEF SaveCursor, SavedCursor
      <3>2. \/ pc' = [pc EXCEPT ![p] = "fetch"] /\ at' = [at EXCEPT ![p] = next[p]]
            \/ pc' = [pc EXCEPT ![p] = "idle"]
        BY <2>3 DEF SaveCursor, Leave
      <3>3. \/ step = "fetch" /\ at'[p] = next[p]
            \/ step = "idle"
        BY <1>2, <1>7, <3>2 DEF TypeOK
      <3> QED BY <3>1, <3>3
    <2> QED BY <2>1, <2>2, <2>3
  <1>11. PullHolds(p)' BY <1>4, <1>7, <1>8, <1>10 DEF PullHolds
  <1>12. ASSUME NEW i \in DOMAIN log PROVE Due(i)' <=> Due(i)
    <2>1. i \in Nat BY <1>2
    <2>2. Due(i) <=> ~log[i].mine /\ i > next[p]
      BY <1>1, <1>2, <1>4, <2>1 DEF Due
    <2>3. Due(i)' <=> ~log[i].mine /\ i > next[p]
      BY <1>1, <1>2, <1>4, <1>5, <1>7, <1>8, <1>10, <2>1 DEF Due
    <2> QED BY <2>2, <2>3
  <1>13. pc[p] # "mark" /\ pc'[p] # "mark" BY <1>1, <1>7
  <1> QED BY <1>1, <1>5, <1>7, <1>9, <1>11, <1>12, <1>13, PullRests

\* A change that is dealt with is due no more, unless the page it came in went beyond its
\* nextCursor; of the other objects nothing has changed.
LEMMA ReturnMirror ==
    ASSUME SerialInv, Mirroring, NEW p \in Pulls, NEW i \in page[p],
           pc[p] \in {"read", "delete", "forget", "upsert", "mark"},
           pc[p] = "mark" => i = now[p],
           Return(p, i), UNCHANGED <<log, server, cursor, at, next, failed, editing>>,
           \A l \in DOMAIN states : states[l].obj # log[i].obj =>
              l \in DOMAIN states' /\ states'[l] = states[l],
           \A l \in DOMAIN states' : states'[l].obj # log[i].obj =>
              l \in DOMAIN states /\ states'[l] = states[l],
           \A l \in DOMAIN copy : copy[l].obj # log[i].obj =>
              l \in DOMAIN copy' /\ copy'[l] = copy[l],
           \A l \in DOMAIN copy' : copy'[l].obj # log[i].obj =>
              l \in DOMAIN copy /\ copy'[l] = copy[l],
           OneRow',
           (\A j \in DOMAIN log : Due(j)' <=> Due(j) /\ (j # i \/ i > next[p]))
              => Agrees(log[i].obj)'
    PROVE  Mirroring'
  <1>1. /\ pc[p] # "idle"
        /\ \A q \in Pulls \ {p} : pc[q] = "idle"
        /\ \A e \in Edits : stage[e] \in {"idle", "done"}
    BY PullAlone
  <1>2. /\ TypeOK /\ next[p] \in Nat /\ i \in DOMAIN log /\ DOMAIN log \subseteq Nat
    BY SerialTypes DEF SerialInv, IInv, TypeOK, StepsKnow
  <1>3. PullHolds(p) BY DEF Mirroring
  <1>4. /\ pc'[p] = "read" /\ page'[p] = page[p] \ {i}
        /\ \A q \in Pulls \ {p} : pc'[q] = "idle" /\ page'[q] = page[q] /\ failed'[q] = failed[q]
    BY <1>1, <1>2 DEF Return, TypeOK
  <1>5. PullHolds(p)' BY <1>1, <1>3, <1>4 DEF PullHolds
  <1>6. ASSUME NEW j \in DOMAIN log PROVE Due(j)' <=> Due(j) /\ (j # i \/ i > next[p])
    <2>1. Due(j) <=> ~log[j].mine /\ j > cursor /\ (j > next[p] \/ j \in page[p])
      BY <1>1 DEF Due
    <2>2. Due(j)' <=> ~log[j].mine /\ j > cursor /\ (j > next[p] \/ j \in page[p] \ {i})
      BY <1>1, <1>4 DEF Due
    <2> QED BY <2>1, <2>2
  <1>7. ASSUME NEW o \in Objects, o # log[i].obj PROVE Agrees(o)'
    <2>1. Agrees(o) BY DEF Mirroring
    <2>2. ASSUME NEW j \in DOMAIN log, log[j].obj = o
          PROVE  (Due(j)' <=> Due(j)) /\ (Known(j) => Known(j)')
      <3>1. j # i BY <1>7, <2>2
      <3>2. Known(j) => Known(j)'
        <4>1. SUFFICES ASSUME Known(j) PROVE Known(j)' OBVIOUS
        <4>2. PICK l \in DOMAIN states : states[l].obj = log[j].obj
                                         /\ log[j].version <= states[l].version
          BY <1>1, <4>1 DEF Known
        <4>3. l \in DOMAIN states' /\ states'[l] = states[l] BY <1>7, <2>2, <4>2
        <4> QED BY <4>2, <4>3 DEF Known
      <3> QED BY <1>6, <3>1, <3>2
    <2>3. ASSUME NEW l \in DOMAIN states', states'[l].obj = o
          PROVE  l \in DOMAIN states /\ states'[l] = states[l] /\ (Marking(l) => Marking(l)')
      <3>1. l \in DOMAIN states /\ states'[l] = states[l] BY <1>7, <2>3
      <3>2. ~Marking(l)
        <4>1. SUFFICES ASSUME Marking(l) PROVE FALSE OBVIOUS
        <4>2. pc[p] = "mark" /\ found[p] = l BY <1>1, <4>1 DEF Marking
        <4>3. states[l].obj = log[i].obj BY <1>3, <3>1, <4>2 DEF PullHolds
        <4> QED BY <1>7, <2>3, <3>1, <4>3
      <3> QED BY <3>1, <3>2
    <2>4. \A l \in DOMAIN copy : copy[l].obj = o => l \in DOMAIN copy' /\ copy'[l] = copy[l]
      BY <1>7
    <2>5. \A l \in DOMAIN copy' : copy'[l].obj = o => l \in DOMAIN copy /\ copy'[l] = copy[l]
      BY <1>7
    <2>6. \A e \in Edits : stage[e] = "local" => stage'[e] = "local" /\ form'[e] = form[e]
      OBVIOUS
    <2> QED BY <2>1, <2>2, <2>3, <2>4, <2>5, <2>6, AgreesKept
  <1>8. \A o \in Objects : Agrees(o)' BY <1>6, <1>7
  <1> QED BY <1>1, <1>4, <1>5, <1>8, PullSteps

\* A change of a page is known when it is old, and nothing is left of an object whose
\* deletion finds no state.  A change that is examined is the first of its object.
LEMMA ReadStateMirror ==
    ASSUME SerialInv, Mirroring, OneLength, NEW p \in Pulls, NEW i \in page[p],
           NEW l \in LocalIds \cup {NoRow}, ReadState(p, i, l)
    PROVE  Mirroring'
  <1> DEFINE o == log[i].obj
  <1>1. /\ pc[p] = "read"
        /\ \A q \in Pulls \ {p} : pc[q] = "idle"
        /\ \A e \in Edits : stage[e] \in {"idle", "done"}
    BY PullAlone DEF ReadState
  <1>2. /\ TypeOK /\ page[p] \subseteq DOMAIN log /\ i \in DOMAIN log /\ i \in Nat
        /\ DOMAIN log \subseteq Nat /\ o \in Objects
    BY SerialTypes DEF SerialInv, IInv, TypeOK, StepsKnow
  <1>3. /\ UNCHANGED <<log, server, database, at, next, full, failed, editing, faults>>
        /\ \A j \in page[p] \ {i} : AppliedBefore(i, j)
    BY DEF ReadState
  <1>4. PullHolds(p) /\ OneRow /\ Agrees(o) BY <1>2 DEF Mirroring
  <1>5. ASSUME NEW j \in page[p], log[j].obj = o PROVE i <= j
    <2>1. CASE j = i BY <1>2, <2>1
    <2>2. CASE j # i
      <3>1. StringBefore(Digits(ChangeId(i)), Digits(ChangeId(j)))
        <4>1. AppliedBefore(i, j) BY <1>3, <2>2
        <4>2. ClientPriority[o] \in Nat BY <1>2, TypesAssumption
        <4> QED BY <1>5, <4>1, <4>2 DEF AppliedBefore
      <3>2. i \in 1..MaxChanges /\ j \in 1..MaxChanges
        <4>1. Len(log) <= MaxChanges /\ DOMAIN log = 1..Len(log) /\ Len(log) \in Nat
          BY SerialTypes DEF Mirroring, LogTells
        <4> QED BY <1>2, <4>1, BoundsAssumption
      <3>3. i < j BY <3>1, <3>2, IdsInOrder
      <3> QED BY <1>2, <3>3
    <2> QED BY <2>1, <2>2
  <1>6. ASSUME NEW m PROVE ~Marking(m) /\ (pc'[p] # "mark" => ~Marking(m)')
    <2>1. PICK step : pc' = [pc EXCEPT ![p] = step] BY DEF ReadState, Handle, Return, Examine
    <2>2. pc'[p] # "mark" => \A q \in Pulls : pc'[q] # "mark" BY <1>1, <1>2, <2>1 DEF TypeOK
    <2> QED BY <1>1, <1>3, <2>2 DEF Marking
  <1>7. l # NoRow => l \in DOMAIN states /\ states[l].obj = o
    BY DEF ReadState
  <1>8. l = NoRow => NoneOf(o)
    <2>1. SUFFICES ASSUME l = NoRow PROVE NoneOf(o) OBVIOUS
    <2>2. \A m \in DOMAIN states : m # NoRow BY SerialTypes
    <2>3. \A m \in DOMAIN states : states[m].obj # o BY <2>1, <2>2 DEF ReadState
    <2>4. \A m \in DOMAIN copy : m \in DOMAIN states /\ copy[m].obj = states[m].obj
      BY <1>4, <1>6, SerialTypes DEF OneRow
    <2> QED BY <2>3, <2>4 DEF NoneOf
  <1>9. CASE Handle(p, i)
    <2>1. Return(p, i) BY <1>9 DEF Handle
    <2>2. pc'[p] = "read" BY <1>2, <2>1 DEF Return, TypeOK
    <2>3. OneRow' BY <1>3, <1>4, <1>6, <2>2 DEF OneRow
    <2>4. ASSUME \A j \in DOMAIN log : Due(j)' <=> Due(j) /\ (j # i \/ i > next[p])
          PROVE  Agrees(o)'
      <3>1. CASE Known(i) /\ log[i].action = "upsert"
        <4>1. \A j \in DOMAIN log : Known(j)' <=> Known(j) BY <1>3 DEF Known
        <4>2. Doomed(o) => Doomed(o)'
          BY <1>3, <2>4, <3>1 DEF Doomed
        <4>3. \A j \in DOMAIN log : /\ Due(j)' => Due(j)
                                    /\ Due(j) => Due(j)' \/ Known(j)
          BY <2>4, <3>1
        <4> QED BY <1>1, <1>3, <1>4, <1>6, <4>1, <4>2, <4>3 DEF Agrees, Shows
      <3>2. CASE log[i].action = "delete" /\ NoneOf(o)
        <4>1. ~server[o].live /\ log[i].version = server[o].version
          BY <1>2, <3>2 DEF Mirroring, LogTells
        <4>2. CASE i > next[p]
          <5>1. \A j \in DOMAIN log : Due(j)' <=> Due(j) BY <2>4, <4>2
          <5>2. Due(i)
            <6>1. ~log[i].mine BY <1>4 DEF PullHolds
            <6>2. i > cursor
              <7>1. cursor = at[p] /\ at[p] <= next[p] BY <1>1, <1>4 DEF PullHolds
              <7> QED BY <1>2, <4>2, <7>1 DEF TypeOK
            <6> QED BY <1>1, <6>1, <6>2 DEF Due
          <5>3. Doomed(o)' BY <1>2, <1>3, <3>2, <5>1, <5>2 DEF Doomed
          <5> QED BY <1>3, <4>1, <5>3 DEF Agrees
        <4>3. CASE ~(i > next[p])
          <5>1. ASSUME NEW j \in DOMAIN log, log[j].obj = o, Due(j)' PROVE FALSE
            <6>1. Due(j) /\ j # i BY <2>4, <4>3, <5>1
            <6>2. j > next[p] \/ j \in page[p] BY <1>1, <6>1 DEF Due
            <6>3. j > i
              <7>1. CASE j \in page[p] BY <1>2, <1>5, <5>1, <6>1, <7>1
              <7>2. CASE j > next[p] BY <1>2, <4>3, <7>2 DEF TypeOK
              <7> QED BY <6>2, <7>1, <7>2
            <6>4. log[i].version < log[j].version
              BY <1>2, <5>1, <6>3 DEF Mirroring, LogTells
            <6>5. log[j].version <= server[o].version /\ log[j].version \in Nat
                  /\ server[o].version \in Nat
              BY <1>2, <5>1, SerialTypes
            <6> QED BY <4>1, <6>4, <6>5
          <5>2. \A m \in DOMAIN copy' : copy'[m].obj # o BY <1>3, <3>2 DEF NoneOf
          <5> QED BY <1>3, <4>1, <5>1, <5>2 DEF Agrees
        <4> QED BY <4>2, <4>3
      <3>3. log[i].action \in {"upsert", "delete"} BY <1>2, SerialTypes
      <3>4. CASE log[i].action = "upsert"
        <4>1. IsOld(i, l) BY <1>1, <1>2, <1>9, <2>2, <3>4 DEF ReadState, Examine, TypeOK
        <4>2. Known(i) BY <1>7, <4>1 DEF IsOld, Known
        <4> QED BY <3>1, <3>4, <4>2
      <3>5. CASE log[i].action = "delete"
        <4>1. l = NoRow BY <1>1, <1>2, <1>9, <2>2, <3>5 DEF ReadState, Examine, TypeOK
        <4> QED BY <1>8, <3>2, <3>5, <4>1
      <3> QED BY <3>3, <3>4, <3>5
    <2> QED BY <1>1, <1>3, <2>1, <2>3, <2>4, ReturnMirror
  <1>10. ASSUME NEW step \in {"upsert", "delete"}, Examine(p, i, l, step),
                log[i].action = "upsert" <=> step = "upsert",
                step = "delete" => l # NoRow
         PROVE  Mirroring'
    <2>1. /\ pc'[p] = step /\ now'[p] = i /\ found'[p] = l /\ UNCHANGED page
          /\ \A q \in Pulls \ {p} : pc'[q] = "idle"
      BY <1>1, <1>2, <1>10 DEF Examine, TypeOK
    <2>2. NoneOf(o) => NoneOf(o)' BY <1>3 DEF NoneOf
    <2>3. PullHolds(p)' BY <1>1, <1>3, <1>4, <1>5, <1>7, <1>8, <1>10, <2>1, <2>2 DEF PullHolds
    <2>4. ASSUME NEW j \in DOMAIN log PROVE Due(j)' <=> Due(j)
      BY <1>1, <1>3, <2>1 DEF Due
    <2> QED BY <1>1, <1>3, <2>1, <2>3, <2>4, PullRests
  <1>11. log[i].action \in {"upsert", "delete"} BY <1>2, SerialTypes
  <1> QED BY <1>9, <1>10, <1>11 DEF ReadState

\* While a deletion is applied it stays due, whatever is left of its object.
LEMMA DeleteCopyMirror ==
    ASSUME SerialInv, Mirroring, NEW p \in Pulls, DeleteCopy(p)
    PROVE  Mirroring'
  <1>0. PICK i, o, l : i = now[p] /\ o = log[i].obj /\ l = found[p] OBVIOUS
  <1>1. /\ pc[p] = "delete"
        /\ \A q \in Pulls \ {p} : pc[q] = "idle"
        /\ \A e \in Edits : stage[e] \in {"idle", "done"}
    BY PullAlone DEF DeleteCopy
  <1>2. /\ pc' = [pc EXCEPT ![p] = "forget"] /\ copy' = Remove(copy, l)
        /\ UNCHANGED <<log, server, states, cursor, at, page, next, full, now, found, failed,
                       editing>>
    BY <1>0 DEF DeleteCopy
  <1>3. pc'[p] = "forget" /\ \A q \in Pulls \ {p} : pc'[q] = "idle"
    BY <1>1, <1>2 DEF SerialInv, IInv, TypeOK
  <1>4. PullHolds(p) /\ OneRow BY DEF Mirroring
  <1>5. i \in DOMAIN log /\ o \in Objects /\ log[i].obj = o
    <2>1. i \in DOMAIN log BY <1>0, <1>1 DEF SerialInv, IInv, StepsKnow
    <2> QED BY <1>0, <2>1, SerialTypes
  <1>6. i \in page[p] /\ log[i].action = "delete" /\ l \in DOMAIN states /\ states[l].obj = o
    <2>1. log[i].action \in {"upsert", "delete"} BY <1>5, SerialTypes
    <2> QED BY <1>0, <1>1, <1>4, <2>1 DEF PullHolds
  <1>7. /\ DOMAIN copy' = DOMAIN copy \ {l}
        /\ \A m \in DOMAIN copy' : copy'[m] = copy[m]
    BY <1>2 DEF Remove
  <1>8. ASSUME NEW m PROVE ~Marking(m) /\ ~Marking(m)'
    BY <1>1, <1>2, <1>3 DEF Marking
  <1>9. PullHolds(p)'
    BY <1>0, <1>1, <1>2, <1>3, <1>4, <1>7 DEF PullHolds
  <1>10. OneRow' BY <1>2, <1>4, <1>7, <1>8 DEF OneRow
  <1>11. ASSUME NEW j \in DOMAIN log PROVE Due(j)' <=> Due(j)
    BY <1>1, <1>2, <1>3 DEF Due
  <1>12. \A j : Known(j)' <=> Known(j) BY <1>2 DEF Known
  <1>13. Agrees(o)'
    <2>1. Agrees(o) BY <1>5 DEF Mirroring
    <2>2. ~server[o].live BY <1>5, <1>6 DEF Mirroring, LogTells
    <2>3. CASE Doomed(o)
      <3>1. Doomed(o)' BY <1>2, <1>11, <2>3 DEF Doomed
      <3> QED BY <1>2, <2>2, <3>1 DEF Agrees
    <2>4. CASE ~Doomed(o)
      <3>1. \A m \in DOMAIN copy' : m \in DOMAIN copy /\ copy'[m] = copy[m] BY <1>7
      <3> QED BY <1>2, <1>11, <1>12, <2>1, <2>2, <2>4, <3>1 DEF Agrees
    <2> QED BY <2>3, <2>4
  <1>14. ASSUME NEW x \in Objects, x # o PROVE Agrees(x)'
    <2>1. Agrees(x) BY DEF Mirroring
    <2>2. \A m \in DOMAIN copy : copy[m].obj = x => m # l
      BY <1>6, <1>14, SerialTypes
    <2>3. \A m \in DOMAIN copy : copy[m].obj = x => m \in DOMAIN copy' /\ copy'[m] = copy[m]
      BY <1>7, <2>2
    <2>4. \A m \in DOMAIN copy' : copy'[m].obj = x => m \in DOMAIN copy /\ copy'[m] = copy[m]
      BY <1>7
    <2>5. UNCHANGED <<log, server, states, editing>> BY <1>2
    <2> QED BY <1>8, <1>11, <1>12, <2>1, <2>3, <2>4, <2>5, AgreesKept
  <1> QED BY <1>1, <1>2, <1>3, <1>9, <1>10, <1>13, <1>14, PullSteps

\* With its state gone nothing is left of the object, and nothing older is due of it.
LEMMA RemoveStateMirror ==
    ASSUME SerialInv, Mirroring, NEW p \in Pulls, RemoveState(p)
    PROVE  Mirroring'
  <1>0. PICK i, o, l : i = now[p] /\ o = log[i].obj /\ l = found[p] OBVIOUS
  <1>1. /\ pc[p] = "forget"
        /\ \A q \in Pulls \ {p} : pc[q] = "idle"
        /\ \A e \in Edits : stage[e] \in {"idle", "done"}
    BY PullAlone DEF RemoveState
  <1>2. /\ Return(p, i) /\ states' = Remove(states, l)
        /\ UNCHANGED <<log, server, copy, cursor, at, next, full, failed, editing>>
    BY <1>0 DEF RemoveState, Handle
  <1>3. pc'[p] = "read" /\ \A q \in Pulls \ {p} : pc'[q] = "idle"
    BY <1>1, <1>2 DEF SerialInv, IInv, TypeOK, Return
  <1>4. PullHolds(p) /\ OneRow BY DEF Mirroring
  <1>5. i \in DOMAIN log /\ o \in Objects /\ log[i].obj = o
    <2>1. i \in DOMAIN log BY <1>0, <1>1 DEF SerialInv, IInv, StepsKnow
    <2> QED BY <1>0, <2>1, SerialTypes
  <1>6. /\ i \in page[p] /\ log[i].action = "delete" /\ l \in DOMAIN states
        /\ states[l].obj = o /\ l \notin DOMAIN copy
        /\ \A j \in page[p] : log[j].obj = o => i <= j
    <2>1. log[i].action \in {"upsert", "delete"} BY <1>5, SerialTypes
    <2> QED BY <1>0, <1>1, <1>4, <2>1 DEF PullHolds
  <1>7. /\ DOMAIN states' = DOMAIN states \ {l}
        /\ \A m \in DOMAIN states' : states'[m] = states[m]
    BY <1>2 DEF Remove
  <1>8. ASSUME NEW m PROVE ~Marking(m) /\ ~Marking(m)'
    BY <1>1, <1>2, <1>3 DEF Marking
  <1>9. OneRow' BY <1>2, <1>4, <1>6, <1>7, <1>8 DEF OneRow
  <1>10. \A m \in DOMAIN copy : copy[m].obj # o
    <2> SUFFICES ASSUME NEW m \in DOMAIN copy, copy[m].obj = o PROVE FALSE OBVIOUS
    <2>1. m = l BY <1>4, <1>6 DEF OneRow
    <2> QED BY <1>6, <2>1
  <1>11. ASSUME \A j \in DOMAIN log : Due(j)' <=> Due(j) /\ (j # i \/ i > next[p])
         PROVE  Agrees(o)'
    <2>1. ~server[o].live /\ log[i].version = server[o].version
      BY <1>5, <1>6 DEF Mirroring, LogTells
    <2>2. /\ next[p] \in Nat /\ at[p] \in Nat /\ cursor \in Nat /\ i \in Nat
          /\ DOMAIN log \subseteq Nat
      BY <1>5, SerialTypes DEF SerialInv, IInv, TypeOK
    <2>3. CASE i > next[p]
      <3>1. \A j \in DOMAIN log : Due(j)' <=> Due(j) BY <1>11, <2>3
      <3>2. Due(i)
        <4>1. ~log[i].mine BY <1>4, <1>6 DEF PullHolds
        <4>2. cursor = at[p] /\ at[p] <= next[p] BY <1>1, <1>4 DEF PullHolds
        <4>3. i > cursor BY <2>2, <2>3, <4>2
        <4> QED BY <1>1, <1>6, <4>1, <4>3 DEF Due
      <3>3. Doomed(o)' BY <1>2, <1>5, <1>6, <3>1, <3>2 DEF Doomed
      <3> QED BY <1>2, <2>1, <3>3 DEF Agrees
    <2>4. CASE ~(i > next[p])
      <3>1. ASSUME NEW j \in DOMAIN log, log[j].obj = o, Due(j)' PROVE FALSE
        <4>1. Due(j) /\ j # i BY <1>11, <2>4, <3>1
        <4>2. j > next[p] \/ j \in page[p] BY <1>1, <4>1 DEF Due
        <4>3. j > i
          <5>1. CASE j \in page[p] BY <1>6, <2>2, <3>1, <4>1, <5>1
          <5>2. CASE j > next[p] BY <2>2, <2>4, <5>2
          <5> QED BY <4>2, <5>1, <5>2
        <4>4. log[i].version < log[j].version
          BY <1>5, <3>1, <4>3 DEF Mirroring, LogTells
        <4>5. log[j].version <= server[o].version /\ log[j].version \in Nat
              /\ server[o].version \in Nat
          BY <1>5, <3>1, SerialTypes
        <4> QED BY <2>1, <4>4, <4>5
      <3> QED BY <1>2, <1>10, <2>1, <3>1 DEF Agrees
    <2> QED BY <2>3, <2>4
  <1>12. /\ \A m \in DOMAIN states : states[m].obj # o => m \in DOMAIN states' /\ states'[m] = states[m]
         /\ \A m \in DOMAIN states' : m \in DOMAIN states /\ states'[m] = states[m]
    BY <1>6, <1>7
  <1> QED BY <1>1, <1>2, <1>5, <1>6, <1>9, <1>11, <1>12, ReturnMirror

\* A newer version is written into the row of its object, or into the first one.
LEMMA UpsertCopyMirror ==
    ASSUME SerialInv, Mirroring, NEW p \in Pulls, UpsertCopy(p)
    PROVE  Mirroring'
  <1>0. PICK i, o, v : i = now[p] /\ o = log[i].obj /\ v = log[i].version OBVIOUS
  <1>1. /\ pc[p] = "upsert"
        /\ \A q \in Pulls \ {p} : pc[q] = "idle"
        /\ \A e \in Edits : stage[e] \in {"idle", "done"}
    BY PullAlone DEF UpsertCopy
  <1>2. /\ pc' = [pc EXCEPT ![p] = "mark"]
        /\ UNCHANGED <<log, server, states, cursor, at, page, next, full, now, failed, editing>>
    BY DEF UpsertCopy
  <1>3. pc'[p] = "mark" /\ \A q \in Pulls \ {p} : pc'[q] = "idle"
    BY <1>1, <1>2 DEF SerialInv, IInv, TypeOK
  <1>4. PullHolds(p) /\ OneRow BY DEF Mirroring
  <1>5. i \in DOMAIN log /\ o \in Objects /\ log[i].obj = o /\ log[i].version = v
    <2>1. i \in DOMAIN log BY <1>0, <1>1 DEF SerialInv, IInv, StepsKnow
    <2> QED BY <1>0, <2>1, SerialTypes
  <1>6. i \in page[p] /\ log[i].action = "upsert" BY <1>0, <1>1, <1>4 DEF PullHolds
  <1>7. ASSUME NEW m PROVE ~Marking(m)
    BY <1>1 DEF Marking
  <1>8. PICK new : new = [obj |-> o, version |-> v, extra |-> FALSE] OBVIOUS
  <1>9. PICK l \in LocalIds :
          /\ found'[p] = l
          /\ \/ copy' = Put(copy, l, new)
             \/ copy' = copy /\ l \notin DOMAIN copy /\ l \in DOMAIN states
          /\ \/ NoneOf(o) /\ l \notin DOMAIN states /\ copy' = Put(copy, l, new)
                /\ l \notin DOMAIN copy
             \/ l \in DOMAIN states /\ states[l].obj = o /\ states[l].version < v
    <2>1. CASE found[p] = NoRow
      <3>1. /\ LocalIds \ Named # {} /\ found' = [found EXCEPT ![p] = FreshRow]
            /\ copy' = Put(copy, FreshRow, new)
        BY <1>0, <1>8, <2>1 DEF UpsertCopy
      <3>2. /\ FreshRow \in LocalIds /\ FreshRow \notin DOMAIN states
            /\ FreshRow \notin DOMAIN copy
        BY <3>1, FreshIsNew
      <3>3. found'[p] = FreshRow BY <3>1 DEF SerialInv, IInv, TypeOK
      <3>4. NoneOf(o) BY <1>0, <1>1, <1>4, <2>1 DEF PullHolds
      <3> QED BY <3>1, <3>2, <3>3, <3>4
    <2>2. CASE found[p] # NoRow
      <3>1. found[p] \in LocalIds /\ found' = found
        BY <2>2 DEF SerialInv, IInv, TypeOK, UpsertCopy
      <3>2. copy' = IF found[p] \in DOMAIN copy THEN Put(copy, found[p], new) ELSE copy
        BY <1>0, <1>8, <2>2 DEF UpsertCopy
      <3>3. found[p] \in DOMAIN states /\ states[found[p]].obj = o /\ states[found[p]].version < v
        BY <1>0, <1>1, <2>2 DEF SerialInv, PullFits
      <3> QED BY <3>1, <3>2, <3>3
    <2> QED BY <2>1, <2>2
  <1>10. /\ l \in DOMAIN copy' => copy'[l] = new
         /\ l \in DOMAIN copy' \/ l \in DOMAIN states
         /\ l \in DOMAIN copy => l \in DOMAIN copy'
         /\ \A m \in DOMAIN copy' : m # l => m \in DOMAIN copy /\ copy'[m] = copy[m]
         /\ \A m \in DOMAIN copy : m # l => m \in DOMAIN copy' /\ copy'[m] = copy[m]
    <2>1. /\ DOMAIN Put(copy, l, new) = DOMAIN copy \cup {l}
          /\ Put(copy, l, new)[l] = new
          /\ \A y \in DOMAIN copy \ {l} : Put(copy, l, new)[y] = copy[y]
      BY DEF Put
    <2> QED BY <1>9, <2>1
  <1>11. new.obj = o /\ new.version = v BY <1>8
  <1>12. \A m : Marking(m)' <=> m = l
    BY <1>1, <1>2, <1>3, <1>9 DEF Marking
  <1>13. ASSUME NEW m \in DOMAIN states, states[m].obj = o PROVE m = l
    BY <1>4, <1>9, <1>13 DEF NoneOf, OneRow
  <1>14. ASSUME NEW m \in DOMAIN copy, copy[m].obj = o PROVE m = l
    <2>1. m \in DOMAIN states /\ states[m].obj = o
      BY <1>4, <1>7, <1>14, SerialTypes DEF OneRow
    <2> QED BY <1>13, <2>1
  <1>15. l \in DOMAIN copy => copy[l].obj = o
    BY <1>9, SerialTypes
  <1>16. OneRow'
    <2>1. \A m \in DOMAIN copy' : m \in DOMAIN states' \/ Marking(m)'
      BY <1>2, <1>4, <1>7, <1>10, <1>12 DEF OneRow
    <2>2. \A m, n \in DOMAIN copy' : copy'[m].obj = copy'[n].obj => m = n
      BY <1>4, <1>10, <1>11, <1>14 DEF OneRow
    <2>3. \A m \in DOMAIN copy', n \in DOMAIN states' : copy'[m].obj = states'[n].obj => m = n
      BY <1>2, <1>4, <1>10, <1>11, <1>13 DEF OneRow
    <2> QED BY <1>2, <1>4, <2>1, <2>2, <2>3 DEF OneRow
  <1>17. ASSUME NEW j \in DOMAIN log PROVE Due(j)' <=> Due(j)
    BY <1>1, <1>2, <1>3 DEF Due
  <1>18. \A j : Known(j)' <=> Known(j) BY <1>2 DEF Known
  <1>19. Agrees(o) BY <1>5 DEF Mirroring
  <1>20. server[o].live => Shows(l, o, v)'
    <2>1. SUFFICES ASSUME server[o].live PROVE Shows(l, o, v)' OBVIOUS
    <2>2. l \in DOMAIN copy'
      BY <1>7, <1>9, <1>10, <1>19, <2>1 DEF Agrees, Shows
    <2> QED BY <1>8, <1>10, <2>2 DEF Shows
  <1>21. PullHolds(p)'
    <2>1. now'[p] = i /\ log'[i].obj = o /\ log'[i].version = v BY <1>0, <1>2
    <2>2. l \in DOMAIN states => states[l].obj = o /\ states[l].version < v BY <1>9
    <2>3. server'[o].live => Shows(l, o, v)' BY <1>2, <1>20
    <2> QED BY <1>0, <1>1, <1>2, <1>3, <1>4, <1>9, <1>10, <2>1, <2>2, <2>3 DEF PullHolds
  <1>22. Due(i)
    BY <1>1, <1>4, <1>6 DEF PullHolds, Due
  <1>23. ~Known(i)
    <2>1. \A m \in DOMAIN states : states[m].version \in Nat BY SerialTypes
    <2>2. v \in Nat BY <1>5, SerialTypes
    <2>3. \A m \in DOMAIN states : states[m].obj = o => states[m].version < v
      BY <1>9, <1>13
    <2> QED BY <1>1, <1>5, <2>1, <2>2, <2>3 DEF Known
  <1>24. Agrees(o)'
    <2>1. CASE server[o].live
      <3>1. \A j \in DOMAIN log : log[j].obj = o => Known(j)' \/ Due(j)'
        BY <1>17, <1>18, <1>19, <2>1 DEF Agrees
      <3>2. \A m \in DOMAIN states : states[m].obj = o => Marking(m)' BY <1>12, <1>13
      <3> QED BY <1>2, <2>1, <3>1, <3>2 DEF Agrees
    <2>2. CASE ~server[o].live
      <3>1. Doomed(o) BY <1>5, <1>19, <1>22, <1>23, <2>2 DEF Agrees
      <3>2. Doomed(o)' BY <1>2, <1>17, <3>1 DEF Doomed
      <3> QED BY <1>2, <2>2, <3>2 DEF Agrees
    <2> QED BY <2>1, <2>2
  <1>25. ASSUME NEW x \in Objects, x # o PROVE Agrees(x)'
    <2>1. Agrees(x) BY DEF Mirroring
    <2>2. \A m \in DOMAIN copy : copy[m].obj = x => m \in DOMAIN copy' /\ copy'[m] = copy[m]
      BY <1>10, <1>15, <1>25
    <2>3. \A m \in DOMAIN copy' : copy'[m].obj = x => m \in DOMAIN copy /\ copy'[m] = copy[m]
      BY <1>10, <1>11, <1>25
    <2>4. UNCHANGED <<log, server, states, editing>> BY <1>2
    <2> QED BY <1>7, <1>17, <1>18, <2>1, <2>2, <2>3, <2>4, AgreesKept
  <1> QED BY <1>1, <1>2, <1>3, <1>16, <1>21, <1>24, <1>25, PullSteps

\* The state that is saved after its row knows the change, and what it knew before.
LEMMA MarkSyncedMirror ==
    ASSUME SerialInv, Mirroring, NEW p \in Pulls, MarkSynced(p)
    PROVE  Mirroring'
  <1>0. PICK i, o, v, l : /\ i = now[p] /\ o = log[i].obj /\ v = log[i].version
                          /\ l = found[p]
    OBVIOUS
  <1>1. /\ pc[p] = "mark"
        /\ \A q \in Pulls \ {p} : pc[q] = "idle"
        /\ \A e \in Edits : stage[e] \in {"idle", "done"}
    BY PullAlone DEF MarkSynced
  <1>2. PICK new : new = [obj |-> o, version |-> v] OBVIOUS
  <1>3. /\ Return(p, i) /\ states' = Put(states, l, new)
        /\ UNCHANGED <<log, server, copy, cursor, at, next, full, failed, editing>>
    BY <1>0, <1>2 DEF MarkSynced, Handle
  <1>4. pc'[p] = "read" /\ \A q \in Pulls \ {p} : pc'[q] = "idle"
    BY <1>1, <1>3 DEF SerialInv, IInv, TypeOK, Return
  <1>5. PullHolds(p) /\ OneRow BY DEF Mirroring
  <1>6. /\ i \in DOMAIN log /\ o \in Objects /\ log[i].obj = o /\ log[i].version = v
        /\ v \in Nat /\ v <= server[o].version
    <2>1. i \in DOMAIN log BY <1>0, <1>1 DEF SerialInv, IInv, StepsKnow
    <2> QED BY <1>0, <2>1, SerialTypes
  <1>7. /\ i \in page[p] /\ log[i].action = "upsert"
        /\ l \in DOMAIN copy \cup DOMAIN states
        /\ l \in DOMAIN states => states[l].obj = o /\ states[l].version < v
        /\ server[o].live => Shows(l, o, v)
    BY <1>0, <1>1, <1>5 DEF PullHolds
  <1>8. l \in DOMAIN copy => copy[l].obj = o
    BY <1>0, <1>1 DEF SerialInv, PullFits
  <1>9. new.obj = o /\ new.version = v BY <1>2
  <1>10. /\ DOMAIN states' = DOMAIN states \cup {l} /\ states'[l] = new
         /\ \A m \in DOMAIN states : m # l => states'[m] = states[m]
    BY <1>3 DEF Put
  <1>11. /\ \A m : Marking(m) => m = l
         /\ \A m : ~Marking(m)'
    BY <1>0, <1>1, <1>3, <1>4 DEF Marking
  <1>12. ASSUME NEW m \in DOMAIN states, states[m].obj = o PROVE m = l
    BY <1>5, <1>7, <1>8, <1>12 DEF OneRow
  <1>13. ASSUME NEW m \in DOMAIN copy, copy[m].obj = o PROVE m = l
    BY <1>5, <1>7, <1>8, <1>13 DEF OneRow
  <1>14. OneRow'
    <2>1. \A m \in DOMAIN states' : states'[m].version <= server'[states'[m].obj].version
      BY <1>3, <1>5, <1>6, <1>9, <1>10 DEF OneRow
    <2>2. \A m \in DOMAIN copy' : m \in DOMAIN states'
      BY <1>3, <1>5, <1>10, <1>11 DEF OneRow
    <2>3. \A m, n \in DOMAIN states' : states'[m].obj = states'[n].obj => m = n
      BY <1>5, <1>9, <1>10, <1>12 DEF OneRow
    <2>4. \A m \in DOMAIN copy', n \in DOMAIN states' : copy'[m].obj = states'[n].obj => m = n
      BY <1>3, <1>5, <1>9, <1>10, <1>13 DEF OneRow
    <2> QED BY <1>3, <1>5, <2>1, <2>2, <2>3, <2>4 DEF OneRow
  <1>15. Agrees(o) BY <1>6 DEF Mirroring
  <1>16. ASSUME \A j \in DOMAIN log : Due(j)' <=> Due(j) /\ (j # i \/ i > next[p])
         PROVE  Agrees(o)'
    <2>1. CASE server[o].live
      <3>1. ASSUME NEW j \in DOMAIN log, log[j].obj = o PROVE Known(j)' \/ Due(j)'
        <4>1. log[j].version \in Nat /\ \A m \in DOMAIN states : states[m].version \in Nat
          BY SerialTypes
        <4>2. log[j].version <= v => Known(j)'
          BY <1>3, <1>9, <1>10, <3>1 DEF Known
        <4>3. CASE Known(j)
          <5>1. PICK m \in DOMAIN states :
                  states[m].obj = log[j].obj /\ log[j].version <= states[m].version
            BY <1>1, <4>3 DEF Known
          <5>2. m = l BY <1>12, <3>1, <5>1
          <5>3. log[j].version <= v BY <1>6, <1>7, <4>1, <5>1, <5>2
          <5> QED BY <4>2, <5>3
        <4>4. CASE ~Known(j)
          <5>1. Due(j) BY <1>15, <2>1, <3>1, <4>4 DEF Agrees
          <5>2. j = i => log[j].version <= v BY <1>6
          <5> QED BY <1>16, <4>2, <5>1, <5>2
        <4> QED BY <4>3, <4>4
      <3>2. ASSUME NEW m \in DOMAIN states', states'[m].obj = o
            PROVE  Shows(m, o, states[m].version)'
        <4>1. m = l BY <1>10, <1>12, <3>2
        <4>2. Shows(l, o, v)' BY <1>3, <1>7, <2>1 DEF Shows
        <4> QED BY <1>9, <1>10, <4>1, <4>2 DEF Shows
      <3> QED BY <1>3, <2>1, <3>1, <3>2 DEF Agrees
    <2>2. CASE ~server[o].live
      <3>1. Due(i) BY <1>1, <1>5, <1>7 DEF PullHolds, Due
      <3>2. ~Known(i)
        <4>1. \A m \in DOMAIN states : states[m].version \in Nat BY SerialTypes
        <4>2. \A m \in DOMAIN states : states[m].obj = o => states[m].version < v
          BY <1>7, <1>12
        <4> QED BY <1>1, <1>6, <4>1, <4>2 DEF Known
      <3>3. PICK d \in DOMAIN log : log[d].obj = o /\ log[d].action = "delete" /\ Due(d)
        BY <1>6, <1>15, <2>2, <3>1, <3>2 DEF Agrees, Doomed
      <3>4. d # i BY <1>7, <3>3
      <3>5. Due(d)' BY <1>16, <3>3, <3>4
      <3>6. Doomed(o)' BY <1>3, <3>3, <3>5 DEF Doomed
      <3> QED BY <1>3, <2>2, <3>6 DEF Agrees
    <2> QED BY <2>1, <2>2
  <1>17. /\ \A m \in DOMAIN states : states[m].obj # o => m \in DOMAIN states' /\ states'[m] = states[m]
         /\ \A m \in DOMAIN states' : states'[m].obj # o => m \in DOMAIN states /\ states'[m] = states[m]
    BY <1>7, <1>9, <1>10
  <1> QED BY <1>0, <1>1, <1>3, <1>6, <1>7, <1>14, <1>16, <1>17, ReturnMirror

\* A step of the edit that is under way leaves the other edits and the pulls alone.
LEMMA EditSteps ==
    ASSUME SerialInv, Mirroring, NEW e \in Edits, NEW to,
           \A p \in Pulls : pc[p] = "idle",
           \A d \in Edits \ {e} : stage[d] \in {"idle", "done"},
           stage' = [stage EXCEPT ![e] = to], UNCHANGED pulling,
           LogTells', OneRow', EditHolds(e)', \A o \in Objects : Agrees(o)'
    PROVE  Mirroring'
  <1>1. \A d \in Edits \ {e} : stage'[d] \in {"idle", "done"} BY DEF SerialInv, IInv, TypeOK
  <1>2. \A d \in Edits : EditHolds(d)' BY <1>1 DEF EditHolds
  <1>3. ASSUME NEW p \in Pulls PROVE PullHolds(p)'
    <2>1. PullHolds(p) BY DEF Mirroring
    <2> QED BY <2>1 DEF PullHolds
  <1> QED BY <1>2, <1>3 DEF Mirroring

\* Nothing is known or due by a form: it opens, reads its base, closes, or stays open.
LEMMA FormMirror ==
    ASSUME SerialInv, Mirroring, NEW e \in Edits,
           \A p \in Pulls : pc[p] = "idle",
           \A d \in Edits \ {e} : stage[d] \in {"idle", "done"},
           stage[e] \in {"idle", "open", "send"},
           NEW to \in {"open", "send", "done"},
           stage' = [stage EXCEPT ![e] = to],
           to # "done" => Len(log) < MaxChanges,
           UNCHANGED <<log, server, database, pulling>>
    PROVE  Mirroring'
  <1>1. /\ stage'[e] = to
        /\ \A d \in Edits \ {e} : stage'[d] \in {"idle", "done"}
    BY DEF SerialInv, IInv, TypeOK
  <1>2. \A d \in Edits : stage[d] \notin {"local", "mark"} /\ stage'[d] \notin {"local", "mark"}
    BY <1>1
  <1>3. \A l : ~Marking(l) /\ ~Marking(l)' BY <1>2 DEF Marking
  <1>4. \A i : Known(i)' <=> Known(i) BY <1>2 DEF Known
  <1>5. \A i : Due(i)' <=> Due(i) BY DEF Due
  <1>6. LogTells'
    <2>1. LogTells BY DEF Mirroring
    <2>2. (\E d \in Edits : stage'[d] \in {"open", "send"}) => Len(log) < MaxChanges
      BY <1>1
    <2> QED BY <2>1, <2>2 DEF LogTells
  <1>7. OneRow' BY <1>3 DEF Mirroring, OneRow
  <1>8. EditHolds(e)' BY <1>1 DEF EditHolds
  <1>9. ASSUME NEW o \in Objects PROVE Agrees(o)'
    <2>1. Agrees(o) BY DEF Mirroring
    <2>2. UNCHANGED <<log, server, copy, states>> OBVIOUS
    <2> QED BY <1>2, <1>3, <1>4, <1>5, <2>1, <2>2, AgreesKept
  <1> QED BY <1>6, <1>7, <1>8, <1>9, EditSteps

\* When nothing is under way there is room for the change of a new form.
LEMMA StartFormMirror ==
    ASSUME SerialInv, Mirroring, Concurrent = FALSE, NEW e \in Edits,
           (\E kind \in Kinds, l \in LocalIds : OpenForm(e, kind, l))
              \/ (\E o \in Objects : StartCreate(e, o))
    PROVE  Mirroring'
  <1>1. /\ \A p \in Pulls : pc[p] = "idle"
        /\ \A d \in Edits : stage[d] \in {"idle", "done"}
        /\ Room /\ UNCHANGED <<log, server, database, pulling>>
    BY DEF OpenForm, StartCreate, MayStart, Quiet
  <1>2. PICK to \in {"open", "send"} : stage' = [stage EXCEPT ![e] = to]
    BY DEF OpenForm, StartCreate, Move
  <1>3. Len(log) < MaxChanges
    <2>1. {d \in Edits : stage[d] \in {"open", "send"}} = {} BY <1>1
    <2>2. Cardinality({d \in Edits : stage[d] \in {"open", "send"}}) = 0
      BY <2>1, FS_EmptySet
    <2>3. Len(log) \in Nat BY SerialTypes
    <2> QED BY <1>1, <2>2, <2>3 DEF Room
  <1>4. stage[e] = "idle" BY DEF OpenForm, StartCreate
  <1> QED BY <1>1, <1>2, <1>3, <1>4, FormMirror

(* Reading the base, or closing the form, touches nothing but the form. *)
LEMMA OpenFormMirror ==
    ASSUME SerialInv, Mirroring, NEW e \in Edits, ReadBase(e) \/ CloseForm(e)
    PROVE  Mirroring'
  <1>1. stage[e] = "open" /\ UNCHANGED <<log, server, database, pulling>>
    BY DEF ReadBase, CloseForm
  <1>2. PICK to \in {"send", "done"} : stage' = [stage EXCEPT ![e] = to]
    BY DEF ReadBase, CloseForm, Move
  <1>3. Len(log) < MaxChanges BY <1>1 DEF Mirroring, LogTells
  <1>4. /\ \A p \in Pulls : pc[p] = "idle"
        /\ \A d \in Edits \ {e} : stage[d] \in {"idle", "done"}
    BY <1>1, EditAlone
  <1> QED BY <1>1, <1>2, <1>3, <1>4, FormMirror

-----------------------------------------------------------------------------
(* Commits                                                                 *)

\* A commit adds the newest change of its object and leaves the other objects alone.
LEMMA CommitTells ==
    ASSUME SerialInv, LogTells, NEW o \in Objects, NEW a \in {"upsert", "delete"},
           NEW m \in BOOLEAN, NEW v \in Nat, Write(o, a, m, v),
           server[o].live \/ server[o].version = 0,
           Len(log) < MaxChanges,
           (\E e \in Edits : stage'[e] \in {"open", "send"}) => Len(log) + 1 < MaxChanges
    PROVE  /\ LogTells'
           /\ DOMAIN log' = DOMAIN log \cup {Len(log) + 1} /\ Len(log) + 1 \notin DOMAIN log
           /\ log'[Len(log) + 1] = [obj |-> o, version |-> server[o].version + 1,
                                    action |-> a, mine |-> m, seen |-> v]
           /\ \A i \in DOMAIN log : i \in DOMAIN log' /\ log'[i] = log[i]
           /\ server'[o].version = server[o].version + 1
           /\ server'[o].live <=> a = "upsert"
           /\ \A x \in Objects \ {o} : server'[x] = server[x]
  <1>0. PICK c, n, s, r : /\ c = [obj |-> o, version |-> server[o].version + 1, action |-> a,
                                  mine |-> m, seen |-> v]
                          /\ n = Len(log) + 1 /\ s = server[o].version
                          /\ r = [version |-> server[o].version + 1, live |-> a = "upsert"]
    OBVIOUS
  <1>1. /\ Len(log) \in Nat /\ DOMAIN log = 1..Len(log) /\ s \in Nat
        /\ \A i \in DOMAIN log : /\ log[i].obj \in Objects /\ log[i].version \in Nat
                                 /\ log[i].version # 0
                                 /\ log[i].version <= server[log[i].obj].version
        /\ log \in Seq(Change) /\ server \in [Objects -> ServerRow]
    BY <1>0, SerialTypes DEF SerialInv, IInv, TypeOK
  <1>2. c \in Change /\ r \in ServerRow BY <1>0, <1>1 DEF Change, ServerRow
  <1>3. /\ log' = Append(log, c) /\ server' = [server EXCEPT ![o] = r]
    BY <1>0 DEF Write
  <1>4. /\ c.obj = o /\ c.version = s + 1 /\ c.action = a
        /\ r.version = s + 1 /\ (r.live <=> a = "upsert")
    BY <1>0
  <1>5. /\ DOMAIN log' = DOMAIN log \cup {n} /\ n \notin DOMAIN log /\ log'[n] = c
        /\ \A i \in DOMAIN log : i \in DOMAIN log' /\ log'[i] = log[i]
        /\ Len(log') = n /\ \A i \in DOMAIN log : i < n
    BY <1>0, <1>1, <1>2, <1>3
  <1>6. server'[o] = r /\ \A x \in Objects \ {o} : server'[x] = server[x]
    BY <1>1, <1>3
  <1>7. LogTells'
    <2>1. ASSUME NEW i \in DOMAIN log', NEW j \in DOMAIN log', i < j, log'[i].obj = log'[j].obj
          PROVE  log'[i].version < log'[j].version
      <3>1. i \in DOMAIN log
        <4>1. i = n => j \in DOMAIN log BY <1>1, <1>5, <2>1, <1>0
        <4> QED BY <1>0, <1>1, <1>5, <2>1, <4>1
      <3>2. CASE j = n
        <4>1. log[i].obj = o BY <1>4, <1>5, <2>1, <3>1, <3>2
        <4>2. log[i].version <= s BY <1>0, <1>1, <3>1, <4>1
        <4> QED BY <1>1, <1>4, <1>5, <3>1, <3>2, <4>2
      <3>3. CASE j \in DOMAIN log BY <1>5, <2>1, <3>1, <3>3 DEF LogTells
      <3> QED BY <1>5, <3>2, <3>3
    <2>2. ASSUME NEW i \in DOMAIN log', log'[i].action = "delete"
          PROVE  ~server'[log'[i].obj].live /\ log'[i].version = server'[log'[i].obj].version
      <3>1. CASE i = n BY <1>4, <1>5, <1>6, <2>2, <3>1
      <3>2. CASE i \in DOMAIN log
        <4>1. ~server[log[i].obj].live /\ log[i].version = server[log[i].obj].version
          BY <1>5, <2>2, <3>2 DEF LogTells
        <4>2. log[i].obj # o BY <1>0, <1>1, <3>2, <4>1
        <4> QED BY <1>1, <1>5, <1>6, <3>2, <4>1, <4>2
      <3> QED BY <1>5, <3>1, <3>2
    <2>3. ASSUME NEW x \in Objects, server'[x].live
          PROVE  \E i \in DOMAIN log' : log'[i].obj = x /\ log'[i].version = server'[x].version
      <3>1. CASE x = o BY <1>4, <1>5, <1>6, <3>1
      <3>2. CASE x # o
        <4>1. PICK i \in DOMAIN log : log[i].obj = x /\ log[i].version = server[x].version
          BY <1>6, <2>3, <3>2 DEF LogTells
        <4> QED BY <1>5, <1>6, <3>2, <4>1
      <3> QED BY <3>1, <3>2
    <2>4. Len(log') <= MaxChanges
      BY <1>0, <1>1, <1>5, BoundsAssumption
    <2>5. (\E e \in Edits : stage'[e] \in {"open", "send"}) => Len(log') < MaxChanges
      BY <1>0, <1>5
    <2> QED BY <2>1, <2>2, <2>3, <2>4, <2>5 DEF LogTells
  <1> QED BY <1>0, <1>4, <1>5, <1>6, <1>7

\* The bound on the log counts the one form that may be open.
LEMMA RoomForOne ==
    ASSUME SerialInv, Room
    PROVE  /\ Len(log) < MaxChanges
           /\ (\E e \in Edits : stage[e] \in {"open", "send"}) => Len(log) + 1 < MaxChanges
  <1>1. Len(log) \in Nat BY SerialTypes
  <1>2. CASE \A e \in Edits : stage[e] \notin {"open", "send"}
    <2>1. {e \in Edits : stage[e] \in {"open", "send"}} = {} BY <1>2
    <2>2. Cardinality({e \in Edits : stage[e] \in {"open", "send"}}) = 0
      BY <2>1, FS_EmptySet
    <2> QED BY <1>1, <1>2, <2>2 DEF Room
  <1>3. CASE \E e \in Edits : stage[e] \in {"open", "send"}
    <2>1. PICK e \in Edits : stage[e] \in {"open", "send"} BY <1>3
    <2>2. \A d \in Edits \ {e} : stage[d] \in {"idle", "done"} BY <2>1, EditAlone
    <2>3. {d \in Edits : stage[d] \in {"open", "send"}} = {e} BY <2>1, <2>2
    <2>4. Cardinality({d \in Edits : stage[d] \in {"open", "send"}}) = 1
      BY <2>3, FS_Singleton
    <2>5. Len(log) + 1 < MaxChanges BY <2>4 DEF Room
    <2> QED BY <1>1, <2>5, BoundsAssumption
  <1> QED BY <1>2, <1>3

\* What another device does is due here; it writes no object that is gone for good.
LEMMA OtherWriteMirror ==
    ASSUME SerialInv, Mirroring, Restore = FALSE, NEW o \in Objects,
           NEW a \in {"upsert", "delete"}, OtherWrite(o, a)
    PROVE  Mirroring'
  <1>1. /\ Room /\ Write(o, a, FALSE, server[o].version)
        /\ a = "delete" => server[o].live
        /\ server[o].live \/ server[o].version = 0
        /\ UNCHANGED <<copy, states, cursor, pulling, editing, faults>>
    BY DEF OtherWrite
  <1>2. server[o].version \in Nat /\ Len(log) \in Nat BY SerialTypes
  <1>3. /\ Len(log) < MaxChanges
        /\ (\E e \in Edits : stage[e] \in {"open", "send"}) => Len(log) + 1 < MaxChanges
    BY <1>1, RoomForOne
  <1>4. LogTells BY DEF Mirroring
  <1>5. PICK n : n = Len(log) + 1 OBVIOUS
  <1>6. /\ LogTells'
        /\ DOMAIN log' = DOMAIN log \cup {n} /\ n \notin DOMAIN log
        /\ log'[n].obj = o /\ log'[n].action = a /\ ~log'[n].mine
        /\ \A i \in DOMAIN log : i \in DOMAIN log' /\ log'[i] = log[i]
        /\ server'[o].version = server[o].version + 1
        /\ server'[o].live <=> a = "upsert"
        /\ \A x \in Objects \ {o} : server'[x] = server[x]
    <2>1. PICK v : v = server[o].version OBVIOUS
    <2>2. Write(o, a, FALSE, v) /\ v \in Nat /\ FALSE \in BOOLEAN BY <1>1, <1>2, <2>1
    <2>3. (\E e \in Edits : stage'[e] \in {"open", "send"}) => Len(log) + 1 < MaxChanges
      BY <1>1, <1>3
    <2>4. /\ LogTells'
          /\ DOMAIN log' = DOMAIN log \cup {Len(log) + 1} /\ Len(log) + 1 \notin DOMAIN log
          /\ log'[Len(log) + 1] = [obj |-> o, version |-> server[o].version + 1,
                                   action |-> a, mine |-> FALSE, seen |-> v]
          /\ \A i \in DOMAIN log : i \in DOMAIN log' /\ log'[i] = log[i]
          /\ server'[o].version = server[o].version + 1
          /\ server'[o].live <=> a = "upsert"
          /\ \A x \in Objects \ {o} : server'[x] = server[x]
      BY <1>1, <1>3, <1>4, <2>2, <2>3, CommitTells
    <2> QED BY <1>5, <2>4
  <1>7. \A l : Marking(l)' <=> Marking(l) BY <1>1 DEF Marking
  <1>8. ASSUME NEW i \in DOMAIN log PROVE (Due(i)' <=> Due(i)) /\ (Known(i)' <=> Known(i))
    BY <1>1, <1>6 DEF Due, Known
  <1>9. Due(n)'
    <2>1. cursor <= Len(log) /\ cursor \in Nat
      BY DEF SerialInv, IInv, CursorsReached, Reached
    <2>2. \A p \in Pulls : at[p] <= Len(log) /\ at[p] \in Nat /\ next[p] <= Len(log) /\ next[p] \in Nat
      BY DEF SerialInv, IInv, CursorsReached, Reached
    <2>3. n > cursor /\ \A p \in Pulls : n > at[p] /\ n > next[p]
      BY <1>2, <1>5, <2>1, <2>2
    <2> QED BY <1>1, <1>6, <2>3 DEF Due
  <1>10. OneRow'
    <2>1. OneRow BY DEF Mirroring
    <2>2. ASSUME NEW l \in DOMAIN states
          PROVE  states[l].version <= server'[states[l].obj].version
      <3>1. states[l].version <= server[states[l].obj].version BY <2>1 DEF OneRow
      <3>2. states[l].obj \in Objects /\ states[l].version \in Nat BY SerialTypes
      <3>3. CASE states[l].obj = o BY <1>2, <1>6, <3>1, <3>2, <3>3
      <3>4. CASE states[l].obj # o BY <1>6, <3>1, <3>2, <3>4
      <3> QED BY <3>3, <3>4
    <2> QED BY <1>1, <1>7, <2>1, <2>2 DEF OneRow
  <1>11. \A x : NoneOf(x)' <=> NoneOf(x) BY <1>1 DEF NoneOf
  <1>12. \A l, x, v : Shows(l, x, v)' <=> Shows(l, x, v) BY <1>1 DEF Shows
  <1>13. ASSUME server[o].version = 0 PROVE (\A i \in DOMAIN log : log[i].obj # o) /\ NoneOf(o)
    <2>1. \A i \in DOMAIN log : log[i].obj # o BY <1>2, <1>13, SerialTypes
    <2>2. ASSUME NEW l \in DOMAIN states PROVE states[l].obj # o
      <3>1. states[l].version <= server[states[l].obj].version /\ states[l].version \in Nat
            /\ states[l].version # 0
        BY SerialTypes DEF Mirroring, OneRow
      <3> QED BY <1>13, <3>1
    <2>3. ASSUME NEW l \in DOMAIN copy, copy[l].obj = o PROVE FALSE
      <3>1. CASE l \in DOMAIN states BY <2>2, <2>3, <3>1, SerialTypes
      <3>2. CASE l \notin DOMAIN states
        <4>1. Marking(l) BY <3>2 DEF Mirroring, OneRow
        <4>2. CASE \E p \in Pulls : pc[p] = "mark" /\ found[p] = l
          <5>1. PICK p \in Pulls : pc[p] = "mark" /\ found[p] = l BY <4>2
          <5>2. now[p] \in DOMAIN log /\ copy[l].obj = log[now[p]].obj
            BY <2>3, <5>1 DEF SerialInv, IInv, StepsKnow, PullFits
          <5> QED BY <2>1, <2>3, <5>2
        <4>3. CASE \E e \in Edits : stage[e] = "mark" /\ form[e].local = l
          <5>1. PICK e \in Edits : stage[e] = "mark" /\ form[e].local = l BY <4>3
          <5>2. EditFits(e) /\ EditHolds(e) BY DEF SerialInv, Mirroring
          <5>3. copy[l].obj = form[e].obj BY <2>3, <5>1, <5>2 DEF EditFits
          <5>4. form[e].reply # 0 BY <1>13, <2>3, <5>1, <5>2, <5>3 DEF EditHolds
          <5>5. form[e].reply <= server[o].version BY <2>3, <5>1, <5>2, <5>3 DEF EditFits
          <5>6. form[e].reply \in Nat BY DEF SerialInv, IInv, TypeOK, Form
          <5> QED BY <1>13, <5>4, <5>5, <5>6
        <4> QED BY <4>1, <4>2, <4>3 DEF Marking
      <3> QED BY <3>1, <3>2
    <2> QED BY <2>1, <2>2, <2>3 DEF NoneOf
  <1>14. ASSUME NEW x \in Objects, Doomed(x) PROVE Doomed(x)'
    BY <1>6, <1>8, <1>14 DEF Doomed
  <1>15. a = "delete" => Doomed(o)' BY <1>6, <1>9 DEF Doomed
  <1>16. ASSUME NEW p \in Pulls PROVE PullHolds(p)'
    <2>1. PullHolds(p) BY DEF Mirroring
    <2>2. page[p] \subseteq DOMAIN log BY DEF SerialInv, IInv, StepsKnow
    <2>3. pc[p] \in {"delete", "forget", "upsert", "mark"} =>
            now[p] \in DOMAIN log /\ log'[now[p]] = log[now[p]] /\ log[now[p]].obj \in Objects
      BY <1>6, SerialTypes DEF SerialInv, IInv, StepsKnow
    <2>4. pc[p] = "mark" /\ server'[log[now[p]].obj].live => server[log[now[p]].obj].live
      BY <1>1, <1>6, <1>13, <2>3
    <2>5. \A j \in page[p] : log'[j] = log[j] BY <1>6, <2>2
    <2> QED BY <1>1, <1>11, <1>12, <2>1, <2>3, <2>4, <2>5 DEF PullHolds
  <1>17. ASSUME NEW e \in Edits PROVE EditHolds(e)'
    <2>1. EditHolds(e) /\ EditFits(e) /\ form[e].obj \in Objects /\ form[e].reply \in Nat
      BY DEF Mirroring, SerialInv, IInv, TypeOK, Form
    <2> SUFFICES ASSUME stage[e] \in {"local", "mark"} PROVE EditHolds(e)'
      BY <1>1 DEF EditHolds
    <2>2. form[e].reply = 0 \/ form[e].kind = "delete" =>
            ~server'[form[e].obj].live /\ server'[form[e].obj].version # 0
      <3>1. SUFFICES ASSUME form[e].reply = 0 \/ form[e].kind = "delete"
                     PROVE ~server'[form[e].obj].live /\ server'[form[e].obj].version # 0
        OBVIOUS
      <3>2. ~server[form[e].obj].live /\ server[form[e].obj].version # 0
        BY <2>1, <3>1 DEF EditHolds
      <3>3. form[e].obj # o BY <1>1, <3>2
      <3> QED BY <1>6, <2>1, <3>2, <3>3
    <2>3. stage[e] = "local" /\ form[e].kind = "create" =>
            NoneOf(form[e].obj)' /\ (server'[form[e].obj].live \/ Doomed(form[e].obj)')
      <3>1. SUFFICES ASSUME stage[e] = "local", form[e].kind = "create"
                     PROVE NoneOf(form[e].obj)' /\ (server'[form[e].obj].live \/ Doomed(form[e].obj)')
        OBVIOUS
      <3>2. PICK x \in Objects : x = form[e].obj BY <2>1
      <3>3. NoneOf(x) /\ (server[x].live \/ Doomed(x)) BY <2>1, <3>1, <3>2 DEF EditHolds
      <3>4. server'[x].live \/ Doomed(x)'
        BY <1>6, <1>14, <1>15, <3>3
      <3>5. form'[e].obj = x BY <1>1, <3>2
      <3> QED BY <1>11, <3>2, <3>3, <3>4, <3>5 DEF Doomed, NoneOf
    <2>4. server'[form[e].obj].live => server[form[e].obj].live
      <3>1. SUFFICES ASSUME server'[form[e].obj].live, ~server[form[e].obj].live PROVE FALSE
        OBVIOUS
      <3>2. form[e].obj = o /\ server[o].version = 0 BY <1>1, <1>6, <2>1, <3>1
      <3>3. form[e].reply # 0 BY <2>1, <3>2 DEF EditHolds
      <3>4. form[e].reply <= server[o].version BY <2>1, <3>2 DEF EditFits
      <3> QED BY <2>1, <3>2, <3>3, <3>4
    <2>5. PICK x, v : x = form[e].obj /\ v = form[e].reply OBVIOUS
    <2>6. /\ form'[e].obj = x /\ form'[e].reply = v /\ UNCHANGED <<stage, form, states, copy>>
      BY <1>1, <2>5
    <2>7. stage[e] = "mark" /\ server'[x].live => Shows(form[e].local, x, v)'
      <3>1. SUFFICES ASSUME stage[e] = "mark", server'[x].live
                     PROVE  Shows(form[e].local, x, v)'
        OBVIOUS
      <3>2. Shows(form[e].local, form[e].obj, form[e].reply)
        BY <2>1, <2>4, <2>5, <3>1 DEF EditHolds
      <3> QED BY <1>1, <2>5, <3>2 DEF Shows
    <2> QED BY <2>1, <2>2, <2>3, <2>5, <2>6, <2>7 DEF EditHolds
  <1>18. Agrees(o)'
    <2>1. Agrees(o) BY DEF Mirroring
    <2>2. CASE a = "delete" BY <1>6, <1>15, <2>2 DEF Agrees
    <2>3. CASE a = "upsert"
      <3>1. ASSUME NEW i \in DOMAIN log', log'[i].obj = o PROVE Known(i)' \/ Due(i)'
        <4>1. CASE i = n BY <1>9, <4>1
        <4>2. CASE i \in DOMAIN log
          <5>1. log[i].obj = o BY <1>6, <3>1, <4>2
          <5>2. server[o].live BY <1>1, <1>13, <4>2, <5>1
          <5>3. Known(i) \/ Due(i) BY <2>1, <4>2, <5>1, <5>2 DEF Agrees
          <5> QED BY <1>8, <4>2, <5>3
        <4> QED BY <1>6, <4>1, <4>2
      <3>2. ASSUME NEW l \in DOMAIN states, states[l].obj = o
            PROVE  Marking(l) \/ Shows(l, o, states[l].version)
        <4>1. server[o].live BY <1>1, <1>13, <3>2 DEF NoneOf
        <4> QED BY <2>1, <3>2, <4>1 DEF Agrees
      <3>3. \A l \in DOMAIN states' : states'[l].obj = o => Marking(l)' \/ Shows(l, o, states[l].version)'
        BY <1>1, <1>7, <3>2 DEF Shows
      <3> QED BY <1>6, <2>3, <3>1, <3>3 DEF Agrees
    <2> QED BY <2>2, <2>3
  <1>19. ASSUME NEW x \in Objects, x # o PROVE Agrees(x)'
    <2>1. Agrees(x) BY DEF Mirroring
    <2>2. \A i \in DOMAIN log' : log'[i].obj = x => i \in DOMAIN log BY <1>6, <1>19
    <2>3. server'[x] = server[x] BY <1>6, <1>19
    <2>4. UNCHANGED <<copy, states, editing>> BY <1>1
    <2> QED BY <1>6, <1>7, <1>8, <2>1, <2>2, <2>3, <2>4, AgreesKept
  <1> QED BY <1>6, <1>10, <1>16, <1>17, <1>18, <1>19 DEF Mirroring

-----------------------------------------------------------------------------
(* The edit that is under way                                              *)

\* A request is answered with what it wrote, or with nothing because the object is gone.
LEMMA SendMirror ==
    ASSUME SerialInv, Mirroring, NEW e \in Edits, Send(e)
    PROVE  Mirroring'
  <1>0. PICK f, o, l, s : f = form[e] /\ o = f.obj /\ l = f.local /\ s = server[o].version
    OBVIOUS
  <1>1. /\ stage[e] = "send" /\ Serve(f) /\ UNCHANGED <<database, pulling, handled, faults>>
        /\ TypeOK /\ f \in Form /\ o \in Objects /\ s \in Nat
        /\ f.kind \in Kinds \cup {"none"} /\ f.seen \in Nat
    BY <1>0, SerialTypes DEF Send, SerialInv, IInv, TypeOK, Form
  <1>2. /\ \A p \in Pulls : pc[p] = "idle"
        /\ \A d \in Edits \ {e} : stage[d] \in {"idle", "done"}
    BY <1>1, EditAlone
  <1>3. EditFits(e) /\ OneRow /\ LogTells /\ Agrees(o) BY <1>1 DEF SerialInv, Mirroring
  <1>4. f.kind \in {"create", "update", "delete"}
    BY <1>0, <1>1, <1>3, TypesAssumption DEF EditFits, Busy
  <1>5. f.kind # "create" => /\ l \in DOMAIN states /\ states[l].obj = o
                             /\ states[l].version <= s /\ states[l].version # 0
                             /\ states[l].version \in Nat
    BY <1>0, <1>1, <1>3, SerialTypes DEF EditFits, OneRow
  <1>6. f.kind = "create" => s = 0 BY <1>0, <1>1, <1>3 DEF EditFits
  <1>7. Len(log) < MaxChanges BY <1>1, <1>3 DEF LogTells
  <1>8. \A m : ~Marking(m) BY <1>1, <1>2 DEF Marking
  <1>9. \A m \in DOMAIN copy : m \in DOMAIN states /\ copy[m].obj = states[m].obj
    BY <1>3, <1>8, SerialTypes DEF OneRow
  <1>10. CASE f.kind # "create" /\ server[o].live /\ IsStale(f)
    <2>1. stage' = [stage EXCEPT ![e] = "open"] BY <1>0, <1>10 DEF Send, Move
    <2>2. UNCHANGED <<log, server>> BY <1>0, <1>1, <1>10 DEF Serve
    <2> QED BY <1>1, <1>2, <1>7, <2>1, <2>2, FormMirror
  <1>11. ASSUME NEW v \in Nat, stage' = [stage EXCEPT ![e] = "local"],
                form' = [form EXCEPT ![e] = Answered(f, v)]
         PROVE  /\ stage'[e] = "local" /\ form'[e].kind = f.kind /\ form'[e].local = l
                /\ form'[e].obj = o /\ form'[e].reply = v
                /\ \A d \in Edits \ {e} : stage'[d] \in {"idle", "done"} /\ form'[d] = form[d]
                /\ \A m : ~Marking(m)'
    <2>1. /\ Answered(f, v).kind = f.kind /\ Answered(f, v).local = l
          /\ Answered(f, v).obj = o /\ Answered(f, v).reply = v
      BY <1>0 DEF Answered
    <2>2. /\ stage'[e] = "local" /\ form'[e] = Answered(f, v)
          /\ \A d \in Edits \ {e} : stage'[d] \in {"idle", "done"} /\ form'[d] = form[d]
      BY <1>1, <1>2, <1>11 DEF TypeOK
    <2>3. \A d \in Edits : stage'[d] # "mark" BY <2>2
    <2>4. \A m : ~Marking(m)' BY <1>1, <1>2, <2>3 DEF Marking
    <2> QED BY <2>1, <2>2, <2>4
  <1>12. CASE f.kind # "create" /\ ~server[o].live
    <2>1. /\ stage' = [stage EXCEPT ![e] = "local"]
          /\ form' = [form EXCEPT ![e] = Answered(f, 0)]
      BY <1>0, <1>12 DEF Send, Move, Fill
    <2>2. UNCHANGED <<log, server>> BY <1>0, <1>1, <1>12 DEF Serve
    <2>3. /\ stage'[e] = "local" /\ form'[e].kind = f.kind /\ form'[e].local = l
          /\ form'[e].obj = o /\ form'[e].reply = 0
          /\ \A d \in Edits \ {e} : stage'[d] \in {"idle", "done"} /\ form'[d] = form[d]
          /\ \A m : ~Marking(m)'
      BY <1>11, <2>1
    <2>4. EditHolds(e)' BY <1>0, <1>1, <1>5, <1>12, <2>2, <2>3 DEF EditHolds
    <2>5. LogTells' BY <1>3, <1>7, <2>2 DEF LogTells
    <2>6. OneRow' BY <1>1, <1>3, <1>8, <2>2, <2>3 DEF OneRow
    <2>7. ASSUME NEW x \in Objects PROVE Agrees(x)'
      <3>1. Agrees(x) BY DEF Mirroring
      <3>2. \A i : Due(i)' <=> Due(i) BY <1>1, <2>2 DEF Due
      <3>3. \A d \in Edits : stage[d] \notin {"local", "mark"} BY <1>1, <1>2
      <3>4. \A i : Known(i) => Known(i)' BY <1>1, <2>2, <3>3 DEF Known
      <3>5. UNCHANGED <<log, server, copy, states>> BY <1>1, <2>2
      <3> QED BY <1>8, <3>1, <3>2, <3>3, <3>4, <3>5, AgreesKept
    <2>8. UNCHANGED pulling BY <1>1
    <2> QED BY <1>2, <2>1, <2>4, <2>5, <2>6, <2>7, <2>8, EditSteps
  <1>13. CASE f.kind = "create" \/ (server[o].live /\ ~IsStale(f))
    <2>1. PICK a \in {"upsert", "delete"}, w \in Nat :
            /\ Write(o, a, TRUE, w)
            /\ a = "delete" <=> f.kind = "delete"
      BY <1>0, <1>1, <1>4, <1>13 DEF Serve
    <2>2. server[o].live \/ server[o].version = 0 BY <1>0, <1>6, <1>13
    <2>3. PICK v : v = s + 1 OBVIOUS
    <2>4. v \in Nat /\ v # 0 BY <1>1, <2>3
    <2>5. /\ stage' = [stage EXCEPT ![e] = "local"]
          /\ form' = [form EXCEPT ![e] = Answered(f, v)]
      BY <1>0, <1>13, <2>3 DEF Send, Move, Fill
    <2>6. /\ stage'[e] = "local" /\ form'[e].kind = f.kind /\ form'[e].local = l
          /\ form'[e].obj = o /\ form'[e].reply = v
          /\ \A d \in Edits \ {e} : stage'[d] \in {"idle", "done"} /\ form'[d] = form[d]
          /\ \A m : ~Marking(m)'
      BY <1>11, <2>4, <2>5
    <2>7. PICK n : n = Len(log) + 1 OBVIOUS
    <2>8. /\ LogTells'
          /\ DOMAIN log' = DOMAIN log \cup {n} /\ n \notin DOMAIN log
          /\ log'[n].obj = o /\ log'[n].version = v /\ log'[n].mine
          /\ \A i \in DOMAIN log : i \in DOMAIN log' /\ log'[i] = log[i]
          /\ server'[o].version = v
          /\ server'[o].live <=> a = "upsert"
          /\ \A x \in Objects \ {o} : server'[x] = server[x]
      <3>1. \A d \in Edits : stage'[d] \notin {"open", "send"} BY <2>6
      <3>2. TRUE \in BOOLEAN OBVIOUS
      <3>3. /\ LogTells'
            /\ DOMAIN log' = DOMAIN log \cup {Len(log) + 1} /\ Len(log) + 1 \notin DOMAIN log
            /\ log'[Len(log) + 1] = [obj |-> o, version |-> server[o].version + 1,
                                     action |-> a, mine |-> TRUE, seen |-> w]
            /\ \A i \in DOMAIN log : i \in DOMAIN log' /\ log'[i] = log[i]
            /\ server'[o].version = server[o].version + 1
            /\ server'[o].live <=> a = "upsert"
            /\ \A x \in Objects \ {o} : server'[x] = server[x]
        BY <1>1, <1>3, <1>7, <2>1, <2>2, <3>1, <3>2, CommitTells
      <3> QED BY <1>0, <2>3, <2>7, <3>3
    <2>9. ASSUME NEW i \in DOMAIN log
          PROVE  (Due(i)' <=> Due(i)) /\ (Known(i) => Known(i)')
      <3>1. \A d \in Edits : stage[d] \notin {"local", "mark"} BY <1>1, <1>2
      <3> QED BY <1>1, <2>8, <3>1 DEF Due, Known
    <2>10. ASSUME NEW i \in DOMAIN log', log'[i].obj = o PROVE Known(i)'
      <3>1. log'[i].version <= v
        <4>1. CASE i = n BY <2>4, <2>8, <4>1
        <4>2. CASE i \in DOMAIN log
          <5>1. log[i].version <= s /\ log[i].version \in Nat
            BY <1>0, <2>8, <2>10, <4>2, SerialTypes
          <5> QED BY <1>1, <2>3, <2>8, <4>2, <5>1
        <4> QED BY <2>8, <4>1, <4>2
      <3> QED BY <2>6, <2>10, <3>1 DEF Known
    <2>11. OneRow'
      <3>1. ASSUME NEW m \in DOMAIN states
            PROVE  states[m].version <= server'[states[m].obj].version
        <4>1. /\ states[m].version <= server[states[m].obj].version
              /\ states[m].obj \in Objects /\ states[m].version \in Nat
          BY <1>3, SerialTypes DEF OneRow
        <4>2. CASE states[m].obj = o BY <1>0, <1>1, <2>3, <2>8, <4>1, <4>2
        <4>3. CASE states[m].obj # o BY <2>8, <4>1, <4>3
        <4> QED BY <4>2, <4>3
      <3> QED BY <1>1, <1>3, <1>8, <2>6, <3>1 DEF OneRow
    <2>12. f.kind = "create" => NoneOf(o)
      <3> SUFFICES ASSUME f.kind = "create" PROVE NoneOf(o) OBVIOUS
      <3>1. ASSUME NEW m \in DOMAIN states, states[m].obj = o PROVE FALSE
        <4>1. states[m].version <= s /\ states[m].version \in Nat /\ states[m].version # 0
          BY <1>0, <1>3, <3>1, SerialTypes DEF OneRow
        <4> QED BY <1>6, <4>1
      <3> QED BY <1>9, <3>1 DEF NoneOf
    <2>13. EditHolds(e)'
      <3>1. f.kind # "create" => states[l].version <= v
        BY <1>1, <1>5, <2>3
      <3>2. f.kind = "create" => NoneOf(o)' /\ server'[o].live
        BY <1>1, <2>1, <2>8, <2>12 DEF NoneOf
      <3> QED BY <1>1, <2>1, <2>4, <2>6, <2>8, <3>1, <3>2 DEF EditHolds
    <2>14. Agrees(o)'
      <3>1. CASE a = "upsert"
        <4>1. ASSUME NEW m \in DOMAIN states', states'[m].obj = o
              PROVE  Shows(m, o, states[m].version)'
          <5>1. f.kind # "create" BY <1>1, <2>12, <4>1 DEF NoneOf
          <5>2. server[o].live BY <1>13, <5>1
          <5>3. Shows(m, o, states[m].version) BY <1>1, <1>3, <1>8, <4>1, <5>2 DEF Agrees
          <5> QED BY <1>1, <5>3 DEF Shows
        <4> QED BY <2>8, <2>10, <3>1, <4>1 DEF Agrees
      <3>2. CASE a = "delete"
        <4>1. ASSUME NEW m \in DOMAIN copy', copy'[m].obj = o
              PROVE  \E d \in Edits : /\ stage'[d] = "local" /\ form'[d].kind = "delete"
                                      /\ form'[d].local = m
          <5>1. m \in DOMAIN states /\ states[m].obj = o BY <1>1, <1>9, <4>1
          <5>2. f.kind = "delete" BY <2>1, <3>2
          <5>3. m = l BY <1>3, <1>5, <5>1, <5>2 DEF OneRow
          <5> QED BY <2>6, <5>2, <5>3
        <4> QED BY <2>8, <2>10, <3>2, <4>1 DEF Agrees
      <3> QED BY <3>1, <3>2
    <2>15. ASSUME NEW x \in Objects, x # o PROVE Agrees(x)'
      <3>1. Agrees(x) BY DEF Mirroring
      <3>2. \A i \in DOMAIN log' : log'[i].obj = x => i \in DOMAIN log BY <2>8, <2>15
      <3>3. server'[x] = server[x] BY <2>8, <2>15
      <3>4. UNCHANGED <<copy, states>> BY <1>1
      <3>5. \A d \in Edits : stage[d] # "local" BY <1>1, <1>2
      <3> QED BY <1>8, <2>8, <2>9, <3>1, <3>2, <3>3, <3>4, <3>5, AgreesKept
    <2>16. UNCHANGED pulling BY <1>1
    <2> QED BY <1>2, <2>5, <2>8, <2>11, <2>13, <2>14, <2>15, <2>16, EditSteps
  <1> QED BY <1>10, <1>12, <1>13

\* The answer goes into the row of its object, takes it away, or makes the first one.
LEMMA WriteCopyMirror ==
    ASSUME SerialInv, Mirroring, NEW e \in Edits, WriteCopy(e)
    PROVE  Mirroring'
  <1>0. PICK f, o, v, l : /\ f = form[e] /\ o = f.obj /\ v = f.reply
                          /\ l = IF f.kind = "create" THEN FreshRow ELSE f.local
    OBVIOUS
  <1>1. /\ stage[e] = "local" /\ UNCHANGED <<log, server, states, cursor, pulling>>
        /\ stage' = [stage EXCEPT ![e] = "mark"]
        /\ form' = [form EXCEPT ![e] = [kind |-> f.kind, local |-> l, obj |-> o,
                                        seen |-> f.seen, base |-> f.base, reply |-> v]]
    BY <1>0 DEF WriteCopy, Move, Fill
  <1>2. /\ \A p \in Pulls : pc[p] = "idle"
        /\ \A d \in Edits \ {e} : stage[d] \in {"idle", "done"}
    BY <1>1, EditAlone
  <1>3. /\ stage'[e] = "mark" /\ form'[e].kind = f.kind /\ form'[e].local = l
        /\ form'[e].obj = o /\ form'[e].reply = v
        /\ \A d \in Edits \ {e} : stage'[d] \in {"idle", "done"} /\ form'[d] = form[d]
    BY <1>1, <1>2 DEF SerialInv, IInv, TypeOK
  <1>4. EditFits(e) /\ EditHolds(e) /\ OneRow /\ LogTells BY DEF SerialInv, Mirroring
  <1>5. /\ o \in Objects /\ v \in Nat /\ f.kind \in {"create", "update", "delete"}
    <2>1. f \in Form BY <1>0 DEF SerialInv, IInv, TypeOK
    <2> QED BY <1>0, <1>1, <1>4, <2>1, TypesAssumption DEF Form, EditFits, Busy
  <1>6. \A m : ~Marking(m) BY <1>1, <1>2 DEF Marking
  <1>7. \A m : Marking(m)' <=> m = l BY <1>1, <1>2, <1>3 DEF Marking
  <1>8. \A m \in DOMAIN copy : m \in DOMAIN states /\ copy[m].obj = states[m].obj
    BY <1>4, <1>6, SerialTypes DEF OneRow
  <1>9. f.kind = "create" =>
          /\ l \notin DOMAIN copy /\ l \notin DOMAIN states /\ NoneOf(o)
          /\ server[o].live \/ Doomed(o)
    <2> SUFFICES ASSUME f.kind = "create"
                 PROVE  /\ l \notin DOMAIN copy /\ l \notin DOMAIN states /\ NoneOf(o)
                        /\ server[o].live \/ Doomed(o)
      OBVIOUS
    <2>1. LocalIds \ Named # {} BY <1>0 DEF WriteCopy
    <2>2. l = FreshRow BY <1>0
    <2> QED BY <1>0, <1>1, <1>4, <2>1, <2>2, FreshIsNew DEF EditHolds
  <1>10. f.kind # "create" => l = f.local /\ l \in DOMAIN states /\ states[l].obj = o
    BY <1>0, <1>1, <1>4 DEF EditFits
  <1>11. ASSUME NEW m \in DOMAIN states, states[m].obj = o PROVE m = l
    BY <1>4, <1>5, <1>9, <1>10, <1>11 DEF OneRow, NoneOf
  <1>12. \A m \in DOMAIN copy : copy[m].obj = o => m = l BY <1>8, <1>11
  <1>13. l \in DOMAIN copy => copy[l].obj = o BY <1>8, <1>9, <1>10
  <1>14. /\ \A m \in DOMAIN copy : m # l => m \in DOMAIN copy' /\ copy'[m] = copy[m]
         /\ \A m \in DOMAIN copy' : m # l => m \in DOMAIN copy /\ copy'[m] = copy[m]
    BY <1>0 DEF WriteCopy, Put, Remove
  <1>15. /\ f.kind = "delete" => l \notin DOMAIN copy'
         /\ f.kind = "create" => l \in DOMAIN copy'
                                 /\ copy'[l] = [obj |-> o, version |-> v, extra |-> FALSE]
         /\ f.kind = "update" => (l \in DOMAIN copy' <=> l \in DOMAIN copy)
         /\ f.kind = "update" /\ l \in DOMAIN copy =>
              copy'[l].obj = o
              /\ (v # 0 => copy'[l] = [obj |-> o, version |-> v, extra |-> FALSE])
    <2>1. CASE f.kind = "delete"
      <3>1. copy' = Remove(copy, l) BY <1>0, <2>1 DEF WriteCopy
      <3> QED BY <2>1, <3>1 DEF Remove
    <2>2. CASE f.kind = "create"
      <3>1. PICK new : new = [obj |-> o, version |-> v, extra |-> FALSE] OBVIOUS
      <3>2. copy' = Put(copy, l, new) BY <1>0, <2>2, <3>1 DEF WriteCopy
      <3>3. l \in DOMAIN Put(copy, l, new) /\ Put(copy, l, new)[l] = new BY DEF Put
      <3> QED BY <2>2, <3>1, <3>2, <3>3
    <2>3. CASE f.kind = "update"
      <3>1. PICK new : new = [obj |-> o, version |-> IF v = 0 THEN copy[l].version ELSE v,
                              extra |-> v = 0]
        OBVIOUS
      <3>2. copy' = IF l \notin DOMAIN copy THEN copy ELSE Put(copy, l, new)
        BY <1>0, <2>3, <3>1 DEF WriteCopy
      <3>3. /\ DOMAIN Put(copy, l, new) = DOMAIN copy \cup {l}
            /\ Put(copy, l, new)[l] = new
        BY DEF Put
      <3>4. new.obj = o /\ (v # 0 => new = [obj |-> o, version |-> v, extra |-> FALSE])
        BY <3>1
      <3>5. l \in DOMAIN copy' <=> l \in DOMAIN copy BY <3>2, <3>3
      <3>6. l \in DOMAIN copy => copy'[l] = new BY <3>2, <3>3
      <3> QED BY <2>3, <3>4, <3>5, <3>6
    <2> QED BY <1>5, <2>1, <2>2, <2>3
  <1>16. l \in DOMAIN copy' => copy'[l].obj = o
    <2>1. [obj |-> o, version |-> v, extra |-> FALSE].obj = o OBVIOUS
    <2> QED BY <1>5, <1>15, <2>1
  <1>17. LogTells'
    BY <1>1, <1>3, <1>4 DEF LogTells
  <1>18. OneRow'
    <2>1. \A m \in DOMAIN copy' : m \in DOMAIN states' \/ Marking(m)'
      BY <1>1, <1>7, <1>8, <1>14
    <2>2. \A m, n \in DOMAIN copy' : copy'[m].obj = copy'[n].obj => m = n
      BY <1>4, <1>12, <1>14, <1>16 DEF OneRow
    <2>3. \A m \in DOMAIN copy', n \in DOMAIN states' : copy'[m].obj = states'[n].obj => m = n
      BY <1>1, <1>4, <1>11, <1>14, <1>16 DEF OneRow
    <2> QED BY <1>1, <1>4, <2>1, <2>2, <2>3 DEF OneRow
  <1>19. \A i : Due(i)' <=> Due(i) BY <1>1 DEF Due
  <1>20. \A i : Known(i)' <=> Known(i)
    <2>1. \A d \in Edits : /\ stage'[d] \in {"local", "mark"} <=> d = e
                           /\ stage[d] \in {"local", "mark"} <=> d = e
      BY <1>1, <1>2, <1>3
    <2> QED BY <1>0, <1>1, <1>3, <2>1 DEF Known
  <1>21. Agrees(o) BY <1>5 DEF Mirroring
  <1>22. server[o].live => Shows(l, o, v)'
    <2> SUFFICES ASSUME server[o].live PROVE Shows(l, o, v)' OBVIOUS
    <2>1. v # 0 /\ f.kind # "delete" BY <1>0, <1>1, <1>4 DEF EditHolds
    <2>2. CASE f.kind = "create" BY <1>15, <2>2 DEF Shows
    <2>3. CASE f.kind = "update"
      <3>1. Shows(l, o, states[l].version) BY <1>6, <1>10, <1>21, <2>3 DEF Agrees
      <3>2. l \in DOMAIN copy BY <3>1 DEF Shows
      <3>3. l \in DOMAIN copy' /\ copy'[l] = [obj |-> o, version |-> v, extra |-> FALSE]
        BY <1>15, <2>1, <2>3, <3>2
      <3> QED BY <3>3 DEF Shows
    <2> QED BY <1>5, <2>1, <2>2, <2>3
  <1>23. EditHolds(e)'
    <2>1. v = 0 \/ f.kind = "delete" => ~server'[o].live /\ server'[o].version # 0
      BY <1>0, <1>1, <1>4 DEF EditHolds
    <2>2. f.kind # "create" /\ v # 0 => states'[l].version <= v
      BY <1>0, <1>1, <1>4, <1>10 DEF EditHolds
    <2>3. f.kind = "create" => l \in DOMAIN copy' \ DOMAIN states'
      BY <1>1, <1>9, <1>15
    <2>4. server'[o].live => Shows(l, o, v)' BY <1>1, <1>22
    <2> QED BY <1>3, <2>1, <2>2, <2>3, <2>4 DEF EditHolds
  <1>24. Agrees(o)'
    <2>1. CASE server[o].live
      <3>1. \A i \in DOMAIN log : log[i].obj = o => Known(i)' \/ Due(i)'
        BY <1>19, <1>20, <1>21, <2>1 DEF Agrees
      <3>2. \A m \in DOMAIN states : states[m].obj = o => Marking(m)' BY <1>7, <1>11
      <3> QED BY <1>1, <2>1, <3>1, <3>2 DEF Agrees
    <2>2. CASE ~server[o].live /\ Doomed(o)
      <3>1. Doomed(o)' BY <1>1, <1>19, <2>2 DEF Doomed
      <3> QED BY <1>1, <2>2, <3>1 DEF Agrees
    <2>3. CASE ~server[o].live /\ ~Doomed(o)
      <3>1. \A i \in DOMAIN log : log[i].obj = o /\ Due(i)' => Known(i)'
        BY <1>19, <1>20, <1>21, <2>3 DEF Agrees
      <3>2. f.kind = "update" => l \notin DOMAIN copy
        <4> SUFFICES ASSUME f.kind = "update", l \in DOMAIN copy PROVE FALSE OBVIOUS
        <4>1. \E d \in Edits : stage[d] = "local" /\ form[d].kind = "delete"
          BY <1>13, <1>21, <2>3 DEF Agrees
        <4> QED BY <1>0, <1>2, <4>1
      <3>3. l \notin DOMAIN copy' BY <1>5, <1>9, <1>15, <2>3, <3>2
      <3>4. \A m \in DOMAIN copy' : copy'[m].obj # o BY <1>12, <1>14, <3>3
      <3> QED BY <1>1, <2>3, <3>1, <3>4 DEF Agrees
    <2> QED BY <2>1, <2>2, <2>3
  <1>25. ASSUME NEW x \in Objects, x # o PROVE Agrees(x)'
    <2>1. Agrees(x) BY DEF Mirroring
    <2>2. \A m \in DOMAIN copy : copy[m].obj = x => m \in DOMAIN copy' /\ copy'[m] = copy[m]
      BY <1>13, <1>14, <1>25
    <2>3. \A m \in DOMAIN copy' : copy'[m].obj = x => m \in DOMAIN copy /\ copy'[m] = copy[m]
      BY <1>14, <1>16, <1>25
    <2>4. CASE server[x].live \/ ~(\E m \in DOMAIN copy : copy[m].obj = x)
      <3>1. CASE server[x].live
        <4>1. \A i \in DOMAIN log : log[i].obj = x => Known(i)' \/ Due(i)'
          BY <1>19, <1>20, <2>1, <3>1 DEF Agrees
        <4>2. ASSUME NEW m \in DOMAIN states, states[m].obj = x
              PROVE  Shows(m, x, states[m].version)'
          <5>1. Shows(m, x, states[m].version) BY <1>6, <2>1, <3>1, <4>2 DEF Agrees
          <5>2. m \in DOMAIN copy /\ copy[m].obj = x BY <5>1 DEF Shows
          <5>3. m \in DOMAIN copy' /\ copy'[m] = copy[m] BY <2>2, <5>2
          <5> QED BY <1>1, <5>1, <5>3 DEF Shows
        <4> QED BY <1>1, <3>1, <4>1, <4>2 DEF Agrees
      <3>2. CASE ~server[x].live /\ Doomed(x)
        <4>1. Doomed(x)' BY <1>1, <1>19, <3>2 DEF Doomed
        <4> QED BY <1>1, <3>2, <4>1 DEF Agrees
      <3>3. CASE ~server[x].live /\ ~Doomed(x)
        <4>1. \A i \in DOMAIN log : log[i].obj = x /\ Due(i)' => Known(i)'
          BY <1>19, <1>20, <2>1, <3>3 DEF Agrees
        <4>2. \A m \in DOMAIN copy' : copy'[m].obj # x BY <2>3, <2>4, <3>3
        <4> QED BY <1>1, <3>3, <4>1, <4>2 DEF Agrees
      <3> QED BY <3>1, <3>2, <3>3
    <2>5. CASE ~server[x].live /\ \E m \in DOMAIN copy : copy[m].obj = x
      <3>1. PICK m \in DOMAIN copy : copy[m].obj = x BY <2>5
      <3>2. ~(\E d \in Edits : /\ stage[d] = "local" /\ form[d].kind = "delete"
                               /\ form[d].local = m)
        BY <1>0, <1>2, <1>8, <1>10, <1>25, <3>1
      <3>3. Doomed(x) BY <2>1, <2>5, <3>1, <3>2 DEF Agrees
      <3>4. Doomed(x)' BY <1>1, <1>19, <3>3 DEF Doomed
      <3> QED BY <1>1, <2>5, <3>4 DEF Agrees
    <2> QED BY <2>4, <2>5
  <1>26. UNCHANGED pulling BY <1>1
  <1> QED BY <1>1, <1>2, <1>17, <1>18, <1>23, <1>24, <1>25, <1>26, EditSteps

\* The state that is saved after an answer knows what the answer did.
LEMMA MarkResultMirror ==
    ASSUME SerialInv, Mirroring, NEW e \in Edits, MarkResult(e)
    PROVE  Mirroring'
  <1>0. PICK f, o, l : f = form[e] /\ o = f.obj /\ l = f.local OBVIOUS
  <1>1. PICK v, new : /\ v = IF f.reply # 0 THEN f.reply
                             ELSE IF l \in DOMAIN states THEN states[l].version ELSE 0
                      /\ new = [obj |-> o, version |-> v]
    OBVIOUS
  <1>2. /\ stage[e] = "mark" /\ UNCHANGED <<log, server, copy, cursor, pulling, form>>
        /\ stage' = [stage EXCEPT ![e] = "done"]
        /\ states' = Put(states, l, new)
    BY <1>0, <1>1 DEF MarkResult, Move
  <1>3. /\ \A p \in Pulls : pc[p] = "idle"
        /\ \A d \in Edits \ {e} : stage[d] \in {"idle", "done"}
    BY <1>2, EditAlone
  <1>4. \A d \in Edits : stage'[d] \in {"idle", "done"}
    BY <1>2, <1>3 DEF SerialInv, IInv, TypeOK
  <1>5. EditFits(e) /\ EditHolds(e) /\ OneRow /\ LogTells BY DEF SerialInv, Mirroring
  <1>6. /\ o \in Objects /\ f.reply \in Nat /\ server[o].version \in Nat
        /\ l \in DOMAIN states => states[l].version \in Nat
    <2>1. f \in Form BY <1>0 DEF SerialInv, IInv, TypeOK
    <2>2. o \in Objects /\ f.reply \in Nat BY <1>0, <2>1 DEF Form
    <2> QED BY <2>2, SerialTypes
  <1>7. /\ f.kind # "create" => l \in DOMAIN states /\ states[l].obj = o
        /\ f.kind = "create" => l \in DOMAIN copy /\ l \notin DOMAIN states /\ f.reply # 0
        /\ l \in DOMAIN copy => copy[l].obj = o
    BY <1>0, <1>2, <1>5 DEF EditFits, EditHolds
  <1>8. /\ v \in Nat /\ v <= server[o].version /\ f.reply <= v
        /\ l \in DOMAIN states => states[l].version <= v
    <2>1. f.reply <= server[o].version BY <1>0, <1>2, <1>5 DEF EditFits
    <2>2. f.kind # "create" /\ f.reply # 0 => states[l].version <= f.reply
      BY <1>0, <1>2, <1>5 DEF EditHolds
    <2>3. l \in DOMAIN states => states[l].version <= server[o].version
      BY <1>5, <1>7 DEF OneRow
    <2>4. CASE f.reply # 0 BY <1>1, <1>6, <1>7, <2>1, <2>2, <2>4
    <2>5. CASE f.reply = 0 BY <1>1, <1>6, <1>7, <2>3, <2>5
    <2> QED BY <2>4, <2>5
  <1>9. new.obj = o /\ new.version = v BY <1>1
  <1>10. /\ DOMAIN states' = DOMAIN states \cup {l} /\ states'[l] = new
         /\ \A m \in DOMAIN states : m # l => states'[m] = states[m]
    BY <1>2 DEF Put
  <1>11. /\ \A m : Marking(m) => m = l
         /\ \A m : ~Marking(m)'
    BY <1>0, <1>2, <1>3, <1>4 DEF Marking
  <1>12. ASSUME NEW m \in DOMAIN states, states[m].obj = o PROVE m = l
    BY <1>5, <1>7, <1>12 DEF OneRow
  <1>13. ASSUME NEW m \in DOMAIN copy, copy[m].obj = o PROVE m = l
    BY <1>5, <1>7, <1>13 DEF OneRow
  <1>14. OneRow'
    <2>1. \A m \in DOMAIN states' : states'[m].version <= server'[states'[m].obj].version
      BY <1>2, <1>5, <1>8, <1>9, <1>10 DEF OneRow
    <2>2. \A m \in DOMAIN copy' : m \in DOMAIN states'
      BY <1>2, <1>5, <1>10, <1>11 DEF OneRow
    <2>3. \A m, n \in DOMAIN states' : states'[m].obj = states'[n].obj => m = n
      BY <1>5, <1>9, <1>10, <1>12 DEF OneRow
    <2>4. \A m \in DOMAIN copy', n \in DOMAIN states' : copy'[m].obj = states'[n].obj => m = n
      BY <1>2, <1>5, <1>9, <1>10, <1>13 DEF OneRow
    <2> QED BY <1>2, <1>5, <2>1, <2>2, <2>3, <2>4 DEF OneRow
  <1>15. LogTells' BY <1>2, <1>4, <1>5 DEF LogTells
  <1>16. EditHolds(e)' BY <1>4 DEF EditHolds
  <1>17. \A i : Due(i)' <=> Due(i) BY <1>2 DEF Due
  <1>18. ASSUME NEW i \in DOMAIN log, Known(i) PROVE Known(i)'
    <2>1. log[i].version \in Nat /\ \A m \in DOMAIN states : states[m].version \in Nat
      BY SerialTypes
    <2>2. CASE \E m \in DOMAIN states :
                 states[m].obj = log[i].obj /\ log[i].version <= states[m].version
      <3>1. PICK m \in DOMAIN states :
              states[m].obj = log[i].obj /\ log[i].version <= states[m].version
        BY <2>2
      <3>2. CASE m = l
        <4>1. states[l].obj = o BY <1>7, <3>1, <3>2
        <4>2. log[i].obj = o /\ log[i].version <= v BY <1>8, <2>1, <3>1, <3>2, <4>1
        <4> QED BY <1>2, <1>9, <1>10, <4>2 DEF Known
      <3>3. CASE m # l
        <4>1. m \in DOMAIN states' /\ states'[m] = states[m] BY <1>10, <3>3
        <4> QED BY <1>2, <3>1, <4>1 DEF Known
      <3> QED BY <3>2, <3>3
    <2>3. CASE \E d \in Edits : /\ stage[d] \in {"local", "mark"} /\ form[d].obj = log[i].obj
                                /\ log[i].version <= form[d].reply
      <3>1. log[i].obj = o /\ log[i].version <= f.reply BY <1>0, <1>3, <2>3
      <3>2. log[i].version <= v BY <1>6, <1>8, <2>1, <3>1
      <3> QED BY <1>2, <1>9, <1>10, <3>1, <3>2 DEF Known
    <2> QED BY <1>18, <2>2, <2>3 DEF Known
  <1>19. Agrees(o) BY <1>6 DEF Mirroring
  <1>20. Agrees(o)'
    <2>1. CASE server[o].live
      <3>1. \A i \in DOMAIN log : log[i].obj = o => Known(i)' \/ Due(i)'
        BY <1>17, <1>18, <1>19, <2>1 DEF Agrees
      <3>2. f.reply # 0 /\ Shows(l, o, f.reply) BY <1>0, <1>2, <1>5, <2>1 DEF EditHolds
      <3>3. v = f.reply BY <1>1, <3>2
      <3>4. Shows(l, o, v)' BY <1>2, <3>2, <3>3 DEF Shows
      <3>5. ASSUME NEW m \in DOMAIN states', states'[m].obj = o
            PROVE  Shows(m, o, states[m].version)'
        <4>1. m = l BY <1>10, <1>12, <3>5
        <4> QED BY <1>9, <1>10, <3>4, <4>1 DEF Shows
      <3> QED BY <1>2, <2>1, <3>1, <3>5 DEF Agrees
    <2>2. CASE ~server[o].live /\ Doomed(o)
      <3>1. Doomed(o)' BY <1>2, <1>17, <2>2 DEF Doomed
      <3> QED BY <1>2, <2>2, <3>1 DEF Agrees
    <2>3. CASE ~server[o].live /\ ~Doomed(o)
      <3>1. \A i \in DOMAIN log : log[i].obj = o /\ Due(i)' => Known(i)'
        BY <1>17, <1>18, <1>19, <2>3 DEF Agrees
      <3>2. \A m \in DOMAIN copy : copy[m].obj # o
        BY <1>2, <1>3, <1>19, <2>3 DEF Agrees
      <3> QED BY <1>2, <2>3, <3>1, <3>2 DEF Agrees
    <2> QED BY <2>1, <2>2, <2>3
  <1>21. ASSUME NEW x \in Objects, x # o PROVE Agrees(x)'
    <2>1. Agrees(x) BY DEF Mirroring
    <2>2. ASSUME NEW m \in DOMAIN states', states'[m].obj = x
          PROVE  m \in DOMAIN states /\ states'[m] = states[m] /\ (Marking(m) => Marking(m)')
      BY <1>9, <1>10, <1>11, <1>21, <2>2
    <2>3. \A d \in Edits : stage[d] # "local" BY <1>2, <1>3
    <2>4. UNCHANGED <<log, server, copy>> BY <1>2
    <2> QED BY <1>17, <1>18, <2>1, <2>2, <2>3, <2>4, AgreesKept
  <1>22. UNCHANGED pulling BY <1>2
  <1> QED BY <1>2, <1>3, <1>14, <1>15, <1>16, <1>20, <1>21, <1>22, EditSteps

(* The empty device and the empty server agree. *)
LEMMA InitMirror == Init => MirrorInv
  <1> SUFFICES ASSUME Init PROVE MirrorInv OBVIOUS
  <1>1. /\ log = <<>> /\ copy = Nothing /\ states = Nothing
        /\ DOMAIN log = {} /\ DOMAIN copy = {} /\ DOMAIN states = {} /\ Len(log) = 0
        /\ \A o \in Objects : server[o].live = FALSE
        /\ \A p \in Pulls : /\ pc[p] = "idle" /\ page[p] = {} /\ failed[p] = FALSE
        /\ \A e \in Edits : stage[e] = "idle"
    BY DEF Init, Nothing
  <1>2. LogTells BY <1>1, BoundsAssumption DEF LogTells
  <1>3. OneRow BY <1>1 DEF OneRow
  <1>4. \A p \in Pulls : PullHolds(p) BY <1>1 DEF PullHolds
  <1>5. \A e \in Edits : EditHolds(e) BY <1>1 DEF EditHolds
  <1>6. \A o \in Objects : Agrees(o) BY <1>1 DEF Agrees
  <1> QED BY <1>2, <1>3, <1>4, <1>5, <1>6, InitSerial DEF MirrorInv, Mirroring

(* While nothing has failed, every step keeps the device in agreement with the log. *)
LEMMA StepMirroring ==
    ASSUME Concurrent = FALSE, Restore = FALSE, OneLength,
           SerialInv, Mirroring, faults \in Nat, faults' = 0, faults = 0, Next
    PROVE  Mirroring'
  <1>0. ~Fault BY DEF Fault
  <1>1. ASSUME NEW o \in Objects, NEW a \in {"upsert", "delete"}, OtherWrite(o, a)
        PROVE  Mirroring'
    BY <1>1, OtherWriteMirror
  <1>2. ASSUME NEW p \in Pulls, StartPull(p) PROVE Mirroring'
    BY <1>2, StartPullMirror
  <1>3. ASSUME NEW p \in Pulls, PullStep(p) PROVE Mirroring'
    <2>1. CASE ApplyStep(p)
      <3>1. ASSUME NEW i \in page[p], NEW l \in LocalIds \cup {NoRow}, ReadState(p, i, l)
            PROVE  Mirroring'
        BY <3>1, ReadStateMirror
      <3> QED BY <2>1, <3>1, DeleteCopyMirror, RemoveStateMirror, UpsertCopyMirror,
                 MarkSyncedMirror DEF ApplyStep
    <2> QED BY <1>3, <2>1, FetchMirror, PageEndsMirror DEF PullStep
  <1>4. ASSUME NEW p \in Pulls, ChangeFails(p) \/ RequestFails(p) PROVE FALSE
    BY <1>0, <1>4 DEF ChangeFails, RequestFails
  <1>5. ASSUME NEW e \in Edits,
               (\E kind \in Kinds, l \in LocalIds : OpenForm(e, kind, l))
                  \/ (\E o \in Objects : StartCreate(e, o))
        PROVE  Mirroring'
    BY <1>5, StartFormMirror
  <1>6. ASSUME NEW e \in Edits, EditStep(e) \/ CloseForm(e) PROVE Mirroring'
    BY <1>6, OpenFormMirror, SendMirror, WriteCopyMirror, MarkResultMirror DEF EditStep
  <1>7. ASSUME NEW e \in Edits, AnswerLost(e) PROVE FALSE BY <1>0, <1>7 DEF AnswerLost
  <1>8. ~Crash BY <1>0 DEF Crash
  <1> QED BY <1>1, <1>2, <1>3, <1>4, <1>5, <1>6, <1>7, <1>8 DEF Next

(* A step in which nothing changes keeps it too. *)
LEMMA StutterMirroring == ASSUME Mirroring, UNCHANGED vars PROVE Mirroring'
  BY DEF vars, Mirroring, LogTells, OneRow, PullHolds, EditHolds, Agrees, Due, Known,
         Marking, NoneOf, Doomed, Shows

(* Faults are only ever counted up. *)
LEMMA FaultsStay == ASSUME TypeOK, [Next]_vars PROVE faults' = 0 => faults = 0
  <1>1. faults \in Nat BY DEF TypeOK
  <1>2. UNCHANGED faults \/ Fault
    <2>1. ASSUME NEW o \in Objects, NEW a \in {"upsert", "delete"}, OtherWrite(o, a)
          PROVE  UNCHANGED faults
      BY <2>1 DEF OtherWrite
    <2>2. ASSUME NEW p \in Pulls, StartPull(p) \/ PullStep(p) PROVE UNCHANGED faults
      BY <2>2 DEF StartPull, PullStep, ApplyStep, Fetch, ReadState, DeleteCopy, RemoveState,
                  UpsertCopy, MarkSynced, EndPage, Ack, SaveCursor
    <2>3. ASSUME NEW p \in Pulls, ChangeFails(p) \/ RequestFails(p) PROVE Fault
      BY <2>3 DEF ChangeFails, RequestFails
    <2>4. ASSUME NEW e \in Edits,
                 (\E kind \in Kinds, l \in LocalIds : OpenForm(e, kind, l))
                    \/ (\E o \in Objects : StartCreate(e, o))
          PROVE  UNCHANGED faults
      BY <2>4 DEF OpenForm, StartCreate
    <2>5. ASSUME NEW e \in Edits, EditStep(e) \/ CloseForm(e) PROVE UNCHANGED faults
      BY <2>5 DEF EditStep, ReadBase, Send, WriteCopy, MarkResult, CloseForm
    <2>6. ASSUME NEW e \in Edits, AnswerLost(e) PROVE Fault BY <2>6 DEF AnswerLost
    <2>7. Crash => Fault BY DEF Crash
    <2>8. UNCHANGED vars => UNCHANGED faults BY DEF vars
    <2> QED BY <2>1, <2>2, <2>3, <2>4, <2>5, <2>6, <2>7, <2>8 DEF Next
  <1> QED BY <1>1, <1>2 DEF Fault

(* Every step keeps the invariant. *)
LEMMA StepMirror ==
    ASSUME Concurrent = FALSE, Restore = FALSE, OneLength
    PROVE  MirrorInv /\ [Next]_vars => MirrorInv'
  <1> SUFFICES ASSUME MirrorInv, [Next]_vars PROVE MirrorInv' OBVIOUS
  <1>1. SerialInv /\ SerialInv' BY StepSerial DEF MirrorInv
  <1>2. TypeOK /\ faults \in Nat BY <1>1 DEF SerialInv, IInv, TypeOK
  <1>3. ASSUME faults' = 0 PROVE Mirroring'
    <2>1. faults = 0 BY <1>2, <1>3, FaultsStay
    <2>2. Mirroring BY <2>1 DEF MirrorInv
    <2>3. Next => Mirroring' BY <1>1, <1>2, <1>3, <2>1, <2>2, StepMirroring
    <2> QED BY <2>2, <2>3, StutterMirroring
  <1> QED BY <1>1, <1>3 DEF MirrorInv

(* At rest and with nothing left to pull, agreement leaves no difference: of an object the
   server has, the newest change is known, by the one row there is; of one it has no more,
   neither a deletion to pull nor one under way explains a row. *)
LEMMA AgreementIsConvergence == MirrorInv => ConvergedUnlessFailed
  <1> SUFFICES ASSUME SerialInv, Mirroring, Quiet, CaughtUp, NEW o \in Objects
               PROVE  Mirrors(o)
    BY DEF MirrorInv, ConvergedUnlessFailed, Converged
  <1>1. \A i \in DOMAIN log : ~Due(i) BY DEF CaughtUp, Theirs, Due
  <1>2. /\ \A p \in Pulls : pc[p] = "idle"
        /\ \A e \in Edits : stage[e] \in {"idle", "done"}
        /\ \A l : ~Marking(l)
    BY DEF Quiet, Marking
  <1>3. Agrees(o) /\ OneRow /\ LogTells BY DEF Mirroring
  <1>4. PICK shown : shown = {l \in DOMAIN copy : copy[l].obj = o} OBVIOUS
  <1>5. CASE server[o].live
    <2>1. PICK i \in DOMAIN log : log[i].obj = o /\ log[i].version = server[o].version
      BY <1>3, <1>5 DEF LogTells
    <2>2. Known(i) BY <1>1, <1>3, <1>5, <2>1 DEF Agrees
    <2>3. PICK l \in DOMAIN states : states[l].obj = o /\ server[o].version <= states[l].version
      BY <1>2, <2>1, <2>2 DEF Known
    <2>4. states[l].version = server[o].version BY <1>3, <2>3, SerialTypes DEF OneRow
    <2>5. l \in DOMAIN copy
          /\ copy[l] = [obj |-> o, version |-> server[o].version, extra |-> FALSE]
      BY <1>2, <1>3, <1>5, <2>3, <2>4 DEF Agrees, Shows
    <2>6. states[l] = [obj |-> o, version |-> server[o].version]
      <3>1. states[l] \in State BY <2>3 DEF SerialInv, IInv, TypeOK, PartialMap
      <3> QED BY <2>3, <2>4, <3>1 DEF State
    <2>7. copy[l].obj = o BY <2>5
    <2>8. shown = {l} BY <1>3, <1>4, <2>5, <2>7 DEF OneRow
    <2>9. Cardinality(shown) = 1 BY <2>8, FS_Singleton
    <2> QED BY <1>4, <1>5, <2>3, <2>5, <2>6, <2>8, <2>9 DEF Mirrors
  <1>6. CASE ~server[o].live
    <2>1. ~Doomed(o) BY <1>1 DEF Doomed
    <2>2. \A l \in DOMAIN copy : copy[l].obj # o BY <1>2, <1>3, <1>6, <2>1 DEF Agrees
    <2> QED BY <1>6, <2>2 DEF Mirrors
  <1> QED BY <1>5, <1>6

\* When one thing runs at a time, nobody restores what was deleted and the ids all have the
\* same number of digits, a device on which nothing has failed, that has pulled to the end
\* and has nothing under way, shows every object once and as the server has it, and nothing
\* else: whatever the sizes and the orders of the pages, the priorities of the types, and
\* the writes of this device and of the others.
THEOREM DeviceMirrorsServer ==
    ASSUME Concurrent = FALSE, Restore = FALSE, OneLength
    PROVE  Spec => []ConvergedUnlessFailed
  <1> QED BY InitMirror, StepMirror, AgreementIsConvergence, PTL DEF Spec
=============================================================================
