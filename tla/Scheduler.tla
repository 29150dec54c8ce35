------------------------------ MODULE Scheduler ------------------------------
(***************************************************************************)
(* SchedulerService: draft runs that place tasks in the free time of a     *)
(* range, their acceptance into schedule segments, their rejection, and    *)
(* the deviations between segments and what was done.                      *)
(*                                                                         *)
(* Time is 0..Horizon, the range of every run; order of tasks by score and *)
(* the wish to ask the language model are free choices.                    *)
(***************************************************************************)
EXTENDS Integers, Sequences, FiniteSets, SequencesExt

CONSTANTS
    Horizon,
    MinBlock,       \* 15 minutes: shorter free blocks are dropped
    MaxIterations,  \* 1000: occurrences of a recurring event looked at
    TaskTables,     \* possible payloads of the tasks: a set of [Tasks -> TaskPayload]
    EventPool,      \* calendar events a user may add
    WorkWindows,    \* possible sets of work windows, cut to the range
    Replies,        \* what the language model may answer: sequences of drafts
    Overrides,      \* modifiedItems a user may send: an item and an interval
    LogPool,        \* confirmed actual logs: an interval and a task
    Runs,           \* schedule_runs
    Accepts,        \* accept requests that may run side by side
    Detects,        \* deviation requests that may run side by side
    MaxSchedSteps   \* bound: requests and edits

ASSUME SchedBounds == Horizon \in Nat /\ MinBlock \in Nat \ {0} /\ MaxIterations \in Nat
ASSUME EventsHaveLength ==
    \A e \in EventPool : e.start \in Int /\ e.end \in Int /\ e.every \in Nat /\ e.start < e.end

VARIABLES
    taskTable,   \* payloads of the task objects
    workWindows, \* work hours of the user's settings, cut to the range
    events,      \* blocking calendar events
    logs,        \* confirmed actual logs with their work logs
    run,         \* schedule_runs with their draft items
    segment,     \* live task_schedule_segment objects
    accept, detect,
    deviation,   \* plan_deviations, detected: how many rows of each
    schedSteps

schedVars == <<taskTable, workWindows, events, logs, run, segment, accept, detect,
               deviation, schedSteps>>

SchedTasks == UNION {DOMAIN t : t \in TaskTables}
Interval   == [start: Int, end: Int]
\* readTasks: a chunk is not empty and the longest not shorter than the shortest.
TaskPayload == {p \in [estimate: Nat, earliest: Int, latest: Int, min: Nat \ {0}, max: Nat,
                       canSplit: BOOLEAN, auto: BOOLEAN] : p.min <= p.max}
ItemStates == {"pending", "accepted", "modified", "rejected"}
Later(a, b)   == IF a > b THEN a ELSE b
Earlier(a, b) == IF a < b THEN a ELSE b
Overlap(a, b) == a.start < b.end /\ a.end > b.start
Span(i)       == [start |-> i.start, end |-> i.end]

ASSUME TasksHaveTypes ==
    IsFiniteSet(SchedTasks) /\ TaskTables \subseteq [SchedTasks -> TaskPayload]
ASSUME WindowsHaveTypes == \A w \in WorkWindows : w \subseteq Interval
ASSUME RepliesHaveTypes == Replies \subseteq Seq([task: SchedTasks, start: Int, end: Int])

NoRun    == [status |-> "none", items |-> <<>>, busy |-> {}, left |-> [t \in SchedTasks |-> 0]]
NoAccept == [pc |-> "idle", run |-> 0, selected |-> {}, all |-> FALSE, rejected |-> {},
             override |-> [item |-> 0, start |-> 0, end |-> 0]]
NoDetect == [pc |-> "idle", segments |-> {}, logs |-> {}]

SchedInit ==
    /\ taskTable \in TaskTables /\ workWindows \in WorkWindows
    /\ events = {} /\ logs = {}
    /\ run = [r \in Runs |-> NoRun]
    /\ segment = {}
    /\ accept = [p \in Accepts |-> NoAccept]
    /\ detect = [p \in Detects |-> NoDetect]
    /\ deviation = {}
    /\ schedSteps = 0

SchedStep == schedSteps < MaxSchedSteps /\ schedSteps' = schedSteps + 1

-----------------------------------------------------------------------------
(* What a run reads *)

(* expandEventOccurrences, and the single event. *)
Occurrences(e) ==
    LET steps == IF e.every = 0 THEN {0} ELSE 0..(MaxIterations - 1)
        at(k) == [start |-> e.start + k * e.every, end |-> e.end + k * e.every]
    IN  {o \in {at(k) : k \in steps} : o.start < Horizon /\ o.end > 0}

(* readBusyBlocks: cut to the range. *)
BusyBlocks ==
    {[start |-> Later(o.start, 0), end |-> Earlier(o.end, Horizon)]
       : o \in UNION {Occurrences(e) : e \in events}}

(* computeFreeBlocks: the gaps the sweep over the busy blocks leaves. *)
FreeBlocks(busy) ==
    {g \in [start: {0} \cup {b.end : b \in busy}, end: {Horizon} \cup {b.start : b \in busy}] :
        g.end - g.start >= MinBlock /\ ~ \E b \in busy : Overlap(g, b)}

(* applyWorkBlocks *)
InWorkHours(free, work) ==
    LET parts == {[start |-> Later(f.start, w.start), end |-> Earlier(f.end, w.end)]
                    : f \in free, w \in work}
        kept == {p \in parts : p.end - p.start >= MinBlock}
    IN  CHOOSE s \in SetToSeqs(kept) : \A i, j \in DOMAIN s : i < j => s[i].start <= s[j].start

(* computeWorkBlocks: no work hours, or none in the range, mean the whole range. *)
WorkBlocks ==
    IF workWindows = {} THEN {[start |-> 0, end |-> Horizon]} ELSE workWindows

(* readTasks: what is left is the estimate less the confirmed minutes. *)
Remaining(t) ==
    LET worked == Cardinality({l \in logs : l.task = t})
    IN  Later(0, taskTable[t].estimate - worked)

Blocked(t) == ~taskTable[t].auto \/ taskTable[t].latest <= 0
ToPlan == {t \in SchedTasks : Remaining(t) > 0 /\ ~Blocked(t)}

-----------------------------------------------------------------------------
(* plan: one pass over the blocks for each task, in the order of score. *)

ConsumedMutant(block, end) == block

(* The block the next task sees starts where this one ends. *)
Consumed(block, end) == [block EXCEPT !.start = end]

Place(acc, t, i) ==
    LET task  == taskTable[t]
        start == Later(task.earliest, acc.blocks[i].start)
        room  == Earlier(task.latest, acc.blocks[i].end) - start
        size  == Earlier(acc.left[t], Earlier(room, task.max))
    IN  IF /\ room >= task.min /\ acc.left[t] > 0
           /\ task.canSplit \/ room >= acc.left[t]
        THEN [blocks |-> [acc.blocks EXCEPT ![i] = Consumed(@, start + size)],
              left   |-> [acc.left EXCEPT ![t] = @ - size],
              items  |-> Append(acc.items, [task |-> t, start |-> start, end |-> start + size,
                                            by |-> "rule"])]
        ELSE acc

Indices(s) == [i \in 1..Len(s) |-> i]

PlanTask(acc, t, blocks) == FoldLeft(LAMBDA a, i : Place(a, t, i), acc, Indices(blocks))

RulePlan(order, blocks) ==
    FoldLeft(LAMBDA acc, t : PlanTask(acc, t, blocks),
             [blocks |-> blocks, items |-> <<>>, left |-> [t \in SchedTasks |-> Remaining(t)]],
             order)

(* validateLlmDrafts: a draft of the model that fits is taken, others are
   dropped one by one. *)
Fits(draft, taken) ==
    LET task == taskTable[draft.task]
        size == draft.end - draft.start
    IN  /\ draft.start < draft.end /\ ~Blocked(draft.task)
        /\ draft.start >= 0 /\ draft.end <= Horizon
        /\ draft.start >= task.earliest /\ draft.end <= task.latest
        /\ size >= task.min /\ size <= task.max
        /\ ~ \E b \in taken : Overlap(draft, b)

TakeDraft(acc, d, busy) ==
    IF Fits(d, busy \cup {Span(acc[i]) : i \in DOMAIN acc})
    THEN Append(acc, [task |-> d.task, start |-> d.start, end |-> d.end, by |-> "llm"])
    ELSE acc

Validated(reply, items, busy) == FoldLeft(LAMBDA acc, d : TakeDraft(acc, d, busy), items, reply)

(* createRun up to the transaction: the reads, the plan, the model's answer. *)
PlanRun(r) ==
    /\ SchedStep /\ run[r].status = "none"
    /\ \E order \in SetToSeqs(ToPlan), reply \in Replies :
         LET busy  == BusyBlocks
             plan  == RulePlan(order, InWorkHours(FreeBlocks(busy), WorkBlocks))
             items == Validated(reply, plan.items, busy)
         IN  run' = [run EXCEPT ![r] =
                       [status |-> "planned", busy |-> busy,
                        left |-> [t \in SchedTasks |-> Remaining(t)],
                        items |-> [i \in DOMAIN items |->
                                     [job |-> items[i], status |-> "pending",
                                      at |-> Span(items[i])]]]]
    /\ UNCHANGED <<taskTable, workWindows, events, logs, segment, accept, detect, deviation>>

(* createRun's transaction. *)
InsertRun(r) ==
    /\ run[r].status = "planned"
    /\ run' = [run EXCEPT ![r].status = "draft"]
    /\ UNCHANGED <<taskTable, workWindows, events, logs, segment, accept, detect, deviation,
                   schedSteps>>

-----------------------------------------------------------------------------
(* acceptRun: the run and its items are read without a lock ... *)

AcceptRead(p, r) ==
    /\ SchedStep /\ accept[p].pc = "idle" /\ run[r].status = "draft"
    /\ LET items == {i \in DOMAIN run[r].items : run[r].items[i].status = "pending"}
       IN  \E wanted, refused \in SUBSET items, o \in Overrides \cup {NoAccept.override} :
             LET selected == {i \in items \ refused :
                                wanted = {} \/ i \in wanted \/ o.item = i}
             IN  accept' = [accept EXCEPT ![p] =
                              [pc |-> "read", run |-> r, selected |-> selected,
                               all |-> selected = items, rejected |-> refused, override |-> o]]
    /\ UNCHANGED <<taskTable, workWindows, events, logs, run, segment, detect, deviation>>

(* ... and what was read decides what is written. *)
TimesOf(a, i) == IF a.override.item = i THEN Span(a.override) ELSE Span(run[a.run].items[i].job)
Written(a)    == {i \in a.selected : TimesOf(a, i).start < TimesOf(a, i).end}

Upserted(a) ==
    {s \in segment : s.run # a.run \/ s.item \notin Written(a)}
      \cup {[run |-> a.run, item |-> i, at |-> TimesOf(a, i)] : i \in Written(a)}

ItemAfterMutant(a, i, item) ==
    LET done == IF i \in Written(a) THEN [item EXCEPT !.status = "accepted"] ELSE item
    IN  IF i \in a.rejected THEN [done EXCEPT !.status = "rejected"] ELSE done

ItemAfter(a, i, item) ==
    LET done == IF i \notin Written(a) THEN item
                ELSE IF a.override.item = i
                     THEN [item EXCEPT !.status = "modified", !.at = TimesOf(a, i)]
                     ELSE [item EXCEPT !.status = "accepted"]
    IN  IF i \in a.rejected THEN [done EXCEPT !.status = "rejected"] ELSE done

AcceptWrite(p) ==
    LET a == accept[p]
    IN  /\ a.pc = "read"
        /\ segment' = Upserted(a)
        /\ run' = [run EXCEPT
                     ![a.run].items = [i \in DOMAIN @ |-> ItemAfter(a, i, @[i])],
                     ![a.run].status = IF a.all THEN "accepted" ELSE "partially_accepted"]
        /\ accept' = [accept EXCEPT ![p] = NoAccept]
        /\ UNCHANGED <<taskTable, workWindows, events, logs, detect, deviation, schedSteps>>

(* A failed statement, or a deadlock with a rejection that locks in the other order. *)
AcceptFails(p) ==
    /\ accept[p].pc = "read"
    /\ accept' = [accept EXCEPT ![p] = NoAccept]
    /\ UNCHANGED <<taskTable, workWindows, events, logs, run, segment, detect, deviation,
                   schedSteps>>

(* rejectRun: the run only as a draft, its items whenever they are pending. *)
RejectRun(r) ==
    /\ SchedStep /\ run[r].status \notin {"none", "planned"}
    /\ run' = [run EXCEPT
                 ![r].status = IF @ = "draft" THEN "rejected" ELSE @,
                 ![r].items = [i \in DOMAIN @ |->
                                 IF @[i].status = "pending"
                                 THEN [@[i] EXCEPT !.status = "rejected"] ELSE @[i]]]
    /\ UNCHANGED <<taskTable, workWindows, events, logs, segment, accept, detect, deviation>>

-----------------------------------------------------------------------------
(* detectDeviations: reads, then a transaction that inserts what is missing. *)

DetectRead(p) ==
    /\ SchedStep /\ detect[p].pc = "idle"
    /\ detect' = [detect EXCEPT ![p] = [pc |-> "read", segments |-> segment, logs |-> logs]]
    /\ UNCHANGED <<taskTable, workWindows, events, logs, run, segment, accept, deviation>>

(* The log that answers for a segment is the first that overlaps it. *)
Verdicts(d) ==
    LET taskOf(s) == run[s.run].items[s.item].job.task
        meets(s)  == {l \in d.logs : Overlap(l, s.at)}
        ofSegment(s) ==
            IF meets(s) = {} THEN {{[kind |-> "missed", run |-> s.run, item |-> s.item]}}
            ELSE {IF l.task = taskOf(s) THEN {}
                  ELSE {[kind |-> "different_activity", run |-> s.run, item |-> s.item, log |-> l]}
                    : l \in meets(s)}
        unplanned == {[kind |-> "actual_unplanned", log |-> l]
                        : l \in {l \in d.logs : ~ \E s \in d.segments : Overlap(l, s.at)}}
    IN  {unplanned \cup UNION {f[s] : s \in d.segments}
           : f \in {g \in [d.segments -> UNION {ofSegment(s) : s \in d.segments}] :
                      \A s \in d.segments : g[s] \in ofSegment(s)}}

DetectWrite(p) ==
    /\ detect[p].pc = "read"
    /\ \E found \in Verdicts(detect[p]) : deviation' = deviation \cup found
    /\ detect' = [detect EXCEPT ![p] = NoDetect]
    /\ UNCHANGED <<taskTable, workWindows, events, logs, run, segment, accept, schedSteps>>

-----------------------------------------------------------------------------
(* The user: events, confirmed work, segments deleted through the sync. *)

EditEvents ==
    /\ SchedStep
    /\ \E e \in EventPool : events' = IF e \in events THEN events \ {e} ELSE events \cup {e}
    /\ UNCHANGED <<taskTable, workWindows, logs, run, segment, accept, detect, deviation>>

ConfirmLog ==
    /\ SchedStep
    /\ \E l \in LogPool \ logs : logs' = logs \cup {l}
    /\ UNCHANGED <<taskTable, workWindows, events, run, segment, accept, detect, deviation>>

DeleteSegment ==
    /\ SchedStep
    /\ \E s \in segment : segment' = segment \ {s}
    /\ UNCHANGED <<taskTable, workWindows, events, logs, run, accept, detect, deviation>>

SchedNext ==
    \/ \E r \in Runs : PlanRun(r) \/ InsertRun(r) \/ RejectRun(r)
    \/ \E p \in Accepts, r \in Runs : AcceptRead(p, r)
    \/ \E p \in Accepts : AcceptWrite(p) \/ AcceptFails(p)
    \/ \E p \in Detects : DetectRead(p) \/ DetectWrite(p)
    \/ EditEvents \/ ConfirmLog \/ DeleteSegment

SchedSpec == SchedInit /\ [][SchedNext]_schedVars

-----------------------------------------------------------------------------
(* Properties *)

SchedTypeOK ==
    /\ events \subseteq EventPool /\ logs \subseteq LogPool
    /\ \A r \in Runs : \A i \in DOMAIN run[r].items :
         /\ run[r].items[i].status \in ItemStates
         /\ run[r].items[i].job.task \in SchedTasks /\ run[r].items[i].at \in Interval
    /\ \A s \in segment : s.run \in Runs /\ s.item \in DOMAIN run[s.run].items

Total(s) == FoldLeft(LAMBDA sum, n : sum + n, 0, s)
\* What the rule plan gives to task t, draft by draft.
Given(jobs, t) ==
    [i \in DOMAIN jobs |-> IF jobs[i].task = t /\ jobs[i].by = "rule"
                           THEN jobs[i].end - jobs[i].start ELSE 0]
Jobs(r) == [i \in DOMAIN run[r].items |-> run[r].items[i].job]

\* A draft is not empty and lies in the range and in its task's window.
InWindow(d) ==
    /\ d.start < d.end
    /\ d.start >= Later(0, taskTable[d.task].earliest)
    /\ d.end <= Earlier(Horizon, taskTable[d.task].latest)

JobsFit(jobs, busy) ==
    \A i \in DOMAIN jobs :
       /\ InWindow(jobs[i])
       /\ \A b \in busy : ~Overlap(jobs[i], b)
       /\ \A j \in DOMAIN jobs \ {i} : ~Overlap(jobs[i], jobs[j])

(* Drafts of a run keep clear of one another and of the busy blocks it
   read, stay in their task's window, and the rule plan gives no task more
   than what was left of it: plan and validateLlmDrafts. *)
DraftsFit ==
    \A r \in Runs :
       /\ JobsFit(Jobs(r), run[r].busy)
       /\ \A t \in SchedTasks : Total(Given(Jobs(r), t)) <= run[r].left[t]

\* Work windows that overlap would be planned twice.
WindowsApart == \A ws \in WorkWindows : \A v, w \in ws : v # w => ~Overlap(v, w)

(* A segment stands where its item says: at the proposed times when the
   item reads 'accepted', at the user's when it reads 'modified', however
   acceptances and rejections of one run overlap (acceptRun). *)
SegmentTellsItem ==
    \A s \in segment :
      LET item == run[s.run].items[s.item]
      IN  /\ item.status = "accepted" => s.at = Span(item.job)
          /\ item.status = "modified" => s.at = item.at

(* What the theorem needs besides: segments and acceptances are of runs that
   are in the table, which no plan takes the place of. *)
Stored(r) == r \in Runs /\ run[r].status \notin {"none", "planned"}

SegmentsInv ==
    /\ DOMAIN run = Runs /\ DOMAIN accept = Accepts
    /\ \A r \in Runs :
         /\ run[r] = [status |-> run[r].status, items |-> run[r].items,
                      busy |-> run[r].busy, left |-> run[r].left]
         /\ \A i \in DOMAIN run[r].items :
              run[r].items[i] = [job |-> run[r].items[i].job, status |-> run[r].items[i].status,
                                 at |-> run[r].items[i].at]
    /\ \A s \in segment : Stored(s.run) /\ s.item \in DOMAIN run[s.run].items
    /\ \A p \in Accepts : accept[p].pc = "read" =>
         Stored(accept[p].run) /\ accept[p].selected \subseteq DOMAIN run[accept[p].run].items
    /\ SegmentTellsItem

(* What DraftsFit needs: what a plan is made of has the types it is read with. *)
PlansInv ==
    /\ taskTable \in TaskTables /\ workWindows \in WorkWindows
    /\ events \subseteq EventPool /\ IsFiniteSet(logs)
    /\ DraftsFit
=============================================================================
