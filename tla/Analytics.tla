------------------------------ MODULE Analytics -------------------------------
(***************************************************************************)
(* AnalyticsService: the pages on tracked time are put together from       *)
(* queries over the activity records and input events that the devices     *)
(* uploaded.  The queries of one page run side by side, each in a snapshot *)
(* of its own, while rows are uploaded, replaced and deleted.  A payload   *)
(* is a function from the keys it has; the SQL of a query is what it       *)
(* selects, groups, sums and cuts.                                         *)
(***************************************************************************)
EXTENDS Integers, FiniteSets, SequencesExt

CONSTANTS
    RecordPool,       \* versions of activity records: id, updated, payload
    InputPool,        \* versions of input events: id, updated, payload
    DayRange,         \* readDayRange: start and end
    HourLength, DayLength,   \* what date_trunc cuts to
    SessionGap,       \* three minutes
    FocusCategories,  \* focus, work, study, ...
    SliceLimit, SessionLimit, PreviewLimit, KeyLimit, ProcessLimit, ExportRowLimit,
    PartsFollowed,    \* bound: how many queries of a page are followed at once
    MaxAnalyticsSteps \* bound: rows written and pages asked for

ASSUME AnalyticsBounds ==
    /\ {SliceLimit, SessionLimit, PreviewLimit, KeyLimit, ProcessLimit, ExportRowLimit} \subseteq Nat \ {0}
    /\ {HourLength, DayLength} \subseteq Nat \ {0} /\ MaxAnalyticsSteps \in Nat
    /\ PartsFollowed \in Nat \ {0}
\* The expressions a query reads a key with cast it, or take its default.
ASSUME RowsHaveTypes ==
    /\ \A r \in RecordPool \cup InputPool : \A key \in DOMAIN r.payload :
          key \in {"start", "end", "minutes", "at", "count", "distance"} => r.payload[key] \in Int
    /\ \A r \in RecordPool \cup InputPool : r.updated \in Int
    /\ DayRange \in [start: Int, end: Int]

VARIABLES
    tracked,      \* live rows of sync_objects of type activity_record
    typed,        \* live rows of type tracked_input_event
    view,         \* a page being put together
    analyticsSteps

analyticsVars == <<tracked, typed, view, analyticsSteps>>

-----------------------------------------------------------------------------
(* What a row says *)

Has(r, key) == key \in DOMAIN r.payload
Read(r, key, default) == IF Has(r, key) THEN r.payload[key] ELSE default
NonNegative(n) == IF n < 0 THEN 0 ELSE n

ActivityStartAt(r) == Read(r, "start", r.updated)

ActivityDuration(r) ==
    IF Has(r, "minutes") THEN NonNegative(r.payload.minutes)
    ELSE IF Has(r, "end") THEN NonNegative(r.payload.end - ActivityStartAt(r))
    ELSE 0

InputAt(r) == Read(r, "at", r.updated)
EventCount(r) == Read(r, "count", 1)

(* A row counts where it starts, with its whole duration. *)
ActivitySource(rows, range) ==
    {r \in rows : range.start <= ActivityStartAt(r) /\ ActivityStartAt(r) < range.end}
InputSource(rows, range) == {r \in rows : range.start <= InputAt(r) /\ InputAt(r) < range.end}

App(r) == Read(r, "app", "unknown")
Category(r) == Read(r, "category", "uncategorized")
Task(r) == Read(r, "task", "unlinked")
Signature(r) ==
    IF Has(r, "task") THEN r.payload.task
    ELSE IF Has(r, "category") THEN r.payload.category ELSE App(r)

-----------------------------------------------------------------------------
(* The queries *)

SumOver(f) == MapThenSumSet(LAMBDA x : f[x], DOMAIN f)
Minutes(R) == SumOver([r \in R |-> ActivityDuration(r)])

ActivityTotals(R) ==
    [count |-> Cardinality(R),
     minutes |-> Minutes(R),
     focus |-> Minutes({r \in R : Read(r, "input", 0) > 0})]

(* GROUP BY label, a function of the rows. *)
Grouped(R, label) ==
    [l \in {label[r] : r \in R} |-> ActivityTotals({r \in R : label[r] = l})]

(* ORDER BY minutes DESC, record_count DESC, name LIMIT n *)
Top(groups, n) ==
    LET above(l, m) == \/ groups[l].minutes > groups[m].minutes
                       \/ groups[l].minutes = groups[m].minutes /\ groups[l].count > groups[m].count
        size == IF Cardinality(DOMAIN groups) < n THEN Cardinality(DOMAIN groups) ELSE n
        top == CHOOSE T \in SUBSET DOMAIN groups :
                 Cardinality(T) = size /\ \A l \in T, m \in DOMAIN groups \ T : ~above(m, l)
    IN  [l \in top |-> groups[l]]

TopApps(R) == Top(Grouped(R, [r \in R |-> App(r)]), SliceLimit)

TopCategoriesMutant(R) ==
    LET known == {r \in R : Category(r) # "uncategorized"}
    IN  Top(Grouped(known, [r \in known |-> Category(r)]), SliceLimit)

TopCategories(R) == Top(Grouped(R, [r \in R |-> Category(r)]), SliceLimit)

TaskWorkSummary(R) == Top(Grouped(R, [r \in R |-> Task(r)]), SliceLimit)

ActivitySlices(R, group) ==
    LET field == [r \in R |-> IF group = "process" THEN App(r) ELSE Category(r)]
    IN  Top(Grouped(R, field), SliceLimit)

ActivityHeatmap(R) ==
    Grouped(R, [r \in R |-> ActivityStartAt(r) \div DayLength])

FocusTrends(R) ==
    LET day == [r \in R |-> ActivityStartAt(r) \div DayLength]
        focused(d) == {r \in R : day[r] = d /\ Read(r, "category", "") \in FocusCategories}
    IN  [d \in {day[r] : r \in R} |->
           [minutes |-> Grouped(R, day)[d].minutes,
            focus |-> Minutes(focused(d))]]

ByStart(R) ==
    CHOOSE s \in SetToSeqs(R) :
       \A i, j \in DOMAIN s : i < j => ActivityStartAt(s[i]) <= ActivityStartAt(s[j])
EndedAt(r) == ActivityStartAt(r) + ActivityDuration(r)

(* A session goes on while the rows follow closely and say the same. *)
NewGroup(r, last) == ActivityStartAt(r) - EndedAt(last) > SessionGap \/ Signature(r) # Signature(last)

AtLeastOne(n) == IF n < 1 THEN 1 ELSE n

Session(g) ==
    LET ends == {EndedAt(g[i]) : i \in DOMAIN g}
    IN  [start |-> ActivityStartAt(g[1]), end |-> CHOOSE e \in ends : \A f \in ends : f <= e,
         count |-> Len(g),
         minutes |-> SumOver([i \in DOMAIN g |-> AtLeastOne(ActivityDuration(g[i]))])]

Newest(s, n) == IF Len(s) > n THEN SubSeq(s, Len(s) - n + 1, Len(s)) ELSE s

Grow(groups, r) ==
    IF groups = <<>> \/ NewGroup(r, Last(Last(groups))) THEN Append(groups, <<r>>)
    ELSE Append(Front(groups), Append(Last(groups), r))

ActivitySessions(R) ==
    LET groups == FoldLeft(Grow, <<>>, ByStart(R))
    IN  Newest([i \in DOMAIN groups |-> Session(groups[i])], SessionLimit)

ActivityPreview(R) == Newest(ByStart(R), PreviewLimit)
ExportRows(R) == Newest(ByStart(R), ExportRowLimit)

FilterOptions(R, E) ==
    [apps |-> {r.payload.app : r \in {x \in R \cup E : Has(x, "app")}},
     categories |-> {r.payload.category : r \in {x \in R \cup E : Has(x, "category")}}]

(* One statement, one snapshot: what was pressed in each hour and each app. *)
Intensity(r) ==
    LET kind == Read(r, "kind", "none")
    IN  IF kind = "key_down" THEN EventCount(r)
        ELSE IF kind = "mouse_button" THEN 4 * EventCount(r)
        ELSE IF kind = "mouse_wheel" THEN 2 * EventCount(r)
        ELSE IF kind = "mouse_move" THEN EventCount(r) + Read(r, "distance", 0) \div 200
        ELSE 0

Events(E) == SumOver([r \in E |-> EventCount(r)])

Pressed(E, label) ==
    [l \in {label[r] : r \in E} |->
       LET of == {r \in E : label[r] = l}
       IN  [count |-> Events(of), minutes |-> SumOver([r \in of |-> Intensity(r)]),
            keys |-> Events({r \in of : Read(r, "kind", "none") = "key_down"})]]

InputHeatmap(E) ==
    LET keys == {r \in E : Read(r, "kind", "none") = "key_down" /\ Has(r, "key")}
    IN  [buckets |-> Pressed(E, [r \in E |-> InputAt(r) \div HourLength]),
         keys |-> Top(Pressed(keys, [r \in keys |-> r.payload.key]), KeyLimit),
         processes |-> Top(Pressed(E, [r \in E |-> App(r)]), ProcessLimit)]

-----------------------------------------------------------------------------
(* The pages *)

ComposedSummary == {"totals", "processes", "categories", "sessions", "preview"}
RangeAnalysis == ComposedSummary
TrackerHome ==
    ComposedSummary \cup {"heatmap", "topApps", "topCategories", "input", "filters"}
SingleQueries == {{"rangeSummary"}, {"taskWork"}, {"focusTrends"}, {"export"}}

(* The queries of a page do not see one another: whatever concerns a few of
   them shows when only those are followed. *)
Followed(page) == {some \in SUBSET page : Cardinality(some) = PartsFollowed}

QueryAnswer(query, records, events) ==
    LET R == ActivitySource(records, DayRange)
        E == InputSource(events, DayRange)
    IN  CASE query \in {"totals", "rangeSummary"} -> ActivityTotals(R)
          [] query = "processes" -> ActivitySlices(R, "process")
          [] query = "categories" -> ActivitySlices(R, "category")
          [] query = "sessions" -> ActivitySessions(R)
          [] query = "preview" -> ActivityPreview(R)
          [] query = "heatmap" -> ActivityHeatmap(ActivitySource(records, [DayRange EXCEPT !.start = 0]))
          [] query = "topApps" -> TopApps(R)
          [] query = "topCategories" -> TopCategories(R)
          [] query = "input" -> InputHeatmap(E)
          [] query = "filters" -> FilterOptions(R, E)
          [] query = "taskWork" -> TaskWorkSummary(R)
          [] query = "focusTrends" -> FocusTrends(R)
          [] query = "export" -> ExportRows(R)

NoView == [asked |-> {}, parts |-> <<>>, changes |-> 0]

AnalyticsInit == tracked = {} /\ typed = {} /\ view = NoView /\ analyticsSteps = 0

AnalyticsStep == analyticsSteps < MaxAnalyticsSteps /\ analyticsSteps' = analyticsSteps + 1

(* Auxiliary: the rows written while the page is put together. *)
Noted == [view EXCEPT !.changes = IF view.asked = {} THEN 0 ELSE @ + 1]

Replaced(rows, r) == {s \in rows : s.id # r.id} \cup {r}

PutRecord(r) ==
    /\ AnalyticsStep /\ r \notin tracked
    /\ tracked' = Replaced(tracked, r) /\ view' = Noted /\ UNCHANGED typed

DeleteRecord(r) ==
    /\ AnalyticsStep
    /\ tracked' = tracked \ {r} /\ view' = Noted /\ UNCHANGED typed

PutEvent(e) ==
    /\ AnalyticsStep /\ e \notin typed
    /\ typed' = Replaced(typed, e) /\ view' = Noted /\ UNCHANGED tracked

OpenView ==
    /\ AnalyticsStep /\ view = NoView
    /\ \E asked \in Followed(TrackerHome) \cup Followed(RangeAnalysis) \cup SingleQueries :
         view' = [NoView EXCEPT !.asked = asked]
    /\ UNCHANGED <<tracked, typed>>

(* Any query that is still open may be the next to take its snapshot. *)
RunQuery ==
    /\ \E query \in view.asked \ DOMAIN view.parts :
         view' = [view EXCEPT !.parts =
                    [q \in DOMAIN @ \cup {query} |-> IF q = query THEN QueryAnswer(q, tracked, typed)
                                                   ELSE @[q]]]
    /\ UNCHANGED <<tracked, typed, analyticsSteps>>

AnalyticsNext ==
    \/ \E r \in RecordPool : PutRecord(r)
    \/ \E r \in tracked : DeleteRecord(r)
    \/ \E e \in InputPool : PutEvent(e)
    \/ OpenView
    \/ RunQuery

AnalyticsSpec == AnalyticsInit /\ [][AnalyticsNext]_analyticsVars

-----------------------------------------------------------------------------
(* Properties *)

AnalyticsTypeOK ==
    /\ tracked \subseteq RecordPool /\ typed \subseteq InputPool
    /\ DOMAIN view.parts \subseteq view.asked

(* The rows and minutes an answer tells of the day; [cut] when its limit may
   have left some out. *)
SumCounts(f) == SumOver([l \in DOMAIN f |-> f[l].count])
SumMinutes(f) == SumOver([l \in DOMAIN f |-> f[l].minutes])

Told(query, a) ==
    LET groups(limit) == [count |-> SumCounts(a), minutes |-> SumMinutes(a),
                          cut |-> Cardinality(DOMAIN a) >= limit]
        day == DayRange.start \div DayLength
    IN  CASE query = "totals" -> [count |-> a.count, minutes |-> a.minutes, cut |-> FALSE]
          [] query \in {"processes", "categories", "topApps", "topCategories"} -> groups(SliceLimit)
          [] query = "heatmap" ->
               [count |-> IF day \in DOMAIN a THEN a[day].count ELSE 0,
                minutes |-> IF day \in DOMAIN a THEN a[day].minutes ELSE 0, cut |-> FALSE]
          [] query = "sessions" -> groups(SessionLimit)

Compared == {"totals", "processes", "categories", "topApps", "topCategories", "heatmap", "sessions"}

(* The parts of a page tell of the same rows: their counts differ by no more
   than the rows written while it was put together, and if there were none
   the minutes agree too, but for the sessions, which count a record shorter
   than a minute as one.  The apps
   of the input page never tell more events than its hours. *)
PartsAgree ==
    /\ \A p, q \in DOMAIN view.parts \cap Compared :
         LET a == Told(p, view.parts[p])
             b == Told(q, view.parts[q])
         IN  ~a.cut /\ ~b.cut =>
               /\ a.count - b.count <= view.changes
               /\ view.changes = 0 => IF p = "sessions" THEN a.minutes >= b.minutes
                                      ELSE a.minutes <= b.minutes
    /\ "input" \in DOMAIN view.parts =>
         LET input == view.parts["input"]
         IN  SumCounts(input.processes) <= SumCounts(input.buckets)

(* Without this the day's bucket of the heatmap is not the day, and fewer
   events in a list may be more. *)
DayIsWhole ==
    /\ DayRange.start \in Nat /\ DayRange.end = DayRange.start + DayLength
    /\ DayRange.start % DayLength = 0
CountsAreNatural == \A e \in InputPool : EventCount(e) \in Nat

(* What the theorem needs besides: each part still tells what it would tell
   now, give or take the rows written since. *)
TellsNow(query, a) ==
    LET told == Told(query, a)
        now  == ActivityTotals(ActivitySource(tracked, DayRange))
    IN  ~told.cut =>
          /\ told.count \in Int /\ told.minutes \in Int
          /\ told.count - now.count \in (-view.changes)..view.changes
          /\ view.changes = 0 => IF query = "sessions" THEN told.minutes >= now.minutes
                                 ELSE told.minutes = now.minutes

ViewInv ==
    /\ tracked \in SUBSET RecordPool /\ IsFiniteSet(tracked)
    /\ \A r, s \in tracked : r.id = s.id => r = s
    /\ typed \in SUBSET InputPool /\ IsFiniteSet(typed)
    /\ view = [asked |-> view.asked, parts |-> view.parts, changes |-> view.changes]
    /\ view.changes \in Nat /\ (view.asked = {} => view.parts = <<>>)
    /\ DOMAIN view.parts \subseteq view.asked
    /\ \A query \in DOMAIN view.parts \cap Compared : TellsNow(query, view.parts[query])
    /\ PartsAgree
=============================================================================
