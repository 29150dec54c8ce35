------------------------------- MODULE Console --------------------------------
(***************************************************************************)
(* The console reads the server's tables page by page with LIMIT and       *)
(* OFFSET, each page in a snapshot of its own, while the devices, the      *)
(* services and the console's own editors write to the rows.  A list is    *)
(* told by its order alone: the columns, and the filters of its WHERE      *)
(* clause, are left out (a row that an edit takes out of a filtered list   *)
(* goes like one that is deleted).                                         *)
(***************************************************************************)
EXTENDS Integers, FiniteSets, SequencesExt

CONSTANTS
    ListedIds,           \* ids that rows of a table may get
    Times,            \* times of a row: its creation, its start, its last update
    PageLimit,        \* readLimit of the request
    MaxConsoleSteps   \* bound: rows written and readers opened

ASSUME ConsoleBounds ==
    /\ ListedIds \subseteq Nat /\ Times \subseteq Nat
    /\ PageLimit \in Nat \ {0} /\ MaxConsoleSteps \in Nat

VARIABLES
    entry,          \* the table: id -> [created, start, updated, deleted]
    reader,       \* a user of the console who turns the pages of a list
    consoleSteps

consoleVars == <<entry, reader, consoleSteps>>

-----------------------------------------------------------------------------
(* The lists: the column they are sorted by, newest first; whether the id
   breaks ties; whether tombstones are left out. *)
By(column, tied, live) == [by |-> column, tied |-> tied, live |-> live]

Objects             == By("updated", TRUE, TRUE)
SyncChanges         == By("created", TRUE, FALSE)
ActivityRecords     == By("start", TRUE, TRUE)
InputEvents         == By("start", TRUE, TRUE)
ActualRecords       == By("start", FALSE, FALSE)
ReportDocuments     == By("start", FALSE, FALSE)
ActivitySegments    == By("start", FALSE, FALSE)
TaskWorkLogs        == By("start", FALSE, FALSE)
AuditLogs           == By("created", FALSE, FALSE)
PushDeliveries      == By("created", FALSE, FALSE)
AiDrafts            == By("created", FALSE, FALSE)
SyncMutations       == By("created", FALSE, FALSE)
TrackingIngestBatches == By("created", FALSE, FALSE)
ScheduleRuns        == By("created", FALSE, FALSE)
ScheduleDraftItems  == By("created", FALSE, FALSE)
PlanDeviations      == By("created", FALSE, FALSE)
ReportEntries       == By("created", FALSE, FALSE)
ReportEvidence      == By("created", FALSE, FALSE)
FileOperationLogs   == By("created", FALSE, FALSE)
AdminDevices        == By("updated", FALSE, FALSE)
GenericAdminTable   == By("updated", FALSE, FALSE)

AdminData ==
    {Objects, ActualRecords, ReportDocuments, PushDeliveries, AiDrafts, TrackingIngestBatches,
     ActivitySegments, TaskWorkLogs, ScheduleRuns, ScheduleDraftItems, PlanDeviations,
     ReportEntries, ReportEvidence, FileOperationLogs, GenericAdminTable, AuditLogs,
     AdminDevices, SyncChanges, SyncMutations}

Lists == AdminData \cup {ActivityRecords, InputEvents}

NoReader == [pc |-> "idle", list |-> Objects, offset |-> 0, seen |-> {}, wanted |-> {}, steady |-> TRUE]

ConsoleInit == entry = <<>> /\ reader = NoReader /\ consoleSteps = 0

ConsoleStep == consoleSteps < MaxConsoleSteps /\ consoleSteps' = consoleSteps + 1

Listed(list, rows) == {r \in DOMAIN rows : list.live => ~rows[r].deleted}

(* What the writers did to the list being read: the rows that keep their place
   stay wanted; rows that left it or went back move the others up. *)
Watched(rows) ==
    LET list == reader.list
        here == Listed(list, entry)
        key(r) == entry[r][list.by]
        stay == {r \in here : r \in Listed(list, rows)}
    IN  [reader EXCEPT !.wanted = {r \in @ \cap stay : rows[r][list.by] = key(r)},
                       !.steady = @ /\ stay = here
                                    /\ \A r \in stay : rows[r][list.by] >= key(r)]

Write(rows) ==
    /\ ConsoleStep
    /\ entry' = rows
    /\ reader' = IF reader.pc = "page" THEN Watched(rows) ELSE reader

-----------------------------------------------------------------------------
(* Devices and services *)

(* The rows of one transaction share its time, and a transaction may commit
   after one that began later. *)
InsertRow(r) ==
    /\ r \notin DOMAIN entry
    /\ \E created, start \in Times :
         Write([x \in DOMAIN entry \cup {r} |->
                  IF x = r THEN [created |-> created, start |-> start, updated |-> created,
                                 deleted |-> FALSE]
                  ELSE entry[x]])

UpdateRow(r) ==
    /\ r \in DOMAIN entry
    /\ \E start, updated \in Times, deleted \in BOOLEAN :
         /\ updated >= entry[r].updated
         /\ Write([entry EXCEPT ![r].start = start, ![r].updated = updated, ![r].deleted = deleted])

DeleteRow(r) ==
    /\ r \in DOMAIN entry
    /\ Write([x \in DOMAIN entry \ {r} |-> entry[x]])

-----------------------------------------------------------------------------
(* The console's editors *)

(* deleted_at is set, cleared, or kept when the request does not say. *)
UpdateObject(r) ==
    /\ r \in DOMAIN entry
    /\ \E updated \in Times, deleted \in BOOLEAN :
         /\ updated >= entry[r].updated
         /\ Write([entry EXCEPT ![r].updated = updated, ![r].deleted = deleted])

(* An actual record or a file keeps its start. *)
Touched(r) ==
    /\ r \in DOMAIN entry
    /\ \E updated \in Times :
         /\ updated >= entry[r].updated
         /\ Write([entry EXCEPT ![r].updated = updated])

UpdateActualRecord(r) == Touched(r)
UpdateFile(r) == Touched(r)

UpdateAdminData(r) == UpdateObject(r) \/ UpdateActualRecord(r) \/ UpdateFile(r)

-----------------------------------------------------------------------------
(* Reading *)

OpenList ==
    /\ ConsoleStep /\ reader.pc = "idle"
    /\ \E list \in Lists :
         reader' = [NoReader EXCEPT !.pc = "page", !.list = list, !.wanted = Listed(list, entry)]
    /\ UNCHANGED entry

(* Without a tie-breaker any order of equal rows may come back, a different
   one for each page. *)
Orders(list) ==
    LET key(r) == entry[r][list.by]
    IN  {s \in SetToSeqs(Listed(list, entry)) :
           \A i, j \in DOMAIN s : i < j =>
             \/ key(s[i]) > key(s[j])
             \/ key(s[i]) = key(s[j]) /\ (list.tied => s[i] > s[j])}

HasMoreMutant(page) == Len(page) > PageLimit

HasMore(page) == Len(page) >= PageLimit

(* The next button adds the limit to the offset. *)
NextPage ==
    /\ reader.pc = "page"
    /\ \E s \in Orders(reader.list) :
         LET last == reader.offset + PageLimit
             page == SubSeq(s, reader.offset + 1, IF last < Len(s) THEN last ELSE Len(s))
         IN  reader' = [reader EXCEPT
               !.pc = IF HasMore(page) THEN "page" ELSE "done",
               !.offset = last,
               !.seen = @ \cup {page[i] : i \in DOMAIN page},
               !.steady = @ /\ \A o, p \in Orders(reader.list) : o = p]
    /\ UNCHANGED <<entry, consoleSteps>>

ConsoleNext ==
    \/ \E r \in ListedIds : InsertRow(r) \/ UpdateRow(r) \/ DeleteRow(r) \/ UpdateAdminData(r)
    \/ OpenList
    \/ NextPage

ConsoleSpec == ConsoleInit /\ [][ConsoleNext]_consoleVars

-----------------------------------------------------------------------------
(* Properties *)

ConsoleTypeOK ==
    /\ DOMAIN entry \subseteq ListedIds
    /\ \A r \in DOMAIN entry : {entry[r].created, entry[r].start, entry[r].updated} \subseteq Times
    /\ reader.list \in Lists /\ reader.seen \subseteq ListedIds

(* Turning the pages to the end shows every row that was there from the first
   page on and kept its place, however many rows were added or brought up
   meanwhile; unless a row left the list or sank in it, or the list has equal
   rows and no tie-breaker. *)
PagesMissNothing == reader.pc = "done" /\ reader.steady => reader.wanted \subseteq reader.seen

(* What the theorem needs besides: as many rows stand before a wanted row that was
   not shown yet as were turned over. *)
ListRow == [created: Times, start: Times, updated: Times, deleted: BOOLEAN]
ListReader ==
    [pc: {"idle", "page", "done"}, list: Lists, offset: Nat, seen: SUBSET ListedIds,
     wanted: SUBSET ListedIds, steady: BOOLEAN]

Ahead(list, rows, w) ==
    {r \in Listed(list, rows) :
       \/ rows[r][list.by] > rows[w][list.by]
       \/ rows[r][list.by] = rows[w][list.by] /\ list.tied /\ r > w}

PagesInv ==
    /\ IsFiniteSet(DOMAIN entry) /\ DOMAIN entry \subseteq ListedIds
    /\ entry \in [DOMAIN entry -> ListRow]
    /\ reader \in ListReader
    /\ reader.pc = "page" => reader.wanted \subseteq Listed(reader.list, entry)
    /\ reader.pc = "page" /\ reader.steady =>
         \A w \in reader.wanted \ reader.seen :
           Cardinality(Ahead(reader.list, entry, w)) >= reader.offset
    /\ PagesMissNothing
=============================================================================
