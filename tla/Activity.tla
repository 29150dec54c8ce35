------------------------------- MODULE Activity -------------------------------
(***************************************************************************)
(* ActivityUnderstandingService: the raw activity that devices uploaded is *)
(* merged into candidate segments, which the user confirms, rejects or     *)
(* merges.  buildSegments reads outside its transaction and writes segment *)
(* by segment inside it; confirmSegment reads its segment without a lock   *)
(* and writes afterwards.  splitSegment is not here: it always rolls back  *)
(* (see the README).                                                       *)
(***************************************************************************)
EXTENDS Integers, FiniteSets, SequencesExt

CONSTANTS
    RawPool,          \* the activity that may arrive: id, start, end, app, file, dir, duration
    Interruptible,    \* apps whose short visits do not end a segment
    MergeGap,         \* the profile's mergeGapMinutes
    FileGap,          \* the profile's filePathChangeGap
    ShortGap,         \* the profile's shortInterruptionMinutes
    MinDuration,      \* sixty seconds
    RangeStart, RangeEnd,
    WorkedTasks,      \* ids of tasks
    Builds, Reviews,  \* requests that may run side by side
    MaxActivitySteps  \* bound: requests and arrivals

ASSUME ActivityBounds ==
    /\ MaxActivitySteps \in Nat
    /\ {MergeGap, FileGap, ShortGap, MinDuration, RangeStart, RangeEnd} \subseteq Nat

VARIABLES
    raw,          \* the tracking rows that arrived
    segments,     \* activity_segments by segment_uid
    actual,       \* actual_activity_logs by segment_uid
    work,         \* task_work_logs: <<segment_uid, task>>
    build,        \* [Builds -> request and transaction]
    review,       \* [Reviews -> confirmSegment's transaction]
    lastRow,      \* ids given to rows of activity_segments so far
    activitySteps

activityVars == <<raw, segments, actual, work, build, review, lastRow, activitySteps>>

NoBuild == [pc |-> "idle", rebuild |-> FALSE, built |-> <<>>, deleted |-> {}, puts |-> <<>>]
NoReview == [pc |-> "idle", uid |-> <<>>, row |-> 0, start |-> 0, end |-> 0, task |-> "none"]
\* A function with no entry, the empty table.
NoRows == <<>>
With(f, k, v) == [x \in DOMAIN f \cup {k} |-> IF x = k THEN v ELSE f[x]]

ActivityInit ==
    /\ raw = {} /\ segments = NoRows /\ actual = NoRows /\ work = {}
    /\ build = [b \in Builds |-> NoBuild]
    /\ review = [c \in Reviews |-> NoReview]
    /\ lastRow = 0 /\ activitySteps = 0

ActivityStep == activitySteps < MaxActivitySteps /\ activitySteps' = activitySteps + 1

-----------------------------------------------------------------------------
(* Building *)

(* toRawActivity: a record that has no end yet counts for its duration, at
   least a minute. *)
EndOf(r) == IF r.end # 0 THEN r.end ELSE r.start + IF r.duration > MinDuration THEN r.duration ELSE MinDuration

(* readRawActivities: what overlaps the range, by start. *)
ReadRawActivities ==
    SetToSortSeq({r \in raw : r.start < RangeEnd /\ EndOf(r) > RangeStart},
                 LAMBDA r, s : r.start < s.start)

(* A record joins the open segment if it goes on where the last one ended. *)
ShouldMerge(r, last) ==
    LET gap == r.start - EndOf(last)
        sameFile == r.file # "none" /\ r.file = last.file
        sameDir  == r.dir # "none" /\ r.dir = last.dir
    IN  \/ gap <= MergeGap /\ r.app = last.app
        \/ gap <= MergeGap /\ gap <= ShortGap /\ r.app \in Interruptible
        \/ gap <= FileGap /\ sameFile
        \/ gap <= FileGap /\ sameDir /\ r.app = last.app

Groups(rs) ==
    FoldLeft(LAMBDA groups, r :
               IF groups # <<>> /\ ShouldMerge(r, Last(Last(groups)))
               THEN Append(Front(groups), Append(Last(groups), r))
               ELSE Append(groups, <<r>>),
             <<>>, rs)

(* A segment is named after its first and its last record. *)
Segment(g) ==
    LET ends == {EndOf(g[i]) : i \in DOMAIN g}
    IN  [uid |-> <<g[1].id, Last(g).id>>, start |-> g[1].start,
         end |-> CHOOSE e \in ends : \A f \in ends : f <= e, task |-> "none"]

MergeActivities(rs) ==
    LET built == [i \in DOMAIN Groups(rs) |-> Segment(Groups(rs)[i])]
    IN  SelectSeq(built, LAMBDA s : s.end - s.start >= MinDuration)

(* matchTask: some task may score best and reach the threshold. *)
MatchTask(s) == {[s EXCEPT !.task = t] : t \in WorkedTasks \cup {"none"}}

RawArrives(r) ==
    /\ ActivityStep /\ r \notin raw
    /\ raw' = raw \cup {r}
    /\ UNCHANGED <<segments, actual, work, build, review, lastRow>>

BuildSegments(b) ==
    /\ ActivityStep /\ build[b].pc = "idle" /\ raw # {}
    /\ \E rebuild \in BOOLEAN, t \in WorkedTasks \cup {"none"} :
         LET merged == MergeActivities(ReadRawActivities)
         IN  build' = [build EXCEPT ![b] =
               [NoBuild EXCEPT !.pc = "clean", !.rebuild = rebuild,
                  !.built = [i \in DOMAIN merged |->
                               CHOOSE s \in MatchTask(merged[i]) : s.task = t]]]
    /\ UNCHANGED <<raw, segments, actual, work, review, lastRow>>

(* The rows a transaction has written are locked until it ends. *)
Locks(b) == build[b].deleted \cup DOMAIN build[b].puts
Held(u, b) == \E c \in Builds \ {b} : u \in Locks(c)
Unheld(u) == \A c \in Builds : u \notin Locks(c)

DiscardedMutant == {u \in DOMAIN segments : segments[u].start \in RangeStart..RangeEnd - 1}

(* Only candidates of the range go, with their evidence. *)
Discarded ==
    {u \in DOMAIN segments : /\ segments[u].status = "candidate"
                             /\ segments[u].start \in RangeStart..RangeEnd - 1}

DeleteCandidates(b) ==
    /\ build[b].pc = "clean"
    /\ build[b].rebuild => \A u \in Discarded : ~Held(u, b)
    /\ build' = [build EXCEPT ![b].pc = "put",
                              ![b].deleted = IF build[b].rebuild THEN Discarded ELSE {}]
    /\ UNCHANGED <<raw, segments, actual, work, review, activitySteps, lastRow>>

(* ON CONFLICT DO UPDATE: the times, the label and the task are replaced,
   the status and the row stay. *)
Kept(u, b) == u \in DOMAIN segments /\ u \notin build[b].deleted

Put(s, b) ==
    [row |-> IF Kept(s.uid, b) THEN segments[s.uid].row ELSE 0,
     status |-> IF Kept(s.uid, b) THEN segments[s.uid].status ELSE "candidate",
     start |-> s.start, end |-> s.end, task |-> s.task]

UpsertSegment(b) ==
    LET s == Head(build[b].built)
    IN  /\ build[b].pc = "put" /\ build[b].built # <<>> /\ ~Held(s.uid, b)
        /\ build' = [build EXCEPT ![b].built = Tail(@), ![b].puts = With(@, s.uid, Put(s, b))]
        /\ UNCHANGED <<raw, segments, actual, work, review, activitySteps, lastRow>>

CommitBuild(b) ==
    LET puts == build[b].puts
    IN  /\ build[b].pc = "put" /\ build[b].built = <<>>
        /\ segments' = [u \in (DOMAIN segments \ build[b].deleted) \cup DOMAIN puts |->
                          IF u \notin DOMAIN puts THEN segments[u]
                          ELSE IF puts[u].row # 0 THEN puts[u]
                          ELSE [puts[u] EXCEPT !.row = lastRow + 1]]
        /\ build' = [build EXCEPT ![b] = NoBuild]
        /\ lastRow' = lastRow + 1
        /\ UNCHANGED <<raw, actual, work, review, activitySteps>>

(* A deadlock with another transaction, or a lost connection. *)
RollbackBuild(b) ==
    /\ build[b].pc = "put"
    /\ build' = [build EXCEPT ![b] = NoBuild]
    /\ UNCHANGED <<raw, segments, actual, work, review, activitySteps, lastRow>>

-----------------------------------------------------------------------------
(* Reviewing *)

(* confirmSegment reads whatever status the segment has. *)
ConfirmSegment(c, u) ==
    /\ ActivityStep /\ review[c].pc = "idle" /\ u \in DOMAIN segments
    /\ \E task \in WorkedTasks \cup {"none"} :
         review' = [review EXCEPT ![c] =
           [pc |-> "write", uid |-> u, row |-> segments[u].row, start |-> segments[u].start,
            end |-> segments[u].end, task |-> task]]
    /\ UNCHANGED <<raw, segments, actual, work, build, lastRow>>

(* The actual log of a segment keeps the times of its first confirmation.
   A work log that would refer to a segment deleted meanwhile fails. *)
StillThere(r) == r.uid \in DOMAIN segments /\ segments[r.uid].row = r.row

WriteConfirmation(c) ==
    LET r == review[c]
        logged == r.uid \in DOMAIN actual
    IN  /\ r.pc = "write" /\ Unheld(r.uid)
        /\ IF r.task # "none" /\ ~StillThere(r)
           THEN UNCHANGED <<segments, actual, work>>
           ELSE /\ actual' = With(actual, r.uid, IF logged THEN actual[r.uid]
                                                 ELSE [start |-> r.start, end |-> r.end])
                /\ work' = IF r.task = "none" THEN work ELSE work \cup {<<r.uid, r.task>>}
                /\ segments' =
                     IF ~StillThere(r) THEN segments
                     ELSE [segments EXCEPT ![r.uid].status = "confirmed",
                             ![r.uid].task = IF r.task = "none" THEN @ ELSE r.task]
        /\ review' = [review EXCEPT ![c] = NoReview]
        /\ UNCHANGED <<raw, build, activitySteps, lastRow>>

(* rejectSegment takes a segment of any status and leaves its logs alone. *)
RejectSegment(u) ==
    /\ ActivityStep /\ u \in DOMAIN segments /\ Unheld(u)
    /\ segments' = [segments EXCEPT ![u].status = "rejected"]
    /\ UNCHANGED <<raw, actual, work, build, review, lastRow>>

(* mergeSegments: any two, once; the logs of the merged ones stay too. *)
MergedUid(u, v) == u \o v

MergeSegments(u, v) ==
    /\ ActivityStep
    /\ {u, v} \subseteq DOMAIN segments /\ segments[u].start < segments[v].start
    /\ Unheld(u) /\ Unheld(v) /\ MergedUid(u, v) \notin DOMAIN segments
    /\ LET end == IF segments[u].end > segments[v].end THEN segments[u].end ELSE segments[v].end
       IN  segments' = With([segments EXCEPT ![u].status = "merged", ![v].status = "merged"],
                            MergedUid(u, v),
                            [row |-> lastRow + 1, status |-> "candidate",
                             start |-> segments[u].start, end |-> end, task |-> "none"])
    /\ lastRow' = lastRow + 1
    /\ UNCHANGED <<raw, actual, work, build, review>>

ActivityNext ==
    \/ \E r \in RawPool : RawArrives(r)
    \/ \E b \in Builds : \/ BuildSegments(b) \/ DeleteCandidates(b) \/ UpsertSegment(b)
                         \/ CommitBuild(b) \/ RollbackBuild(b)
    \/ \E c \in Reviews : WriteConfirmation(c) \/ \E u \in DOMAIN segments : ConfirmSegment(c, u)
    \/ \E u \in DOMAIN segments : RejectSegment(u) \/ \E v \in DOMAIN segments : MergeSegments(u, v)

ActivitySpec == ActivityInit /\ [][ActivityNext]_activityVars

-----------------------------------------------------------------------------
(* Properties *)

ActivityTypeOK ==
    /\ raw \subseteq RawPool
    /\ \A u \in DOMAIN segments :
         /\ segments[u].status \in {"candidate", "confirmed", "rejected", "merged"}
         /\ segments[u].row \in Nat \ {0} /\ segments[u].task \in WorkedTasks \cup {"none"}
    /\ \A w \in work : w[1] \in DOMAIN actual /\ w[2] \in WorkedTasks

(* What the user decided stays decided: a build or a rebuild that ran beside
   the decision neither deletes the segment nor makes it a candidate again. *)
DecisionsSurvive ==
    [][\A u \in DOMAIN segments : segments[u].status # "candidate" =>
         u \in DOMAIN segments' /\ segments'[u].status # "candidate"]_segments

(* What the theorem needs besides: two transactions hold different rows, and what
   one holds of a decided segment is neither deleted nor a candidate. *)
LocksInv ==
    /\ DOMAIN build = Builds
    /\ \A b \in Builds :
         build[b] = [pc |-> build[b].pc, rebuild |-> build[b].rebuild, built |-> build[b].built,
                     deleted |-> build[b].deleted, puts |-> build[b].puts]
    /\ \A b, c \in Builds : b # c => Locks(b) \cap Locks(c) = {}
    /\ \A b \in Builds, u \in DOMAIN segments :
         segments[u].status # "candidate" =>
           /\ u \notin build[b].deleted
           /\ u \in DOMAIN build[b].puts => build[b].puts[u].status # "candidate"
    /\ \A u \in DOMAIN segments :
         segments[u] = [row |-> segments[u].row, status |-> segments[u].status,
                        start |-> segments[u].start, end |-> segments[u].end,
                        task |-> segments[u].task]
    /\ \A b \in Builds : \A u \in DOMAIN build[b].puts :
         build[b].puts[u] = [row |-> build[b].puts[u].row, status |-> build[b].puts[u].status,
                             start |-> build[b].puts[u].start, end |-> build[b].puts[u].end,
                             task |-> build[b].puts[u].task]
=============================================================================
