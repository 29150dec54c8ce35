------------------------------ MODULE MCServices ------------------------------
(***************************************************************************)
(* The services of the server, and the two of the client, that share       *)
(* nothing the model keeps: each behaviour follows one of them, [part],    *)
(* and leaves the others where they began.                                 *)
(***************************************************************************)
EXTENDS Scheduler, DependencyGraph, Genetic, Models, Tracking, Activity, Reports,
        ClientImport, Devices, Connection, FileVersions, Console, Analytics, TLC

VARIABLE part

servicesVars == <<part, schedVars, graphVars, geneVars, modelVars, trackVars, activityVars,
                  reportVars, importVars, deviceVars, connVars, versionVars, consoleVars,
                  analyticsVars>>

Parts == {"scheduler", "graph", "genetic", "models", "tracking", "activity", "reports",
          "imports", "devices", "connection", "versions", "console", "analytics"}

-----------------------------------------------------------------------------
(* Scheduler: a range of six, two tasks, two events, one of them recurring. *)
TaskRow(estimate, earliest, latest, min, max, canSplit, auto) ==
    [estimate |-> estimate, earliest |-> earliest, latest |-> latest, min |-> min,
     max |-> max, canSplit |-> canSplit, auto |-> auto]
Span2(s, e) == [start |-> s, end |-> e]

SmallTables ==
    {[t \in {"a", "b"} |-> IF t = "a" THEN TaskRow(3, 0, 6, 1, 2, TRUE, TRUE) ELSE b]
       : b \in {TaskRow(2, 1, 5, 1, 2, FALSE, TRUE), TaskRow(2, 0, 4, 2, 2, TRUE, FALSE)}}
SmallEvents == {[start |-> 1, end |-> 2, every |-> 3], [start |-> 3, end |-> 4, every |-> 0]}
SmallWindows == {{}, {Span2(0, 3), Span2(4, 6)}}
SmallReplies == {<<>>, <<[task |-> "a", start |-> 4, end |-> 6], [task |-> "b", start |-> 5, end |-> 6]>>}
SmallOverrides == {[item |-> 1, start |-> 2, end |-> 4], [item |-> 1, start |-> 4, end |-> 4]}
SmallLogs == {[start |-> 0, end |-> 2, task |-> "a"], [start |-> 3, end |-> 5, task |-> "b"]}

(* Dependency graph: every graph of three nodes, one entry given twice. *)
SmallGraphs ==
    [deps: [Nodes -> SUBSET Nodes],
     repeats: {[n \in Nodes |-> 0]} \cup {[n \in Nodes |-> IF n = m THEN 1 ELSE 0] : m \in Nodes}]

(* Genetic scheduler: a needs b, c is locked outside the free slots. *)
SmallTasks ==
    [t \in {"a", "b", "c"} |->
       CASE t = "a" -> [needed |-> 2, weight |-> 30, due |-> 3, dependsOn |-> {"b"}, locked |-> FALSE, at |-> 0]
         [] t = "b" -> [needed |-> 1, weight |-> 60, due |-> 2, dependsOn |-> {}, locked |-> FALSE, at |-> 0]
         [] t = "c" -> [needed |-> 1, weight |-> 10, due |-> 9, dependsOn |-> {}, locked |-> TRUE, at |-> 5]]
SmallSlots == <<[start |-> 0, end |-> 2], [start |-> 3, end |-> 5]>>
SmallOrder == <<"b", "a", "c">>
SmallShifts == {-1, 1}

(* Activity: three records in a row, the third in another app, without an end. *)
Rec(id, start, end, app, file, dir, duration) ==
    [id |-> id, start |-> start, end |-> end, app |-> app, file |-> file, dir |-> dir,
     duration |-> duration]
SmallPool == {Rec("r1", 1, 3, "code", "f", "d", 0), Rec("r2", 4, 6, "code", "none", "none", 0),
              Rec("r3", 8, 0, "mail", "none", "d", 2)}

(* Analytics: two versions of a record, one that starts the day before, one
   that says nothing. *)
RowOf(id, updated, payload) == [id |-> id, updated |-> updated, payload |-> payload]
SmallRecords ==
    {RowOf(1, 14, ("start" :> 10) @@ ("minutes" :> 2) @@ ("app" :> "code") @@ ("category" :> "work")
                  @@ ("input" :> 3)),
     RowOf(1, 14, ("start" :> 9) @@ ("minutes" :> 2) @@ ("app" :> "code")),
     RowOf(2, 15, ("start" :> 13) @@ ("end" :> 15) @@ ("app" :> "code") @@ ("category" :> "work")
                  @@ ("task" :> "t")),
     RowOf(3, 18, [none |-> 0])}
SmallInput ==
    {RowOf(4, 12, ("kind" :> "key_down") @@ ("key" :> 65) @@ ("count" :> 2) @@ ("app" :> "code")),
     RowOf(5, 16, ("kind" :> "mouse_move") @@ ("distance" :> 400))}
SmallDay == [start |-> 10, end |-> 20]

(* What theorems about these parts ask of the constants, the instance has. *)
ASSUME ConditionsHold ==
    WindowsApart /\ DayIsWhole /\ CountsAreNatural /\ Cardinality(Refused) <= SampleLimit

-----------------------------------------------------------------------------
(* A part that is not followed begins in one state. *)
ServicesInit ==
    /\ part \in Parts
    /\ part # "scheduler" => /\ taskTable = CHOOSE t \in TaskTables : TRUE
                             /\ workWindows = {}
    /\ part # "graph" => graph = CHOOSE g \in Graphs : TRUE
    /\ part # "models" => modelKey = "scheduler.v1"
    /\ part # "imports" => live = [o \in Imported |-> [is |-> FALSE, version |-> 0]]
    /\ SchedInit /\ GraphInit /\ GeneticInit /\ ModelsInit /\ TrackInit /\ ActivityInit
    /\ ReportsInit /\ ImportInit /\ DevicesInit /\ ConnInit /\ VersionsInit /\ ConsoleInit
    /\ AnalyticsInit

ServicesNext ==
    /\ IF part = "scheduler" THEN SchedNext ELSE UNCHANGED schedVars
    /\ IF part = "graph" THEN GraphNext ELSE UNCHANGED graphVars
    /\ IF part = "genetic" THEN GeneticNext ELSE UNCHANGED geneVars
    /\ IF part = "models" THEN ModelsNext ELSE UNCHANGED modelVars
    /\ IF part = "tracking" THEN TrackNext ELSE UNCHANGED trackVars
    /\ IF part = "activity" THEN ActivityNext ELSE UNCHANGED activityVars
    /\ IF part = "reports" THEN ReportsNext ELSE UNCHANGED reportVars
    /\ IF part = "imports" THEN ImportNext ELSE UNCHANGED importVars
    /\ IF part = "devices" THEN DevicesNext ELSE UNCHANGED deviceVars
    /\ IF part = "connection" THEN ConnNext ELSE UNCHANGED connVars
    /\ IF part = "versions" THEN VersionsNext ELSE UNCHANGED versionVars
    /\ IF part = "console" THEN ConsoleNext ELSE UNCHANGED consoleVars
    /\ IF part = "analytics" THEN AnalyticsNext ELSE UNCHANGED analyticsVars
    /\ UNCHANGED part
=============================================================================
