------------------------------- MODULE Reports -------------------------------
(***************************************************************************)
(* ReportsService: a report or a diary is generated from what the user     *)
(* confirmed and from what is only inferred, edited, confirmed, polished   *)
(* by a language model, and pushed.  The sources are read by queries that  *)
(* run side by side, each in its own snapshot; the polishing and the push  *)
(* call out between a read and a write.  Templates, weather and wording    *)
(* are left out.  A diary has a text and no entries.                       *)
(***************************************************************************)
EXTENDS Integers, FiniteSets

CONSTANTS
    Activities,       \* activity segments of the period
    Generations, Polishings, Sends,  \* requests that may run side by side
    Channels,         \* rows of push_channels, all of one channel_type
    Deliveries,       \* rows of report_push_deliveries
    MaxReportSteps    \* bound: requests and changes of the sources

ASSUME ReportBounds == MaxReportSteps \in Nat

VARIABLES
    judged,       \* activity_segments: the status of each segment
    logged,       \* actual_activity_logs: the segments confirmed once
    document,     \* report_documents, report_entries, diary_entries
    generation,   \* [Generations -> generateReport, generateDiary]
    polishing,    \* [Polishings -> polishReport, polishDiary]
    channel,      \* push_channels: "none", "enabled" or "disabled"
    delivery,     \* report_push_deliveries
    send,         \* [Sends -> trySendDelivery]
    reportSteps

reportVars == <<judged, logged, document, generation, polishing, channel, delivery, send,
                reportSteps>>

Documents == {"report", "diary"}
NoFacts == [facts |-> {}, inferred |-> {}]
NoDocument == [status |-> "none", snapshot |-> NoFacts, entries |-> NoFacts, own |-> {},
               text |-> NoFacts]
NoGeneration == [pc |-> "idle", of |-> "none", snapshot |-> NoFacts, useLlm |-> FALSE,
                 before |-> NoDocument]
NoPolishing == [pc |-> "idle", of |-> "none", text |-> NoFacts]
NoDelivery == [status |-> "none", to |-> "none", attempts |-> 0]
NoSend == [pc |-> "idle", delivery |-> 0, got |-> FALSE]

ReportsInit ==
    /\ judged = [a \in Activities |-> "candidate"] /\ logged = {}
    /\ document = [d \in Documents |-> NoDocument]
    /\ generation = [g \in Generations |-> NoGeneration]
    /\ polishing = [p \in Polishings |-> NoPolishing]
    /\ channel = [c \in Channels |-> "none"]
    /\ delivery = [d \in Deliveries |-> NoDelivery]
    /\ send = [s \in Sends |-> NoSend]
    /\ reportSteps = 0

ReportStep == reportSteps < MaxReportSteps /\ reportSteps' = reportSteps + 1
sourceVars == <<judged, logged>>
pushVars == <<channel, delivery, send>>

(* ActivityUnderstandingService: a confirmation logs the segment, a
   rejection leaves the log. *)
Review(a) ==
    /\ ReportStep
    /\ \/ judged' = [judged EXCEPT ![a] = "confirmed"] /\ logged' = logged \cup {a}
       \/ judged' = [judged EXCEPT ![a] = "rejected"] /\ logged' = logged
    /\ UNCHANGED <<document, generation, polishing, pushVars>>

-----------------------------------------------------------------------------
(* Generating *)

Generate(g, d) ==
    /\ ReportStep /\ generation[g].pc = "idle"
    /\ \E useLlm \in BOOLEAN :
         generation' = [generation EXCEPT ![g] =
           [NoGeneration EXCEPT !.pc = "read", !.of = d, !.useLlm = useLlm]]
    /\ UNCHANGED <<sourceVars, document, polishing, pushVars>>

GenerateReport(g) == Generate(g, "report")
GenerateDiary(g) == Generate(g, "diary")

(* sourceSnapshot: the queries for the logs and for the segments run side by
   side, so either may be the first. *)
Inferred == {a \in Activities : judged[a] # "confirmed"}

SourceSnapshot(g) ==
    \/ /\ generation[g].pc = "read"
       /\ \/ generation' = [generation EXCEPT ![g].pc = "segments", ![g].snapshot.facts = logged]
          \/ generation' = [generation EXCEPT ![g].pc = "actuals", ![g].snapshot.inferred = Inferred]
    \/ /\ generation[g].pc = "segments"
       /\ generation' = [generation EXCEPT ![g].pc = "write", ![g].snapshot.inferred = Inferred]
    \/ /\ generation[g].pc = "actuals"
       /\ generation' = [generation EXCEPT ![g].pc = "write", ![g].snapshot.facts = logged]

ReadSources(g) ==
    /\ SourceSnapshot(g)
    /\ UNCHANGED <<sourceVars, document, polishing, pushVars, reportSteps>>

EntriesOfMutant(snapshot) == [snapshot EXCEPT !.facts = @ \cup snapshot.inferred]

(* insertReportEntries: what was confirmed is 'fact', the rest 'inferred'. *)
EntriesOf(snapshot) == snapshot

(* One transaction: the upsert holds the row until the entries of the earlier
   generation, and what the user and the model added to them, are replaced. *)
RowFree(d) == \A g \in Generations : generation[g].pc # "entries" \/ generation[g].of # d

UpsertReport(g) ==
    LET snapshot == generation[g].snapshot
    IN  /\ generation[g].pc = "write" /\ generation[g].of = "report" /\ RowFree("report")
        /\ document' = [document EXCEPT !["report"].status = "draft",
                                        !["report"].snapshot = snapshot,
                                        !["report"].text = EntriesOf(snapshot)]
        /\ generation' = [generation EXCEPT ![g].pc = "entries", ![g].before = document["report"]]
        /\ UNCHANGED <<sourceVars, polishing, pushVars, reportSteps>>

AfterWriting(g) ==
    [generation EXCEPT ![g] = IF @.useLlm THEN [@ EXCEPT !.pc = "polish", !.before = NoDocument]
                              ELSE NoGeneration]

InsertEntries(g) ==
    /\ generation[g].pc = "entries"
    /\ document' = [document EXCEPT !["report"].entries = EntriesOf(generation[g].snapshot),
                                    !["report"].own = {}]
    /\ generation' = AfterWriting(g)
    /\ UNCHANGED <<sourceVars, polishing, pushVars, reportSteps>>

(* A diary is one statement, and it too becomes a draft again. *)
UpsertDiary(g) ==
    /\ generation[g].pc = "write" /\ generation[g].of = "diary"
    /\ document' = [document EXCEPT !["diary"].status = "draft",
                                    !["diary"].text = EntriesOf(generation[g].snapshot)]
    /\ generation' = AfterWriting(g)
    /\ UNCHANGED <<sourceVars, polishing, pushVars, reportSteps>>

(* A statement fails: the row is what it was. *)
RollbackGeneration(g) ==
    /\ generation[g].pc = "entries"
    /\ document' = [document EXCEPT ![generation[g].of] = generation[g].before]
    /\ generation' = [generation EXCEPT ![g] = NoGeneration]
    /\ UNCHANGED <<sourceVars, polishing, pushVars, reportSteps>>

-----------------------------------------------------------------------------
(* Editing, confirming, polishing *)

(* The user's own text states only what the user knows; a note is an entry
   of its own. *)
Edited(d, text, own) ==
    /\ ReportStep /\ document[d].status # "none" /\ RowFree(d)
    /\ document' = [document EXCEPT ![d].text = text, ![d].own = own]
    /\ UNCHANGED <<sourceVars, generation, polishing, pushVars>>

UpdateReport ==
    \E text \in {NoFacts, document["report"].text}, note \in {{}, {"user_note"}} :
      Edited("report", text, document["report"].own \cup note)

UpdateDiary == Edited("diary", NoFacts, {})

Confirmed(d) ==
    /\ ReportStep /\ document[d].status # "none" /\ RowFree(d)
    /\ document' = [document EXCEPT ![d].status = "confirmed"]
    /\ UNCHANGED <<sourceVars, generation, polishing, pushVars>>

ConfirmReport == Confirmed("report")
ConfirmDiary == Confirmed("diary")

(* The text is read and sent to the model; a generation may ask for it. *)
Polish(p, d) ==
    /\ document[d].status # "none" /\ polishing[p].pc = "idle" /\ RowFree(d)
    /\ \/ ReportStep /\ UNCHANGED generation
       \/ \E g \in Generations :
            /\ generation[g].pc = "polish" /\ generation[g].of = d
            /\ generation' = [generation EXCEPT ![g] = NoGeneration]
            /\ UNCHANGED reportSteps
    /\ polishing' = [polishing EXCEPT ![p] = [pc |-> "call", of |-> d, text |-> document[d].text]]
    /\ UNCHANGED <<sourceVars, document, pushVars>>

PolishReport(p) == Polish(p, "report")
PolishDiary(p) == Polish(p, "diary")

(* A provider that is missing, disabled or fails leaves the template's text. *)
CallOptionalReportLlm(p) == polishing[p].pc = "call" /\ polishing' = [polishing EXCEPT ![p] = NoPolishing]

KeepTemplate(p) ==
    /\ CallOptionalReportLlm(p)
    /\ UNCHANGED <<sourceVars, document, generation, pushVars, reportSteps>>

(* What was read is written back with the summary appended, whatever was
   written meanwhile. *)
Rewrite(p, d, own) ==
    /\ polishing[p].of = d /\ RowFree(d)
    /\ CallOptionalReportLlm(p)
    /\ document' = [document EXCEPT ![d].text = polishing[p].text, ![d].own = @ \cup own]
    /\ UNCHANGED <<sourceVars, generation, pushVars, reportSteps>>

RewriteReport(p) == Rewrite(p, "report", {"ai_summary"})
RewriteDiary(p) == Rewrite(p, "diary", {})

-----------------------------------------------------------------------------
(* Pushing *)

UpsertPushChannel(c) ==
    /\ ReportStep /\ channel[c] = "none"
    /\ \E status \in {"enabled", "disabled"} : channel' = [channel EXCEPT ![c] = status]
    /\ UNCHANGED <<sourceVars, document, generation, polishing, delivery, send>>

(* pushReport: one pending delivery for each enabled channel, then a send for
   each; the model starts the sends with RetryDelivery. *)
PushReport ==
    LET enabled == {c \in Channels : channel[c] = "enabled"}
        fresh == {d \in Deliveries : delivery[d].status = "none"}
    IN  /\ ReportStep /\ enabled # {} /\ document["report"].status # "none"
        /\ \E to \in [enabled -> fresh] :
             /\ \A b, c \in enabled : b # c => to[b] # to[c]
             /\ delivery' = [d \in Deliveries |->
                  IF \E c \in enabled : to[c] = d
                  THEN [status |-> "pending", to |-> CHOOSE c \in enabled : to[c] = d, attempts |-> 0]
                  ELSE delivery[d]]
        /\ UNCHANGED <<sourceVars, document, generation, polishing, channel, send>>

RetryDelivery(s, d) ==
    /\ send[s].pc = "idle" /\ delivery[d].status # "none"
    /\ IF delivery[d].status = "pending" THEN UNCHANGED reportSteps ELSE ReportStep
    /\ send' = [send EXCEPT ![s] = [pc |-> "fetch", delivery |-> d, got |-> FALSE]]
    /\ UNCHANGED <<sourceVars, document, generation, polishing, channel, delivery>>

(* The configuration is any row of the channel's type, enabled or not. *)
FetchChannel(s) ==
    /\ send[s].pc = "fetch"
    /\ \E got \in {FALSE} \cup {channel[c] # "none" : c \in Channels} :
         send' = [send EXCEPT ![s].pc = "record", ![s].got = got]
    /\ UNCHANGED <<sourceVars, document, generation, polishing, channel, delivery, reportSteps>>

Outcome(got) == IF got THEN "sent" ELSE "failed"

(* The outcome is written, or the process ends first. *)
RecordOutcome(s) ==
    LET d == send[s].delivery
    IN  /\ send[s].pc = "record"
        /\ \/ delivery' = [delivery EXCEPT ![d].status = Outcome(send[s].got), ![d].attempts = @ + 1]
           \/ UNCHANGED delivery
        /\ send' = [send EXCEPT ![s] = NoSend]
        /\ UNCHANGED <<sourceVars, document, generation, polishing, channel, reportSteps>>

ReportsNext ==
    \/ \E a \in Activities : Review(a)
    \/ \E g \in Generations :
         \/ GenerateReport(g) \/ GenerateDiary(g) \/ ReadSources(g)
         \/ UpsertReport(g) \/ InsertEntries(g) \/ UpsertDiary(g) \/ RollbackGeneration(g)
    \/ UpdateReport \/ UpdateDiary \/ ConfirmReport \/ ConfirmDiary
    \/ \E p \in Polishings : PolishReport(p) \/ PolishDiary(p) \/ KeepTemplate(p)
                             \/ RewriteReport(p) \/ RewriteDiary(p)
    \/ \E c \in Channels : UpsertPushChannel(c)
    \/ PushReport
    \/ \E s \in Sends : FetchChannel(s) \/ RecordOutcome(s) \/ \E d \in Deliveries : RetryDelivery(s, d)

ReportsSpec == ReportsInit /\ [][ReportsNext]_reportVars

-----------------------------------------------------------------------------
(* Properties *)

ReportsTypeOK ==
    /\ \A a \in Activities : judged[a] \in {"candidate", "confirmed", "rejected"}
    /\ \A d \in Documents :
         /\ document[d].status \in {"none", "draft", "confirmed"}
         /\ document[d].own \subseteq {"user_note", "ai_summary"}
    /\ \A d \in Deliveries :
         /\ delivery[d].status \in {"none", "pending", "sent", "failed"}
         /\ delivery[d].attempts \in Nat

(* No report and no diary calls a fact what the user never confirmed, in its
   text or in its entries, however its sources changed while they were read
   and whatever a late polishing wrote back. *)
FactsAreConfirmed ==
    \A d \in Documents : document[d].text.facts \cup document[d].entries.facts \subseteq logged

(* What the theorem needs besides: a request that runs, and a row it may put
   back, calls no more facts than the log has. *)
Known == [facts: SUBSET logged, inferred: SUBSET Activities]
KnownDocument ==
    [status: {"none", "draft", "confirmed"}, snapshot: Known, entries: Known,
     own: SUBSET {"user_note", "ai_summary"}, text: Known]
KnownGeneration ==
    [pc: {"idle", "read", "segments", "actuals", "write", "entries", "polish"},
     of: Documents \cup {"none"}, snapshot: Known, useLlm: BOOLEAN, before: KnownDocument]
KnownPolishing == [pc: {"idle", "call"}, of: Documents \cup {"none"}, text: Known]

FactsInv ==
    /\ document \in [Documents -> KnownDocument]
    /\ generation \in [Generations -> KnownGeneration]
    /\ polishing \in [Polishings -> KnownPolishing]
=============================================================================
