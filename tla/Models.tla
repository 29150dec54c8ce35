-------------------------------- MODULE Models --------------------------------
(***************************************************************************)
(* ModelsService: one model's versions, of which one is active, the        *)
(* feedback it learns from, its runs.  activate and learn are transactions *)
(* of several statements under READ COMMITTED: a statement sees what was   *)
(* committed when it began, waits for rows another transaction has         *)
(* written, and looks at them again.  A partial unique index allows one    *)
(* active version; a violation rolls the transaction back.                 *)
(***************************************************************************)
EXTENDS Integers, FiniteSets

CONSTANTS
    Learned,        \* ids of versions that learning may create
    Editors,        \* activate and learn requests that may run side by side
    ModelRuns,      \* model_runs
    MaxFeedback,    \* bound: feedback events (the code reads the last 200)
    MaxModelSteps,  \* bound: requests
    PenaltyCap,     \* nightPenalty: 25 in steps of 0.25
    BonusCap,       \* confidenceBonus: 0.08 in steps of 0.01
    ThresholdLow, ThresholdHigh  \* taskMatchThreshold: 15..45

DefaultVersion == "default-v1"
Versions == Learned \cup {DefaultVersion}

ASSUME ModelBounds ==
    /\ MaxFeedback \in Nat /\ MaxModelSteps \in Nat
    /\ PenaltyCap \in Nat /\ BonusCap \in Nat
    /\ ThresholdLow \in Nat /\ ThresholdHigh \in Nat /\ ThresholdLow < ThresholdHigh
ASSUME DefaultIsNotLearned == DefaultVersion \notin Learned

VARIABLES
    modelKey,    \* which of the default models this is
    version,     \* model_versions, committed
    profile,     \* their rule_profile_json
    change,      \* versions proposed in model_rule_change_drafts, pending_review
    accepted, rejected,  \* feedback events so far
    edit,        \* [Editors -> where the request is]
    modelRun,    \* model_runs
    modelSteps

modelVars == <<modelKey, version, profile, change, accepted, rejected, edit, modelRun, modelSteps>>

VersionStates == {"absent", "draft", "active", "archived"}
RunStates     == {"none", "running", "succeeded", "partial", "failed"}
EditSteps     == {"idle", "insert", "archive", "set", "commit"}
EditKinds     == {"none", "activate", "learn", "propose"}
Profile       == [penalty: Int, bonus: Int, threshold: Int]

\* What a transaction has written to a version's status, "none" where nothing.
NoWrites == [v \in Versions |-> "none"]
NoEdit   == [pc |-> "idle", kind |-> "none", target |-> DefaultVersion, seen |-> {},
             writes |-> NoWrites, base |-> [penalty |-> 0, bonus |-> 0, threshold |-> ThresholdLow]]

(* ensureDefaultModels has run: every entry point begins with it, and its
   ON CONFLICT DO NOTHING leaves an existing default-v1 as it is. *)
ModelsInit ==
    /\ modelKey \in {"scheduler.v1", "activity_merge.v1"}
    /\ version = [v \in Versions |-> IF v = DefaultVersion THEN "active" ELSE "absent"]
    /\ profile = [v \in Versions |-> [penalty |-> 0, bonus |-> 0, threshold |-> ThresholdLow + 1]]
    /\ change = {} /\ accepted = 0 /\ rejected = 0
    /\ edit = [e \in Editors |-> NoEdit]
    /\ modelRun = [r \in ModelRuns |-> [status |-> "none", version |-> DefaultVersion]]
    /\ modelSteps = 0

ModelStep == modelSteps < MaxModelSteps /\ modelSteps' = modelSteps + 1
ActiveVersions == {v \in Versions : version[v] = "active"}
Smaller(a, b) == IF a < b THEN a ELSE b
Greater(a, b) == IF a > b THEN a ELSE b

-----------------------------------------------------------------------------
(* feedback, recordFeedback *)
Feedback ==
    /\ ModelStep /\ accepted + rejected < MaxFeedback
    /\ \/ accepted' = accepted + 1 /\ UNCHANGED rejected
       \/ rejected' = rejected + 1 /\ UNCHANGED accepted
    /\ UNCHANGED <<modelKey, version, profile, change, edit, modelRun>>

(* applyFeedbackLearning: every learn counts all the feedback again. *)
LearnedPenalty(p) == Greater(0, Smaller(PenaltyCap, p + rejected))

LearnedThreshold(t) ==
    Greater(ThresholdLow, Smaller(ThresholdHigh, IF rejected > accepted THEN t + 2 ELSE t - 1))

ApplyFeedbackLearning(p) ==
    IF modelKey = "scheduler.v1"
    THEN [p EXCEPT !.penalty = LearnedPenalty(@),
                   !.bonus = IF accepted > rejected THEN Smaller(BonusCap, @ + 1) ELSE @]
    ELSE [p EXCEPT !.threshold = LearnedThreshold(@)]

-----------------------------------------------------------------------------
(* The transactions *)

Others(e)    == Editors \ {e}
Wrote(e) == {v \in Versions : edit[e].writes[v] # "none"}
LockedByOthers(e) == UNION {Wrote(o) : o \in Others(e)}
ActivePending(e)  == \E o \in Others(e), v \in Versions : edit[o].writes[v] = "active"

(* activate begins: its first statement archives what is active. *)
ActivateBegin(e, target) ==
    /\ ModelStep /\ edit[e].pc = "idle"
    /\ edit' = [edit EXCEPT ![e] = [NoEdit EXCEPT !.pc = "archive", !.kind = "activate",
                                                  !.target = target, !.seen = ActiveVersions]]
    /\ UNCHANGED <<modelKey, version, profile, change, accepted, rejected, modelRun>>

(* learn reads the active profile and the feedback before its transaction. *)
LearnRead(e) ==
    /\ ModelStep /\ edit[e].pc = "idle"
    /\ \E v \in ActiveVersions :
         edit' = [edit EXCEPT ![e] = [NoEdit EXCEPT !.pc = "insert", !.kind = "learn",
                                                    !.base = ApplyFeedbackLearning(profile[v])]]
    /\ UNCHANGED <<modelKey, version, profile, change, accepted, rejected, modelRun>>

(* learn inserts the version; unless autoActivate is false (isLowRiskLearning
   holds for every profile that is not huge) it archives all others. *)
LearnInsert(e, v) ==
    /\ edit[e].pc = "insert" /\ version[v] = "absent" /\ v \notin LockedByOthers(e)
    /\ \/ edit' = [edit EXCEPT ![e] = [@ EXCEPT !.pc = "archive", !.target = v, !.writes[v] = "draft",
                                               !.seen = {u \in Versions : version[u] # "absent"}]]
       \/ edit' = [edit EXCEPT ![e] = [@ EXCEPT !.pc = "commit", !.kind = "propose", !.target = v,
                                               !.writes[v] = "draft"]]
    /\ UNCHANGED <<modelKey, version, profile, change, accepted, rejected, modelRun, modelSteps>>

(* The rows the statement saw, once no other transaction holds them. *)
Archivable(e) ==
    {v \in edit[e].seen : edit[e].kind = "activate" => version[v] = "active"}

Archive(e) ==
    /\ edit[e].pc = "archive" /\ edit[e].seen \cap LockedByOthers(e) = {}
    /\ edit' = [edit EXCEPT ![e].pc = "set",
                            ![e].writes = [v \in Versions |->
                                IF v \in Archivable(e) THEN "archived" ELSE edit[e].writes[v]]]
    /\ UNCHANGED <<modelKey, version, profile, change, accepted, rejected, modelRun, modelSteps>>

(* The target becomes active, where it is there and the index admits it. *)
IsThere(e) == edit[e].target \in Wrote(e) \/ version[edit[e].target] # "absent"

ActivatedARowMutant(e) == TRUE

(* activate throws when its UPDATE returned no row. *)
ActivatedARow(e) == IsThere(e)

IndexAdmits(e) == ActiveVersions \subseteq Wrote(e) \cup {edit[e].target}

SetActive(e) ==
    LET target == edit[e].target
    IN  /\ edit[e].pc = "set" /\ target \notin LockedByOthers(e) /\ ~ActivePending(e)
        /\ ActivatedARow(e) /\ IndexAdmits(e)
        /\ edit' = [edit EXCEPT ![e].pc = "commit",
                       ![e].writes[target] = IF IsThere(e) THEN "active" ELSE @]
        /\ UNCHANGED <<modelKey, version, profile, change, accepted, rejected, modelRun, modelSteps>>

Commit(e) ==
    /\ edit[e].pc = "commit"
    /\ version' = [v \in Versions |-> IF v \in Wrote(e) THEN edit[e].writes[v] ELSE version[v]]
    /\ profile' = IF edit[e].kind = "activate" THEN profile
                  ELSE [profile EXCEPT ![edit[e].target] = edit[e].base]
    /\ change' = IF edit[e].kind = "propose" THEN change \cup {edit[e].target} ELSE change
    /\ edit' = [edit EXCEPT ![e] = NoEdit]
    /\ UNCHANGED <<modelKey, accepted, rejected, modelRun, modelSteps>>

(* The version is missing, the index or the key refuses, a deadlock, a crash. *)
Rollback(e) ==
    /\ edit[e].pc # "idle"
    /\ edit' = [edit EXCEPT ![e] = NoEdit]
    /\ UNCHANGED <<modelKey, version, profile, change, accepted, rejected, modelRun, modelSteps>>

-----------------------------------------------------------------------------
(* startRun and completeRun around a caller's work; a caller that fails
   between them leaves the run 'running'. *)
StartRun(r) ==
    /\ ModelStep /\ modelRun[r].status = "none"
    /\ \E v \in ActiveVersions : modelRun' = [modelRun EXCEPT ![r] = [status |-> "running", version |-> v]]
    /\ UNCHANGED <<modelKey, version, profile, change, accepted, rejected, edit>>

CompleteRun(r) ==
    /\ modelRun[r].status = "running"
    /\ \E s \in {"succeeded", "partial", "failed"} : modelRun' = [modelRun EXCEPT ![r].status = s]
    /\ UNCHANGED <<modelKey, version, profile, change, accepted, rejected, edit, modelSteps>>

ModelsNext ==
    \/ Feedback
    \/ \E e \in Editors, v \in Versions : ActivateBegin(e, v) \/ LearnInsert(e, v)
    \/ \E e \in Editors : LearnRead(e) \/ Archive(e) \/ SetActive(e) \/ Commit(e) \/ Rollback(e)
    \/ \E r \in ModelRuns : StartRun(r) \/ CompleteRun(r)

ModelsSpec == ModelsInit /\ [][ModelsNext]_modelVars

-----------------------------------------------------------------------------
(* Properties *)

Edit == [pc: EditSteps, kind: EditKinds, target: Versions, seen: SUBSET Versions,
         writes: [Versions -> VersionStates \cup {"none"}], base: Profile]

ModelsTypeOK ==
    /\ version \in [Versions -> VersionStates]
    /\ profile \in [Versions -> Profile]
    /\ change \subseteq Versions /\ accepted \in Nat /\ rejected \in Nat
    /\ edit \in [Editors -> Edit]
    /\ modelRun \in [ModelRuns -> [status: RunStates, version: Versions]]

(* There is one active version, always: activeVersion throws without one,
   and every scheduler run and segment build asks for it.  Archiving and
   activating are two statements, and a version to activate may not exist. *)
OneActive == Cardinality(ActiveVersions) = 1

(* What the theorem needs besides: transactions write different rows, at
   most one writes 'active', to its target, and when it is to commit it has
   written all that is active otherwise; a proposal adds a draft. *)
OneIsActive   == \E v \in Versions : ActiveVersions = {v}
InsertsFirst  == \A e \in Editors : edit[e].pc = "insert" => Wrote(e) = {}
ProposalsEnd  == \A e \in Editors : edit[e].kind = "propose" => edit[e].pc = "commit"
WritesApart   == \A e, f \in Editors : Wrote(e) \cap Wrote(f) # {} => e = f
ActivatesLast ==
    \A e \in Editors, v \in Versions : edit[e].writes[v] = "active" =>
        edit[e].pc = "commit" /\ edit[e].kind # "propose" /\ edit[e].target = v
OneActivates ==
    \A e, f \in Editors, v, w \in Versions :
        edit[e].writes[v] = "active" /\ edit[f].writes[w] = "active" => e = f
CommitsLeaveOne ==
    \A e \in Editors : edit[e].pc = "commit" =>
        IF edit[e].kind = "propose" THEN \A v \in Wrote(e) : version[v] = "absent"
        ELSE edit[e].writes[edit[e].target] = "active" /\ ActiveVersions \subseteq Wrote(e)

ModelsInv ==
    /\ ModelsTypeOK /\ OneIsActive /\ InsertsFirst /\ ProposalsEnd /\ WritesApart
    /\ ActivatesLast /\ OneActivates /\ CommitsLeaveOne
=============================================================================
