------------------------------ MODULE Assistant ------------------------------
(***************************************************************************)
(* AiService: chat messages, what the language model proposes, the drafts  *)
(* made of it, their review and their confirmation, which creates a task.  *)
(*                                                                         *)
(* Requests run side by side.  A transaction holds one of the Pool         *)
(* connections; a query outside a transaction needs one for its duration,  *)
(* also when it is sent from within a transaction, as loadToolPolicy is.   *)
(* The statements of a transaction from its last wait to COMMIT are one    *)
(* action, since the rows they write are its own or locked by it.          *)
(***************************************************************************)
EXTENDS Integers, FiniteSets

CONSTANTS
    Drafts,      \* ids of ai_operation_drafts
    Providers,   \* keys of ai_provider_configs
    NoProvider,
    Handlers,    \* requests the server works on at a time
    Pool,        \* connections of the database pool
    Retries,     \* attempts of callModel
    MaxCalls     \* bound: requests that are started, settings that are changed

ASSUME PoolAssumption == Pool \in Nat \ {0}
ASSUME RetriesAssumption == Retries \in Nat \ {0}
ASSUME NoProviderAssumption == NoProvider \notin Providers
ASSUME CallsAssumption == Drafts # {} /\ MaxCalls \in Nat

VARIABLES
    draft,       \* ai_operation_drafts: [Drafts -> status, action, executed]
    tasks,       \* [Drafts -> tasks in sync_objects and sync_changes made from it]
    toolCalls,   \* [Drafts -> rows of ai_tool_calls]
    policy,      \* ai_tool_policies: level of create_task, or "none"
    provider,    \* ai_provider_configs
    default,     \* the provider with is_default
    messages,    \* ai_messages: how many the user asked, how many were answered
    handler,     \* [Requests -> where the request is]
    calls,       \* requests started and settings changed so far
    reopened     \* auxiliary: [Drafts -> reviews that set an executed draft to pending]

data == <<draft, tasks, toolCalls, messages, reopened>>
settings == <<policy, provider, default>>
assistantVars == <<draft, tasks, toolCalls, policy, provider, default, messages, handler, calls,
          reopened>>

Statuses == {"unused", "pending_review", "approved", "rejected"}
Actions  == {"create_task", "activity_explanation_suggestion"}
Levels   == {"none", "disabled", "draft_only", "draft_then_confirm",
             "second_confirm_required"}
Kinds    == {"confirm", "review", "send", "explain"}
Steps    == {"idle", "connect", "lock", "policy", "execute", "provider", "model", "record"}

Draft    == [status: Statuses, action: Actions, executed: BOOLEAN]
Provider == [exists: BOOLEAN, enabled: BOOLEAN, key: BOOLEAN]
Handler  == [pc: Steps, kind: Kinds, draft: Drafts, status: Statuses, phrase: BOOLEAN,
             attempt: 1..Retries]
IdleHandler     == [pc |-> "idle", kind |-> "send", draft |-> CHOOSE d \in Drafts : TRUE,
             status |-> "unused", phrase |-> FALSE, attempt |-> 1]

AssistantInit ==
    /\ draft = [d \in Drafts |->
                  [status |-> "unused", action |-> "create_task", executed |-> FALSE]]
    /\ tasks = [d \in Drafts |-> 0] /\ toolCalls = [d \in Drafts |-> 0]
    /\ policy = "none"
    /\ provider = [p \in Providers |-> [exists |-> FALSE, enabled |-> FALSE, key |-> FALSE]]
    /\ default = NoProvider
    /\ messages = [asked |-> 0, answered |-> 0]
    /\ handler = [r \in Handlers |-> IdleHandler]
    /\ calls = 0
    /\ reopened = [d \in Drafts |-> 0]

-----------------------------------------------------------------------------
(* Requests and connections.                                               *)

InTransaction(r) == handler[r].pc \in {"lock", "policy", "execute"}
FreeConnection == Cardinality({r \in Handlers : InTransaction(r)}) < Pool

Start(r, req) ==
    /\ handler[r] = IdleHandler /\ calls < MaxCalls
    /\ handler' = [handler EXCEPT ![r] = req]
    /\ calls' = calls + 1
    /\ UNCHANGED <<data, settings>>

GoOn(r, step) == handler' = [handler EXCEPT ![r].pc = step]
End(r) == handler' = [handler EXCEPT ![r] = IdleHandler]

\* pool.connect() and BEGIN
Connect(r) ==
    /\ handler[r].pc = "connect" /\ FreeConnection
    /\ GoOn(r, "lock")
    /\ UNCHANGED <<data, settings, calls>>

WaitsForConnectionMutant(r) == handler[r].pc = "connect"
\* Whoever asks the pool for a connection, a transaction for a second one included.
WaitsForConnection(r) == handler[r].pc \in {"connect", "policy", "provider", "record"}

\* connectionTimeoutMillis: the request fails, its transaction is rolled back.
TimeOut(r) ==
    /\ WaitsForConnection(r) /\ ~FreeConnection
    /\ End(r)
    /\ UNCHANGED <<data, settings, calls>>

\* Any other error, or the end of the server: BEGIN .. COMMIT leaves nothing.
AbortHandler(r) ==
    /\ InTransaction(r) /\ calls < MaxCalls
    /\ End(r)
    /\ calls' = calls + 1
    /\ UNCHANGED <<data, settings>>

-----------------------------------------------------------------------------
(* confirmDraft and reviewDraft.                                           *)

Confirm(r, d, phrase) ==
    /\ draft[d].status # "unused"
    /\ Start(r, [IdleHandler EXCEPT !.pc = "connect", !.kind = "confirm", !.draft = d,
                          !.phrase = phrase])

Review(r, d, status) ==
    /\ draft[d].status # "unused"
    /\ Start(r, [IdleHandler EXCEPT !.pc = "connect", !.kind = "review", !.draft = d,
                          !.status = status])

LockedMutant(d) == FALSE
\* SELECT .. FOR UPDATE and UPDATE wait for whoever holds the row.
Locked(d) == \E r \in Handlers : handler[r].pc \in {"policy", "execute"} /\ handler[r].draft = d

ConfirmableMutant(d) == draft[d].status # "rejected"
Confirmable(d) == draft[d].status = "pending_review"

LockDraft(r) ==
    LET d == handler[r].draft IN
    /\ handler[r].pc = "lock" /\ handler[r].kind = "confirm" /\ ~Locked(d)
    /\ IF Confirmable(d) THEN GoOn(r, "policy") ELSE End(r)
    /\ UNCHANGED <<data, settings, calls>>

\* ensureDefaultPolicies, then the row of the tool: on another connection.
EnsuredPolicy == IF policy = "none" THEN "draft_then_confirm" ELSE policy

Allows(r, level) ==
    /\ level \in {"draft_then_confirm", "second_confirm_required"}
    /\ draft[handler[r].draft].action = "create_task"
    /\ level = "second_confirm_required" => handler[r].phrase

LoadToolPolicy(r) ==
    /\ handler[r].pc = "policy" /\ FreeConnection
    /\ policy' = EnsuredPolicy
    /\ IF Allows(r, policy') THEN GoOn(r, "execute") ELSE End(r)
    /\ UNCHANGED <<data, provider, default, calls>>

CreateTask(d) == tasks' = [tasks EXCEPT ![d] = @ + 1]

\* executeDraft, the UPDATE of the draft, the audit rows, the tool call, COMMIT.
ExecuteDraft(r) ==
    LET d == handler[r].draft IN
    /\ handler[r].pc = "execute"
    /\ CreateTask(d)
    /\ draft' = [draft EXCEPT ![d].status = "approved", ![d].executed = TRUE]
    /\ toolCalls' = [toolCalls EXCEPT ![d] = @ + 1]
    /\ End(r)
    /\ UNCHANGED <<settings, messages, reopened, calls>>

\* One UPDATE without a condition on the status, and COMMIT.
ReviewDraft(r) ==
    LET d == handler[r].draft IN
    /\ handler[r].pc = "lock" /\ handler[r].kind = "review" /\ ~Locked(d)
    /\ draft' = [draft EXCEPT ![d].status = handler[r].status]
    /\ reopened' = [reopened EXCEPT ![d] =
                      IF draft[d].executed /\ handler[r].status = "pending_review"
                      THEN @ + 1 ELSE @]
    /\ End(r)
    /\ UNCHANGED <<settings, tasks, toolCalls, messages, calls>>

-----------------------------------------------------------------------------
(* sendMessage and explainActivitySegment.                                 *)

\* Bound: ids enough for the drafts that requests under way may make.
DraftLeft == Cardinality({d \in Drafts : draft[d].status = "unused"})
               > Cardinality({r \in Handlers : handler[r].pc # "idle"})

SendMessage(r) == DraftLeft /\ Start(r, [IdleHandler EXCEPT !.pc = "provider"])
Explain(r) == DraftLeft /\ Start(r, [IdleHandler EXCEPT !.pc = "provider", !.kind = "explain"])

\* loadProvider: the default, or the one updated last when none is.
Loaded ==
    IF default # NoProvider THEN {default}
    ELSE LET existing == {p \in Providers : provider[p].exists} IN
         IF existing = {} THEN {NoProvider} ELSE existing

Usable(p) == p # NoProvider /\ provider[p].enabled /\ provider[p].key

\* sendMessage: the conversation, the provider and the user's message, each a query of
\* its own.
SaveMessage(r) ==
    /\ handler[r].pc = "provider" /\ handler[r].kind = "send" /\ FreeConnection
    /\ messages' = [messages EXCEPT !.asked = @ + 1]
    /\ \E p \in Loaded : GoOn(r, IF Usable(p) THEN "model" ELSE "record")
    /\ UNCHANGED <<draft, tasks, toolCalls, reopened, settings, calls>>

LoadForExplain(r) ==
    /\ handler[r].pc = "provider" /\ handler[r].kind = "explain" /\ FreeConnection
    /\ \E p \in Loaded : IF Usable(p) THEN GoOn(r, "model") ELSE End(r)
    /\ UNCHANGED <<data, settings, calls>>

LastAttempt(r) == handler[r].attempt = Retries

\* callModel: any error, a 4xx as well, is followed by the next attempt.
CallModel(r) ==
    /\ handler[r].pc = "model"
    /\ \/ GoOn(r, "record")
       \/ ~LastAttempt(r) /\ handler' = [handler EXCEPT ![r].attempt = @ + 1]
       \/ LastAttempt(r) /\ End(r)
    /\ UNCHANGED <<data, settings, calls>>

InsertDraft(d, action) ==
    /\ draft[d].status = "unused"
    /\ draft' = [draft EXCEPT ![d] = [status |-> "pending_review", action |-> action,
                                      executed |-> FALSE]]

\* The drafts, create_task only, the assistant's message and the conversation: one
\* transaction that waits for nobody but the pool.
RecordAnswer(r) ==
    /\ handler[r].pc = "record" /\ handler[r].kind = "send" /\ FreeConnection
    /\ UNCHANGED draft \/ \E d \in Drafts : InsertDraft(d, "create_task")
    /\ messages' = [messages EXCEPT !.answered = @ + 1]
    /\ End(r)
    /\ UNCHANGED <<tasks, toolCalls, reopened, settings, calls>>

RecordSuggestion(r) ==
    /\ handler[r].pc = "record" /\ handler[r].kind = "explain" /\ FreeConnection
    /\ \E d \in Drafts : InsertDraft(d, "activity_explanation_suggestion")
    /\ End(r)
    /\ UNCHANGED <<tasks, toolCalls, messages, reopened, settings, calls>>

-----------------------------------------------------------------------------
(* upsertToolPolicy and upsertProvider, each one transaction.              *)

UpsertToolPolicy(level) ==
    /\ FreeConnection /\ calls < MaxCalls
    /\ policy' = level
    /\ calls' = calls + 1
    /\ UNCHANGED <<data, provider, default, handler>>

\* A saved key stays when none is sent; isDefault takes the flag from the others.
UpsertProvider(p, enabled, key, isDefault) ==
    /\ FreeConnection /\ calls < MaxCalls
    /\ provider' = [provider EXCEPT ![p] = [exists |-> TRUE, enabled |-> enabled,
                                            key |-> key \/ @.key]]
    /\ default' = IF isDefault THEN p ELSE IF default = p THEN NoProvider ELSE default
    /\ calls' = calls + 1
    /\ UNCHANGED <<data, policy, handler>>

-----------------------------------------------------------------------------
HandlerStep(r) ==
    \/ Connect(r) \/ LockDraft(r) \/ LoadToolPolicy(r) \/ ExecuteDraft(r) \/ ReviewDraft(r)
    \/ SaveMessage(r) \/ LoadForExplain(r) \/ CallModel(r) \/ RecordAnswer(r)
    \/ RecordSuggestion(r)

AssistantNext ==
    \/ \E r \in Handlers :
         \/ HandlerStep(r) \/ TimeOut(r) \/ AbortHandler(r) \/ SendMessage(r) \/ Explain(r)
         \/ \E d \in Drafts :
              \/ \E phrase \in BOOLEAN : Confirm(r, d, phrase)
              \/ \E s \in Statuses \ {"unused"} : Review(r, d, s)
    \/ \E level \in Levels \ {"none"} : UpsertToolPolicy(level)
    \/ \E p \in Providers, enabled, key, isDefault \in BOOLEAN :
         UpsertProvider(p, enabled, key, isDefault)

AssistantSpec == AssistantInit /\ [][AssistantNext]_assistantVars

\* Requests go on, and the pool serves those that wait for it in turn.
AssistantFairness ==
    \A r \in Handlers : /\ SF_assistantVars(HandlerStep(r))
                        /\ WF_assistantVars(TimeOut(r))

-----------------------------------------------------------------------------
AssistantTypeOK ==
    /\ draft \in [Drafts -> Draft]
    /\ tasks \in [Drafts -> Nat] /\ toolCalls \in [Drafts -> Nat]
    /\ policy \in Levels
    /\ provider \in [Providers -> Provider]
    /\ default \in Providers \cup {NoProvider}
    /\ messages \in [asked: Nat, answered: Nat]
    /\ handler \in [Handlers -> Handler]
    /\ calls \in 0..MaxCalls
    /\ reopened \in [Drafts -> Nat]

\* However often a draft is confirmed at once or again, it makes one task, and one more
\* only after a review has set it back to pending; each is told in ai_tool_calls.
ExecutedOnce ==
    \A d \in Drafts : tasks[d] = toolCalls[d] /\ tasks[d] <= 1 + reopened[d]

\* A task is made only of a draft that is still to be reviewed when it is made: no review
\* and no other confirmation slips in between the look at the draft and its execution.
NothingReviewedExecutes ==
    [][\A d \in Drafts : tasks'[d] # tasks[d] => draft[d].status = "pending_review"]_assistantVars

\* A pool that is used up by transactions waiting for a second connection is not used up
\* for good: every request ends.
RequestsEnd == \A r \in Handlers : (handler[r].pc # "idle") ~> (handler[r].pc = "idle")

(* What the theorems need besides: a draft that may be confirmed has one task
   less to its account, a review is a decision, and whoever has locked a draft
   to confirm it holds it alone and open. *)
HasDraft(r) == handler[r].pc \in {"policy", "execute"}

OpenIsUnspent == \A d \in Drafts : draft[d].status = "pending_review" => tasks[d] <= reopened[d]
SpentIsExecuted ==
    \A d \in Drafts : tasks[d] > 0 => draft[d].executed /\ draft[d].status # "unused"
ReviewsDecide == \A r \in Handlers : handler[r].kind = "review" => handler[r].status # "unused"
HeldIsOpen == \A r \in Handlers : HasDraft(r) => draft[handler[r].draft].status = "pending_review"
HeldAlone ==
    \A r, q \in Handlers : HasDraft(r) /\ HasDraft(q) /\ handler[r].draft = handler[q].draft => r = q

AssistantInv ==
    /\ AssistantTypeOK /\ ExecutedOnce
    /\ OpenIsUnspent /\ SpentIsExecuted /\ ReviewsDecide /\ HeldIsOpen /\ HeldAlone
=============================================================================
