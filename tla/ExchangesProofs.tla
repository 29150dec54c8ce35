-------------------------- MODULE ExchangesProofs ---------------------------
(***************************************************************************)
(* Theorems about the exchanges of a device with a server: that a draft of *)
(* the assistant makes one task, that an uploaded file arrives whole and a *)
(* download is of one state of it, and that what a device opens without a  *)
(* download is the newest content it was told of.                          *)
(***************************************************************************)
EXTENDS Assistant, FileTransfer, FileDrive, TLAPS

-----------------------------------------------------------------------------
(* The assistant                                                           *)

LEMMA IdleIsHandler == IdleHandler \in Handler /\ IdleHandler.kind = "send" /\ IdleHandler.pc = "idle"
<1>1. (CHOOSE d \in Drafts : TRUE) \in Drafts
  BY CallsAssumption
<1> QED
  BY <1>1, RetriesAssumption DEF IdleHandler, Handler, Steps, Kinds, Statuses

(* A request that does not come to hold a draft and leaves the drafts alone. *)
LEMMA HandlerMoves ==
    ASSUME AssistantInv, UNCHANGED <<draft, tasks, toolCalls, reopened>>,
           AssistantTypeOK', NEW r \in Handlers,
           \A q \in Handlers \ {r} : handler'[q] = handler[q],
           HasDraft(r)' => HasDraft(r) /\ handler'[r].draft = handler[r].draft,
           handler'[r].kind = "review" => handler'[r].status # "unused"
    PROVE  AssistantInv'
<1>1. \A q \in Handlers : HasDraft(q)' => HasDraft(q) /\ handler'[q].draft = handler[q].draft
  BY DEF HasDraft
<1>2. HeldIsOpen' /\ HeldAlone'
  BY <1>1 DEF AssistantInv, HeldIsOpen, HeldAlone
<1>3. ReviewsDecide'
  BY DEF AssistantInv, ReviewsDecide
<1> QED
  BY <1>2, <1>3 DEF AssistantInv, ExecutedOnce, OpenIsUnspent, SpentIsExecuted

(* A request is given up or goes on without a lock. *)
LEMMA EndMoves ==
    ASSUME AssistantInv, NEW r \in Handlers, End(r)
    PROVE  /\ handler' \in [Handlers -> Handler]
           /\ \A q \in Handlers \ {r} : handler'[q] = handler[q]
           /\ ~HasDraft(r)' /\ handler'[r].kind # "review"
BY IdleIsHandler DEF End, AssistantInv, AssistantTypeOK, HasDraft

LEMMA GoOnMoves ==
    ASSUME AssistantInv, NEW r \in Handlers, NEW st \in Steps, GoOn(r, st)
    PROVE  /\ handler' \in [Handlers -> Handler]
           /\ \A q \in Handlers \ {r} : handler'[q] = handler[q]
           /\ handler'[r].pc = st /\ handler'[r].draft = handler[r].draft
           /\ handler'[r].kind = handler[r].kind /\ handler'[r].status = handler[r].status
BY DEF GoOn, AssistantInv, AssistantTypeOK, Handler

-----------------------------------------------------------------------------
(* Confirming and reviewing *)

LEMMA StartInv ==
    ASSUME AssistantInv, NEW r \in Handlers, NEW req \in Handler, Start(r, req),
           req.pc \notin {"policy", "execute"}, req.kind = "review" => req.status # "unused"
    PROVE  AssistantInv'
<1>1. AssistantTypeOK'
  BY CallsAssumption DEF Start, data, settings, AssistantInv, AssistantTypeOK
<1>2. handler'[r] = req /\ \A q \in Handlers \ {r} : handler'[q] = handler[q]
  BY DEF Start, AssistantInv, AssistantTypeOK
<1> QED
  BY <1>1, <1>2, HandlerMoves DEF Start, data, HasDraft

LEMMA LockDraftInv ==
    ASSUME AssistantInv, NEW r \in Handlers, LockDraft(r)
    PROVE  AssistantInv'
<1> DEFINE d == handler[r].draft
<1>0. UNCHANGED <<draft, tasks, toolCalls, reopened, messages, policy, provider, default, calls>>
  BY DEF LockDraft, data, settings
<1>1. CASE Confirmable(d)
  <2>1. GoOn(r, "policy") /\ ~Locked(d) /\ "policy" \in Steps
    BY <1>1 DEF LockDraft, Steps
  <2>2. /\ handler' \in [Handlers -> Handler]
        /\ \A q \in Handlers \ {r} : handler'[q] = handler[q]
        /\ handler'[r].draft = d /\ handler'[r].kind = handler[r].kind
        /\ handler'[r].status = handler[r].status
    BY <2>1, GoOnMoves
  <2>3. \A q \in Handlers : HasDraft(q) => handler[q].draft # d
    BY <2>1 DEF Locked, HasDraft
  <2>4. \A q \in Handlers \ {r} : HasDraft(q)' => HasDraft(q) /\ handler'[q].draft = handler[q].draft
    BY <2>2 DEF HasDraft
  <2>5. HeldIsOpen'
    BY <1>0, <1>1, <2>2, <2>4 DEF AssistantInv, HeldIsOpen, Confirmable
  <2>6. HeldAlone'
    BY <2>2, <2>3, <2>4 DEF AssistantInv, HeldAlone
  <2>7. ReviewsDecide'
    BY <2>2 DEF AssistantInv, ReviewsDecide
  <2> QED
    BY <1>0, <2>2, <2>5, <2>6, <2>7
       DEF AssistantInv, AssistantTypeOK, ExecutedOnce, OpenIsUnspent, SpentIsExecuted
<1>2. CASE ~Confirmable(d)
  <2>1. End(r)
    BY <1>2 DEF LockDraft
  <2>2. AssistantTypeOK'
    BY <1>0, <2>1, EndMoves DEF AssistantInv, AssistantTypeOK
  <2> QED
    BY <1>0, <2>1, <2>2, EndMoves, HandlerMoves
<1> QED
  BY <1>1, <1>2

LEMMA LoadToolPolicyInv ==
    ASSUME AssistantInv, NEW r \in Handlers, LoadToolPolicy(r)
    PROVE  AssistantInv'
<1>0. UNCHANGED <<draft, tasks, toolCalls, reopened, messages, provider, default, calls>>
  BY DEF LoadToolPolicy, data
<1>1. policy' \in Levels
  BY DEF LoadToolPolicy, EnsuredPolicy, AssistantInv, AssistantTypeOK, Levels
<1>2. CASE GoOn(r, "execute")
  <2>1. /\ handler' \in [Handlers -> Handler]
        /\ \A q \in Handlers \ {r} : handler'[q] = handler[q]
        /\ handler'[r].draft = handler[r].draft /\ handler'[r].kind = handler[r].kind
        /\ handler'[r].status = handler[r].status
    BY <1>2, GoOnMoves DEF Steps
  <2>2. HasDraft(r)
    BY DEF LoadToolPolicy, HasDraft
  <2>3. AssistantTypeOK'
    BY <1>0, <1>1, <2>1 DEF AssistantInv, AssistantTypeOK
  <2> QED
    BY <1>0, <2>1, <2>2, <2>3, HandlerMoves DEF AssistantInv, ReviewsDecide
<1>3. CASE End(r)
  <2>1. AssistantTypeOK'
    BY <1>0, <1>1, <1>3, EndMoves DEF AssistantInv, AssistantTypeOK
  <2> QED
    BY <1>0, <1>3, <2>1, EndMoves, HandlerMoves
<1> QED
  BY <1>2, <1>3 DEF LoadToolPolicy

(* The task is made of a draft that is held, alone, and therefore open. *)
LEMMA ExecuteDraftInv ==
    ASSUME AssistantInv, NEW r \in Handlers, ExecuteDraft(r)
    PROVE  AssistantInv' /\ draft[handler[r].draft].status = "pending_review"
<1> DEFINE d == handler[r].draft
<1>1. d \in Drafts /\ HasDraft(r) /\ draft[d].status = "pending_review" /\ tasks[d] <= reopened[d]
  BY DEF ExecuteDraft, HasDraft, AssistantInv, AssistantTypeOK, HeldIsOpen, OpenIsUnspent, Handler
<1>2. /\ tasks' = [tasks EXCEPT ![d] = @ + 1] /\ toolCalls' = [toolCalls EXCEPT ![d] = @ + 1]
      /\ draft' = [draft EXCEPT ![d].status = "approved", ![d].executed = TRUE]
      /\ UNCHANGED <<reopened, messages, policy, provider, default, calls>>
  BY DEF ExecuteDraft, CreateTask, settings
<1>3. /\ handler' \in [Handlers -> Handler]
      /\ \A q \in Handlers \ {r} : handler'[q] = handler[q]
      /\ ~HasDraft(r)' /\ handler'[r].kind # "review"
  BY EndMoves DEF ExecuteDraft
<1> HIDE DEF d
<1>4a. /\ draft' = [draft EXCEPT ![d] = [@ EXCEPT !.status = "approved", !.executed = TRUE]]
       /\ [draft[d] EXCEPT !.status = "approved", !.executed = TRUE] \in Draft
  BY <1>1, <1>2 DEF AssistantInv, AssistantTypeOK, Draft, Statuses
<1>4b. /\ draft' \in [Drafts -> Draft]
       /\ draft'[d].status = "approved" /\ draft'[d].executed
       /\ \A x \in Drafts \ {d} : draft'[x] = draft[x]
  BY <1>1, <1>4a DEF AssistantInv, AssistantTypeOK, Draft
<1>4. /\ tasks' \in [Drafts -> Nat] /\ toolCalls' \in [Drafts -> Nat]
      /\ tasks'[d] = tasks[d] + 1 /\ toolCalls'[d] = toolCalls[d] + 1
      /\ \A x \in Drafts \ {d} : tasks'[x] = tasks[x] /\ toolCalls'[x] = toolCalls[x]
  BY <1>1, <1>2 DEF AssistantInv, AssistantTypeOK
<1>5. AssistantTypeOK'
  BY <1>2, <1>3, <1>4, <1>4b DEF AssistantInv, AssistantTypeOK
<1>6. ExecutedOnce'
  BY <1>1, <1>2, <1>4 DEF AssistantInv, AssistantTypeOK, ExecutedOnce
<1>7. OpenIsUnspent' /\ SpentIsExecuted'
  BY <1>1, <1>2, <1>4, <1>4b DEF AssistantInv, OpenIsUnspent, SpentIsExecuted
<1>8. ReviewsDecide'
  BY <1>3 DEF AssistantInv, ReviewsDecide
<1>9. \A q \in Handlers : HasDraft(q)' => q # r /\ HasDraft(q) /\ handler'[q].draft = handler[q].draft
  BY <1>3 DEF HasDraft
<1>10. \A q \in Handlers : HasDraft(q)' => handler[q].draft \in Drafts \ {d}
  BY <1>1, <1>9 DEF AssistantInv, HeldAlone, AssistantTypeOK, Handler, d
<1>11. HeldIsOpen' /\ HeldAlone'
  BY <1>4b, <1>9, <1>10 DEF AssistantInv, HeldIsOpen, HeldAlone
<1> QED
  BY <1>1, <1>5, <1>6, <1>7, <1>8, <1>11 DEF AssistantInv, d

(* A review waits for whoever holds the draft.  What it reopens after an
   execution may make one task more. *)
LEMMA ReviewDraftInv ==
    ASSUME AssistantInv, NEW r \in Handlers, ReviewDraft(r)
    PROVE  AssistantInv'
<1> DEFINE d == handler[r].draft
<1>1. /\ d \in Drafts /\ handler[r].status \in Statuses \ {"unused"}
      /\ \A q \in Handlers : HasDraft(q) => handler[q].draft # d
  BY DEF ReviewDraft, Locked, HasDraft, AssistantInv, AssistantTypeOK, ReviewsDecide, Handler
<1>2. UNCHANGED <<policy, provider, default, tasks, toolCalls, messages, calls>>
  BY DEF ReviewDraft, settings
<1>3. /\ handler' \in [Handlers -> Handler]
      /\ \A q \in Handlers \ {r} : handler'[q] = handler[q]
      /\ ~HasDraft(r)' /\ handler'[r].kind # "review"
  BY EndMoves DEF ReviewDraft
<1>4. /\ draft' = [draft EXCEPT ![d] = [@ EXCEPT !.status = handler[r].status]]
      /\ [draft[d] EXCEPT !.status = handler[r].status] \in Draft
  BY <1>1 DEF ReviewDraft, AssistantInv, AssistantTypeOK, Draft
<1>5. /\ draft' \in [Drafts -> Draft]
      /\ draft'[d].status = handler[r].status /\ draft'[d].executed = draft[d].executed
      /\ \A x \in Drafts \ {d} : draft'[x] = draft[x]
  BY <1>1, <1>4 DEF AssistantInv, AssistantTypeOK, Draft
<1>6. /\ reopened' \in [Drafts -> Nat]
      /\ \A x \in Drafts \ {d} : reopened'[x] = reopened[x]
      /\ reopened'[d] = IF draft[d].executed /\ handler[r].status = "pending_review"
                        THEN reopened[d] + 1 ELSE reopened[d]
  BY <1>1 DEF ReviewDraft, AssistantInv, AssistantTypeOK
<1> HIDE DEF d
<1>7. AssistantTypeOK'
  BY <1>2, <1>3, <1>5, <1>6 DEF AssistantInv, AssistantTypeOK
<1>8. ExecutedOnce' /\ OpenIsUnspent'
  BY <1>1, <1>2, <1>5, <1>6
     DEF AssistantInv, AssistantTypeOK, ExecutedOnce, OpenIsUnspent, SpentIsExecuted
<1>9. SpentIsExecuted'
  BY <1>1, <1>2, <1>5 DEF AssistantInv, SpentIsExecuted
<1>10. ReviewsDecide'
  BY <1>3 DEF AssistantInv, ReviewsDecide
<1>11. \A q \in Handlers : HasDraft(q)' => HasDraft(q) /\ handler'[q].draft = handler[q].draft
  BY <1>3 DEF HasDraft
<1>12. \A q \in Handlers : HasDraft(q)' => handler[q].draft \in Drafts \ {d}
  BY <1>1, <1>11 DEF AssistantInv, AssistantTypeOK, Handler
<1>13. HeldIsOpen' /\ HeldAlone'
  BY <1>5, <1>11, <1>12 DEF AssistantInv, HeldIsOpen, HeldAlone
<1> QED
  BY <1>7, <1>8, <1>9, <1>10, <1>13 DEF AssistantInv

-----------------------------------------------------------------------------
(* Everything else *)

(* A request that holds nothing ends or goes on, and may have made a draft,
   under an id that nobody can have held. *)
LEMMA RecordInv ==
    ASSUME AssistantInv, NEW r \in Handlers, handler[r].pc = "record", End(r),
           UNCHANGED draft \/ \E d \in Drafts, action \in Actions : InsertDraft(d, action),
           messages' \in [asked: Nat, answered: Nat],
           UNCHANGED <<tasks, toolCalls, reopened, policy, provider, default, calls>>
    PROVE  AssistantInv'
<1>1. CASE UNCHANGED draft
  <2>1. AssistantTypeOK'
    BY <1>1, EndMoves DEF AssistantInv, AssistantTypeOK
  <2> QED
    BY <1>1, <2>1, EndMoves, HandlerMoves
<1>2. ASSUME NEW d \in Drafts, NEW action \in Actions, InsertDraft(d, action) PROVE AssistantInv'
  <2>1. /\ draft[d].status = "unused" /\ draft' \in [Drafts -> Draft]
        /\ draft'[d].status = "pending_review" /\ ~draft'[d].executed
        /\ \A x \in Drafts \ {d} : draft'[x] = draft[x]
    BY <1>2 DEF InsertDraft, AssistantInv, AssistantTypeOK, Draft, Statuses
  <2>2. tasks[d] = 0
    BY <2>1 DEF AssistantInv, SpentIsExecuted, AssistantTypeOK
  <2>3. /\ handler' \in [Handlers -> Handler]
        /\ \A q \in Handlers \ {r} : handler'[q] = handler[q]
        /\ ~HasDraft(r)' /\ handler'[r].kind # "review"
    BY EndMoves
  <2>4. AssistantTypeOK'
    BY <2>1, <2>3 DEF AssistantInv, AssistantTypeOK
  <2>5. ExecutedOnce' /\ OpenIsUnspent' /\ SpentIsExecuted'
    BY <2>1, <2>2 DEF AssistantInv, AssistantTypeOK, ExecutedOnce, OpenIsUnspent, SpentIsExecuted
  <2>6. ReviewsDecide'
    BY <2>3 DEF AssistantInv, ReviewsDecide
  <2>7. \A q \in Handlers : HasDraft(q)' => HasDraft(q) /\ handler'[q].draft = handler[q].draft
    BY <2>3 DEF HasDraft
  <2>8. \A q \in Handlers : HasDraft(q)' => handler[q].draft \in Drafts \ {d}
    BY <2>1, <2>7 DEF AssistantInv, AssistantTypeOK, Handler, HeldIsOpen
  <2>9. HeldIsOpen' /\ HeldAlone'
    BY <2>1, <2>7, <2>8 DEF AssistantInv, HeldIsOpen, HeldAlone
  <2> QED
    BY <2>4, <2>5, <2>6, <2>9 DEF AssistantInv
<1> QED
  BY <1>1, <1>2

LEMMA GoesOnUnheld ==
    ASSUME AssistantInv, NEW r \in Handlers, NEW st \in Steps \ {"policy", "execute"},
           GoOn(r, st), messages' \in [asked: Nat, answered: Nat],
           UNCHANGED <<draft, tasks, toolCalls, reopened, policy, provider, default, calls>>
    PROVE  AssistantInv'
<1>1. AssistantTypeOK'
  BY GoOnMoves DEF AssistantInv, AssistantTypeOK
<1>2. ~HasDraft(r)'
  BY GoOnMoves DEF HasDraft
<1> QED
  BY <1>1, <1>2, GoOnMoves, HandlerMoves DEF AssistantInv, ReviewsDecide

LEMMA EndsUnheld ==
    ASSUME AssistantInv, NEW r \in Handlers, End(r), calls' \in 0..MaxCalls,
           UNCHANGED <<draft, tasks, toolCalls, reopened, messages, policy, provider, default>>
    PROVE  AssistantInv'
<1>1. AssistantTypeOK'
  BY EndMoves DEF AssistantInv, AssistantTypeOK
<1> QED
  BY <1>1, EndMoves, HandlerMoves

LEMMA SettingsInv ==
    ASSUME AssistantInv, UNCHANGED <<draft, tasks, toolCalls, reopened, messages, handler>>,
           policy' \in Levels, provider' \in [Providers -> Provider],
           default' \in Providers \cup {NoProvider}, calls' \in 0..MaxCalls
    PROVE  AssistantInv'
BY DEF AssistantInv, AssistantTypeOK, ExecutedOnce, OpenIsUnspent, SpentIsExecuted,
       ReviewsDecide, HeldIsOpen, HeldAlone, HasDraft

LEMMA CallModelInv ==
    ASSUME AssistantInv, NEW r \in Handlers, CallModel(r)
    PROVE  AssistantInv'
<1>0. UNCHANGED <<draft, tasks, toolCalls, reopened, messages, policy, provider, default, calls>>
  BY DEF CallModel, data, settings
<1>1. CASE GoOn(r, "record")
  BY <1>0, <1>1, GoesOnUnheld DEF Steps, AssistantInv, AssistantTypeOK
<1>2. CASE End(r)
  BY <1>0, <1>2, EndsUnheld DEF AssistantInv, AssistantTypeOK
<1>3. CASE ~LastAttempt(r) /\ handler' = [handler EXCEPT ![r].attempt = @ + 1]
  <2>1. handler[r].attempt + 1 \in 1..Retries
    <3>1. handler[r].attempt \in 1..Retries
      BY DEF AssistantInv, AssistantTypeOK, Handler
    <3>2. handler[r].attempt # Retries
      BY <1>3 DEF LastAttempt
    <3> QED
      BY <3>1, <3>2, RetriesAssumption
  <2>2. handler' \in [Handlers -> Handler]
    BY <1>3, <2>1 DEF AssistantInv, AssistantTypeOK, Handler
  <2>3. /\ \A q \in Handlers \ {r} : handler'[q] = handler[q]
        /\ handler'[r].pc = handler[r].pc /\ handler'[r].draft = handler[r].draft
        /\ handler'[r].kind = handler[r].kind /\ handler'[r].status = handler[r].status
    BY <1>3 DEF AssistantInv, AssistantTypeOK, Handler
  <2>4. AssistantTypeOK'
    BY <1>0, <2>2 DEF AssistantInv, AssistantTypeOK
  <2> QED
    BY <1>0, <2>3, <2>4, HandlerMoves DEF AssistantInv, ReviewsDecide, HasDraft
<1> QED
  BY <1>1, <1>2, <1>3 DEF CallModel

LEMMA MessagesGrow ==
    ASSUME AssistantInv
    PROVE  /\ [messages EXCEPT !.asked = @ + 1] \in [asked: Nat, answered: Nat]
           /\ [messages EXCEPT !.answered = @ + 1] \in [asked: Nat, answered: Nat]
           /\ messages \in [asked: Nat, answered: Nat]
BY DEF AssistantInv, AssistantTypeOK

LEMMA HandlerStepInv ==
    ASSUME AssistantInv, NEW r \in Handlers, HandlerStep(r)
    PROVE  AssistantInv'
<1>1. CASE Connect(r)
  <2>1. GoOn(r, "lock") /\ "lock" \in Steps \ {"policy", "execute"}
    BY <1>1 DEF Connect, Steps
  <2> QED
    BY <1>1, <2>1, MessagesGrow, GoesOnUnheld DEF Connect, data, settings
<1>2. CASE LockDraft(r) \/ LoadToolPolicy(r) \/ ExecuteDraft(r) \/ ReviewDraft(r) \/ CallModel(r)
  BY <1>2, LockDraftInv, LoadToolPolicyInv, ExecuteDraftInv, ReviewDraftInv, CallModelInv
<1>3. CASE SaveMessage(r)
  <2>1. PICK st \in {"model", "record"} : GoOn(r, st)
    BY <1>3 DEF SaveMessage
  <2>2. st \in Steps \ {"policy", "execute"}
    BY DEF Steps
  <2> QED
    BY <1>3, <2>1, <2>2, MessagesGrow, GoesOnUnheld DEF SaveMessage, settings
<1>4. CASE LoadForExplain(r)
  <2>1. /\ UNCHANGED <<draft, tasks, toolCalls, reopened, messages>>
        /\ UNCHANGED <<policy, provider, default, calls>>
    BY <1>4 DEF LoadForExplain, data, settings
  <2>2. GoOn(r, "model") \/ End(r)
    BY <1>4 DEF LoadForExplain
  <2>3. "model" \in Steps \ {"policy", "execute"} /\ calls \in 0..MaxCalls
    BY DEF Steps, AssistantInv, AssistantTypeOK
  <2> QED
    BY <2>1, <2>2, <2>3, MessagesGrow, GoesOnUnheld, EndsUnheld
<1>5. CASE RecordAnswer(r)
  <2>1. "create_task" \in Actions
    BY DEF Actions
  <2> QED
    BY <1>5, <2>1, MessagesGrow, RecordInv DEF RecordAnswer, settings
<1>6. CASE RecordSuggestion(r)
  <2>1. "activity_explanation_suggestion" \in Actions
    BY DEF Actions
  <2> QED
    BY <1>6, <2>1, MessagesGrow, RecordInv DEF RecordSuggestion, settings
<1> QED
  BY <1>1, <1>2, <1>3, <1>4, <1>5, <1>6 DEF HandlerStep

LEMMA AssistantNextInv == AssistantInv /\ [AssistantNext]_assistantVars => AssistantInv'
<1> SUFFICES ASSUME AssistantInv, [AssistantNext]_assistantVars PROVE AssistantInv'
  OBVIOUS
<1>1. ASSUME NEW r \in Handlers, HandlerStep(r) PROVE AssistantInv'
  BY <1>1, HandlerStepInv
<1>2. ASSUME NEW r \in Handlers, TimeOut(r) PROVE AssistantInv'
  BY <1>2, EndsUnheld DEF TimeOut, data, settings, AssistantInv, AssistantTypeOK
<1>3. ASSUME NEW r \in Handlers, AbortHandler(r) PROVE AssistantInv'
  BY <1>3, EndsUnheld, CallsAssumption DEF AbortHandler, data, settings, AssistantInv, AssistantTypeOK
<1>4. ASSUME NEW r \in Handlers, SendMessage(r) \/ Explain(r) PROVE AssistantInv'
  <2>1. /\ [IdleHandler EXCEPT !.pc = "provider"] \in Handler
        /\ [IdleHandler EXCEPT !.pc = "provider", !.kind = "explain"] \in Handler
    BY IdleIsHandler DEF Handler, Steps, Kinds
  <2> QED
    BY <1>4, <2>1, IdleIsHandler, StartInv DEF SendMessage, Explain, Handler
<1>5. ASSUME NEW r \in Handlers, NEW d \in Drafts, NEW phrase \in BOOLEAN, Confirm(r, d, phrase)
      PROVE AssistantInv'
  <2> DEFINE req == [IdleHandler EXCEPT !.pc = "connect", !.kind = "confirm", !.draft = d,
                                        !.phrase = phrase]
  <2>1. req \in Handler /\ req.pc = "connect" /\ req.kind = "confirm"
    BY IdleIsHandler DEF Handler, Steps, Kinds
  <2> QED
    BY <1>5, <2>1, StartInv DEF Confirm
<1>6. ASSUME NEW r \in Handlers, NEW d \in Drafts, NEW s \in Statuses \ {"unused"}, Review(r, d, s)
      PROVE AssistantInv'
  <2> DEFINE req == [IdleHandler EXCEPT !.pc = "connect", !.kind = "review", !.draft = d,
                                        !.status = s]
  <2>1. req \in Handler /\ req.pc = "connect" /\ req.status # "unused"
    BY IdleIsHandler DEF Handler, Steps, Kinds
  <2> QED
    BY <1>6, <2>1, StartInv DEF Review
<1>7. ASSUME NEW level \in Levels \ {"none"}, UpsertToolPolicy(level) PROVE AssistantInv'
  BY <1>7, SettingsInv, CallsAssumption DEF UpsertToolPolicy, data, AssistantInv, AssistantTypeOK
<1>8. ASSUME NEW p \in Providers, NEW enabled \in BOOLEAN, NEW key \in BOOLEAN,
             NEW isDefault \in BOOLEAN, UpsertProvider(p, enabled, key, isDefault)
      PROVE AssistantInv'
  <2>1. provider' \in [Providers -> Provider]
    BY <1>8 DEF UpsertProvider, AssistantInv, AssistantTypeOK, Provider
  <2>2. default' \in Providers \cup {NoProvider} /\ calls' \in 0..MaxCalls
    BY <1>8, CallsAssumption DEF UpsertProvider, AssistantInv, AssistantTypeOK
  <2> QED
    BY <1>8, <2>1, <2>2, SettingsInv DEF UpsertProvider, data, AssistantInv, AssistantTypeOK
<1>9. CASE UNCHANGED assistantVars
  BY <1>9, SettingsInv DEF assistantVars, AssistantInv, AssistantTypeOK
<1> QED
  BY <1>1, <1>2, <1>3, <1>4, <1>5, <1>6, <1>7, <1>8, <1>9 DEF AssistantNext

LEMMA AssistantInitInv == AssistantInit => AssistantInv
<1> SUFFICES ASSUME AssistantInit PROVE AssistantInv
  OBVIOUS
<1>1. AssistantTypeOK
  BY IdleIsHandler, CallsAssumption
     DEF AssistantInit, AssistantTypeOK, Draft, Statuses, Actions, Levels, Provider
<1>2. \A r \in Handlers : handler[r] = IdleHandler
  BY DEF AssistantInit
<1> QED
  BY <1>1, <1>2, IdleIsHandler
     DEF AssistantInit, AssistantInv, ExecutedOnce, OpenIsUnspent, SpentIsExecuted,
         ReviewsDecide, HeldIsOpen, HeldAlone, HasDraft

(* A draft makes one task, however many requests confirm it, and one more
   for each time a review opened it again. *)
THEOREM DraftsExecuteOnce == AssistantSpec => []ExecutedOnce
<1>1. AssistantInv => ExecutedOnce
  BY DEF AssistantInv
<1> QED
  BY <1>1, AssistantInitInv, AssistantNextInv, PTL DEF AssistantSpec

(* A task is made of a draft that is open when it is made. *)
THEOREM TasksAreOfOpenDrafts == AssistantSpec => NothingReviewedExecutes
<1> DEFINE OfOpen == \A d \in Drafts : tasks'[d] # tasks[d] => draft[d].status = "pending_review"
<1>1. AssistantInv /\ [AssistantNext]_assistantVars => [OfOpen]_assistantVars
  <2> SUFFICES ASSUME AssistantInv, AssistantNext PROVE OfOpen
    OBVIOUS
  <2>1. ASSUME NEW r \in Handlers, ExecuteDraft(r) PROVE OfOpen
    BY <2>1, ExecuteDraftInv DEF ExecuteDraft, CreateTask, AssistantInv, AssistantTypeOK
  <2>2. CASE UNCHANGED tasks
    BY <2>2
  <2> QED
    BY <2>1, <2>2
       DEF AssistantNext, HandlerStep, Connect, LockDraft, LoadToolPolicy, ReviewDraft,
           SaveMessage, LoadForExplain, CallModel, RecordAnswer, RecordSuggestion, TimeOut,
           AbortHandler, SendMessage, Explain, Confirm, Review, Start, UpsertToolPolicy,
           UpsertProvider, data
<1> QED
  BY <1>1, AssistantInitInv, AssistantNextInv, PTL DEF AssistantSpec, NothingReviewedExecutes

-----------------------------------------------------------------------------
(* File transfers                                                          *)

(* One request changes, and what it has read was checked before it writes. *)
LEMMA OneRequest ==
    ASSUME TransferInv, NEW r \in Requests, NEW record, request' = [request EXCEPT ![r] = record],
           RequestShape(record), Checked(record), UNCHANGED <<object, download>>
    PROVE  TransferInv'
<1>1. DOMAIN request' = Requests /\ \A q \in Requests : request'[q] \in {record, request[q]}
  BY DEF TransferInv
<1> QED
  BY <1>1 DEF TransferInv, EndToEnd

(* A request with one field changed. *)
LEMMA RequestWith ==
    ASSUME NEW q, RequestShape(q), NEW x
    PROVE  /\ [q EXCEPT !.pc = x] = [pc |-> x, by |-> q.by, i |-> q.i, payload |-> q.payload,
                                     count |-> q.count, read |-> q.read]
           /\ [q EXCEPT !.by = x] = [pc |-> q.pc, by |-> x, i |-> q.i, payload |-> q.payload,
                                     count |-> q.count, read |-> q.read]
           /\ [q EXCEPT !.i = x] = [pc |-> q.pc, by |-> q.by, i |-> x, payload |-> q.payload,
                                    count |-> q.count, read |-> q.read]
           /\ [q EXCEPT !.payload = x] = [pc |-> q.pc, by |-> q.by, i |-> q.i, payload |-> x,
                                          count |-> q.count, read |-> q.read]
           /\ [q EXCEPT !.count = x] = [pc |-> q.pc, by |-> q.by, i |-> q.i,
                                        payload |-> q.payload, count |-> x, read |-> q.read]
           /\ [q EXCEPT !.read = x] = [pc |-> q.pc, by |-> q.by, i |-> q.i,
                                       payload |-> q.payload, count |-> q.count, read |-> x]
BY DEF RequestShape

(* An idle request has the shape of one, and has read nothing. *)
LEMMA IdleIsRequest == RequestShape(Idle) /\ Idle.pc = "idle"
BY DEF Idle, RequestShape

(* The request of loop l, as it is sent. *)
LEMMA ShapeOfSent ==
    ASSUME NEW step, NEW l, NEW i, NEW bytes, step \notin {"truncate", "write", "finish"}
    PROVE  LET first  == [Idle EXCEPT !.pc = step]
               second == [first EXCEPT !.by = l]
               third  == [second EXCEPT !.i = i]
               fourth == [third EXCEPT !.payload = bytes]
           IN  /\ RequestShape(second) /\ Checked(second)
               /\ RequestShape(fourth) /\ Checked(fourth)
<1> DEFINE first  == [Idle EXCEPT !.pc = step]
           second == [first EXCEPT !.by = l]
           third  == [second EXCEPT !.i = i]
           fourth == [third EXCEPT !.payload = bytes]
<1>1. RequestShape(first) /\ first.pc = step
  BY IdleIsRequest, RequestWith DEF RequestShape
<1> HIDE DEF first
<1>2. RequestShape(second) /\ second.pc = step
  BY <1>1, RequestWith DEF RequestShape
<1> HIDE DEF second
<1>3. RequestShape(third) /\ third.pc = step
  BY <1>2, RequestWith DEF RequestShape
<1> HIDE DEF third
<1>4. RequestShape(fourth) /\ fourth.pc = step
  BY <1>3, RequestWith DEF RequestShape
<1> HIDE DEF fourth
<1>5. /\ RequestShape(second) /\ Checked(second)
      /\ RequestShape(fourth) /\ Checked(fourth)
  BY <1>2, <1>4 DEF Checked
<1> QED
  BY <1>5 DEF first, second, third, fourth

(* The client sends a chunk or a completion, or gives up the one it waits for. *)
LEMMA ClientInv ==
    ASSUME TransferInv, NEW l \in Loops
    PROVE  /\ \A r \in Requests : SendChunk(l, r) \/ SendComplete(l, r) => TransferInv'
           /\ AnswerLost(l) => TransferInv'
<1>1. ASSUME NEW r \in Requests, SendChunk(l, r) PROVE TransferInv'
  <2> DEFINE i == Min(loop[l].missing)
             first  == [Idle EXCEPT !.pc = "findForChunk"]
             second == [first EXCEPT !.by = l]
             third  == [second EXCEPT !.i = i]
             req == [third EXCEPT !.payload = file]
  <2>1. request' = [request EXCEPT ![r] = req] /\ UNCHANGED <<object, download>>
    BY <1>1 DEF SendChunk, Send
  <2>2. RequestShape(req) /\ Checked(req)
    <3> HIDE DEF i
    <3> QED
      BY ShapeOfSent, Zenon
  <2> HIDE DEF req
  <2> QED
    BY <2>1, <2>2, OneRequest
<1>2. ASSUME NEW r \in Requests, SendComplete(l, r) PROVE TransferInv'
  <2> DEFINE first == [Idle EXCEPT !.pc = "findForComplete"]
             req == [first EXCEPT !.by = l]
  <2>1. request' = [request EXCEPT ![r] = req] /\ UNCHANGED <<object, download>>
    BY <1>2 DEF SendComplete, Send
  <2>2. RequestShape(req) /\ Checked(req)
    BY ShapeOfSent, Zenon
  <2> HIDE DEF req
  <2> QED
    BY <2>1, <2>2, OneRequest
<1>3. ASSUME AnswerLost(l) PROVE TransferInv'
  <2>1. /\ request' = [r \in Requests |-> IF request[r].by = l
                                          THEN [request[r] EXCEPT !.by = Nobody] ELSE request[r]]
        /\ UNCHANGED <<object, download>>
    BY <1>3 DEF AnswerLost
  <2>2. ASSUME NEW r \in Requests PROVE RequestShape(request'[r]) /\ Checked(request'[r])
    <3>1. RequestShape(request[r]) /\ Checked(request[r])
      BY DEF TransferInv
    <3>2. [request[r] EXCEPT !.by = Nobody] =
            [pc |-> request[r].pc, by |-> Nobody, i |-> request[r].i,
             payload |-> request[r].payload, count |-> request[r].count, read |-> request[r].read]
      BY <3>1, RequestWith
    <3>3. request'[r] \in {request[r], [request[r] EXCEPT !.by = Nobody]}
      BY <2>1
    <3> QED
      BY <3>1, <3>2, <3>3 DEF RequestShape, Checked
  <2> QED
    BY <2>1, <2>2 DEF TransferInv, EndToEnd
<1> QED
  BY <1>1, <1>2, <1>3

(* The server goes on with a request, or answers it. *)
LEMMA Moves ==
    ASSUME TransferInv, NEW r \in Requests, NEW step, Goto(r, step),
           step \in {"truncate", "write", "finish"} => request[r].read = Declared,
           UNCHANGED <<object, download>>
    PROVE  TransferInv'
<1> DEFINE record == [request[r] EXCEPT !.pc = step]
<1>1. request' = [request EXCEPT ![r] = record]
  BY DEF Goto
<1>2. record = [pc |-> step, by |-> request[r].by, i |-> request[r].i,
                payload |-> request[r].payload, count |-> request[r].count,
                read |-> request[r].read]
  BY RequestWith DEF TransferInv
<1> HIDE DEF record
<1>3. RequestShape(record) /\ Checked(record)
  BY <1>2 DEF RequestShape, Checked
<1> QED
  BY <1>1, <1>3, OneRequest

(* An answer ends a request. *)
LEMMA Answers ==
    ASSUME TransferInv, NEW r \in Requests, NEW outcome, Answer(r, outcome),
           UNCHANGED <<object, download>>
    PROVE  TransferInv'
<1>1. request' = [request EXCEPT ![r] = Idle]
  BY DEF Answer
<1> QED
  BY <1>1, IdleIsRequest, OneRequest DEF Checked

(* The server truncates, writes and finishes only after it has read all that was
   declared. *)
LEMMA ServeInv ==
    ASSUME TransferInv, NEW r \in Requests, Serve(r) \/ Abort(r)
    PROVE  TransferInv'
<1>1. CASE FindForChunk(r) \/ FindForComplete(r) \/ CheckChecksum(r)
  BY <1>1, Moves, Answers DEF FindForChunk, FindForComplete, CheckChecksum, ChecksumMatches, client
<1>2. CASE StoreChunk(r)
  BY <1>2, Moves DEF StoreChunk
<1>3. CASE SaveProgress(r) \/ Abort(r)
  BY <1>3, Answers DEF SaveProgress, Abort
<1>4. CASE CountChunks(r)
  <2> DEFINE n == Received(r)
             one == [request[r] EXCEPT !.pc = "save"]
             two == [one EXCEPT !.count = n]
  <2>1. request' = [request EXCEPT ![r] = two] /\ UNCHANGED <<object, download>>
    <3>1. r \in DOMAIN request
      BY DEF TransferInv
    <3>2. request' = [request EXCEPT ![r].pc = "save", ![r].count = n]
      BY <1>4 DEF CountChunks
    <3> HIDE DEF n
    <3> QED
      BY <1>4, <3>1, <3>2 DEF CountChunks
  <2> HIDE DEF n
  <2>2. RequestShape(one) /\ one.pc = "save"
    <3>1. one = [pc |-> "save", by |-> request[r].by, i |-> request[r].i,
                 payload |-> request[r].payload, count |-> request[r].count,
                 read |-> request[r].read]
      BY RequestWith DEF TransferInv
    <3> HIDE DEF one
    <3> QED
      BY <3>1 DEF RequestShape
  <2> HIDE DEF one
  <2>3. RequestShape(two) /\ two.pc = "save"
    BY <2>2, RequestWith DEF RequestShape
  <2> HIDE DEF two
  <2> QED
    BY <2>1, <2>3, OneRequest DEF Checked
<1>5. CASE ReadChunks(r)
  <2> DEFINE one == [request[r] EXCEPT !.pc = "check"]
             two == [one EXCEPT !.read = chunk]
  <2>1. request' = [request EXCEPT ![r] = two] /\ UNCHANGED <<object, download>>
    <3>1. r \in DOMAIN request
      BY DEF TransferInv
    <3> QED
      BY <1>5, <3>1 DEF ReadChunks
  <2>2. RequestShape(one) /\ one.pc = "check"
    <3>1. one = [pc |-> "check", by |-> request[r].by, i |-> request[r].i,
                 payload |-> request[r].payload, count |-> request[r].count,
                 read |-> request[r].read]
      BY RequestWith DEF TransferInv
    <3> HIDE DEF one
    <3> QED
      BY <3>1 DEF RequestShape
  <2> HIDE DEF one
  <2>3. RequestShape(two) /\ two.pc = "check"
    BY <2>2, RequestWith DEF RequestShape
  <2> HIDE DEF two
  <2> QED
    BY <2>1, <2>3, OneRequest DEF Checked
<1>6. CASE TruncateObject(r)
  <2> DEFINE one == [request[r] EXCEPT !.pc = "write"]
             two == [one EXCEPT !.i = 1]
  <2>1. request' = [request EXCEPT ![r] = two] /\ UNCHANGED <<object, download>>
    <3>1. r \in DOMAIN request
      BY DEF TransferInv
    <3> QED
      BY <1>6, <3>1 DEF TruncateObject
  <2>2. RequestShape(one) /\ one.read = request[r].read
    <3>1. one = [pc |-> "write", by |-> request[r].by, i |-> request[r].i,
                 payload |-> request[r].payload, count |-> request[r].count,
                 read |-> request[r].read]
      BY RequestWith DEF TransferInv
    <3> HIDE DEF one
    <3> QED
      BY <3>1 DEF RequestShape
  <2> HIDE DEF one
  <2>3. RequestShape(two) /\ two.read = request[r].read
    BY <2>2, RequestWith DEF RequestShape
  <2>4. request[r].read = Declared
    BY <1>6 DEF TruncateObject, TransferInv, Checked
  <2> HIDE DEF two
  <2> QED
    BY <2>1, <2>3, <2>4, OneRequest DEF Checked
<1>7. CASE WriteObject(r)
  <2> DEFINE n == request[r].i
             next == n + 1
             step == IF n = Chunks THEN "finish" ELSE "write"
             one == [request[r] EXCEPT !.i = next]
             two == [one EXCEPT !.pc = step]
  <2>1. request' = [request EXCEPT ![r] = two] /\ UNCHANGED <<object, download>>
    <3>1. r \in DOMAIN request
      BY DEF TransferInv
    <3>2. request' = [request EXCEPT ![r].i = next, ![r].pc = step]
      BY <1>7 DEF WriteObject
    <3> HIDE DEF next, step, n
    <3> QED
      BY <1>7, <3>1, <3>2 DEF WriteObject
  <2> HIDE DEF next, step
  <2>2. RequestShape(one) /\ one.read = request[r].read
    <3>1. one = [pc |-> request[r].pc, by |-> request[r].by, i |-> next,
                 payload |-> request[r].payload, count |-> request[r].count,
                 read |-> request[r].read]
      BY RequestWith DEF TransferInv
    <3> HIDE DEF one
    <3> QED
      BY <3>1 DEF RequestShape
  <2> HIDE DEF one
  <2>3. RequestShape(two) /\ two.read = request[r].read
    BY <2>2, RequestWith DEF RequestShape
  <2>4. request[r].read = Declared
    BY <1>7 DEF WriteObject, TransferInv, Checked
  <2> HIDE DEF two
  <2> QED
    BY <2>1, <2>3, <2>4, OneRequest DEF Checked
<1>8. CASE FinishUpload(r)
  <2>1. /\ object' = Declared /\ UNCHANGED download
        /\ request' = [request EXCEPT ![r] = Idle]
    BY <1>8 DEF FinishUpload, RecordObject, Answer, TransferInv, Checked
  <2>2. DOMAIN request' = Requests /\ \A q \in Requests : request'[q] \in {Idle, request[q]}
    BY <2>1 DEF TransferInv
  <2>3. \A q \in Requests : RequestShape(request'[q]) /\ Checked(request'[q])
    BY <2>2, IdleIsRequest DEF TransferInv, Checked
  <2> QED
    BY <2>1, <2>2, <2>3 DEF TransferInv, EndToEnd
<1> QED
  BY <1>1, <1>2, <1>3, <1>4, <1>5, <1>6, <1>7, <1>8 DEF Serve

(* What a device keeps is the part file that matched the object. *)
LEMMA OneDownload ==
    ASSUME TransferInv, NEW d \in Downloads, NEW record,
           download' = [download EXCEPT ![d] = record], DownloadShape(record),
           record.final = download[d].final \/ record.final = object,
           UNCHANGED <<object, request>>
    PROVE  TransferInv'
<1>1. DOMAIN download' = Downloads /\ \A e \in Downloads : download'[e] \in {record, download[e]}
  BY DEF TransferInv
<1>2. \A e \in Downloads : DownloadShape(download'[e])
  BY <1>1 DEF TransferInv
<1>3. \A e \in Downloads : download'[e].final # None => download'[e].final = Declared
  <2> SUFFICES ASSUME NEW e \in Downloads, download'[e].final # None
               PROVE  download'[e].final = Declared
    OBVIOUS
  <2>1. CASE e = d
    BY <2>1 DEF TransferInv, EndToEnd
  <2>2. CASE e # d
    BY <2>2 DEF TransferInv, EndToEnd
  <2> QED
    BY <2>1, <2>2
<1> QED
  BY <1>1, <1>2, <1>3 DEF TransferInv, EndToEnd

(* A download that differs in one field has the shape of one. *)
LEMMA DownloadWith ==
    ASSUME NEW q, DownloadShape(q), NEW x
    PROVE  /\ [q EXCEPT !.pc = x] = [pc |-> x, at |-> q.at, part |-> q.part, final |-> q.final]
           /\ [q EXCEPT !.at = x] = [pc |-> q.pc, at |-> x, part |-> q.part, final |-> q.final]
           /\ [q EXCEPT !.part = x] = [pc |-> q.pc, at |-> q.at, part |-> x, final |-> q.final]
BY DEF DownloadShape

(* A download is finished by what the object held when it was read. *)
LEMMA FetchInv ==
    ASSUME TransferInv, NEW d \in Downloads, Fetch(d) \/ DownloadFails(d)
    PROVE  TransferInv'
<1> USE DEF server, client
<1>1. ASSUME NEW step, download' = [download EXCEPT ![d].pc = step], UNCHANGED <<object, request>>
      PROVE  TransferInv'
  <2> DEFINE record == [download[d] EXCEPT !.pc = step]
  <2>1. download' = [download EXCEPT ![d] = record]
    BY <1>1
  <2>2. DownloadShape(record) /\ record.final = download[d].final
    BY DownloadWith DEF TransferInv, DownloadShape
  <2> HIDE DEF record
  <2> QED
    BY <1>1, <2>1, <2>2, OneDownload
<1>2. CASE StartDownload(d) \/ DownloadFails(d)
  BY <1>1, <1>2 DEF StartDownload, DownloadFails
<1>3. CASE GetRange(d)
  <2> DEFINE i == NextRange(d)
             one == [download[d] EXCEPT !.at = i]
             part == [one.part EXCEPT ![i] = disk[i]]
             record == [one EXCEPT !.part = part]
  <2>1. download' = [download EXCEPT ![d] = record] /\ UNCHANGED <<object, request>>
    <3>1. d \in DOMAIN download
      BY DEF TransferInv
    <3>2. download' = [download EXCEPT ![d].at = i, ![d].part[i] = disk[i]]
      BY <1>3 DEF GetRange
    <3> HIDE DEF i
    <3> QED
      BY <1>3, <3>1, <3>2 DEF GetRange
  <2> HIDE DEF i
  <2>2. DownloadShape(one) /\ one.final = download[d].final
    BY DownloadWith DEF TransferInv, DownloadShape
  <2> HIDE DEF one, part
  <2>3. DownloadShape(record) /\ record.final = download[d].final
    BY <2>2, DownloadWith DEF DownloadShape
  <2> HIDE DEF record
  <2> QED
    BY <2>1, <2>3, OneDownload
<1>4. CASE FinishDownload(d)
  <2> DEFINE record == [pc |-> "done", at |-> 0, part |-> Empty, final |-> download[d].part]
  <2>1. CASE /\ Intact(d) /\ download' = [download EXCEPT ![d] = record]
             /\ UNCHANGED <<object, request>>
    <3>1. DownloadShape(record) /\ record.final = object
      BY <2>1 DEF DownloadShape, Intact
    <3> HIDE DEF record
    <3> QED
      BY <2>1, <3>1, OneDownload
  <2> QED
    BY <1>1, <1>4, <2>1 DEF FinishDownload
<1> QED
  BY <1>2, <1>3, <1>4 DEF Fetch

(* Every step of the transfers keeps the checks before the writes. *)
LEMMA NextInv == TransferInv /\ [Next]_vars => TransferInv'
<1> SUFFICES ASSUME TransferInv, [Next]_vars PROVE TransferInv'
  OBVIOUS
<1>1. CASE UNCHANGED <<request, download, object>>
  BY <1>1 DEF TransferInv, EndToEnd
<1>2. ASSUME NEW l \in Loops, CreateSession(l) \/ Resume(l) \/ List(l) PROVE TransferInv'
  BY <1>1, <1>2 DEF CreateSession, Resume, List
<1>3. ASSUME NEW d \in Downloads, AskAgain(d) PROVE TransferInv'
  BY <1>1, <1>3 DEF AskAgain, vars
<1>4. CASE EditFile \/ Done \/ UNCHANGED vars
  BY <1>1, <1>4 DEF EditFile, Done, vars
<1> QED
  BY <1>2, <1>3, <1>4, ClientInv, ServeInv, FetchInv DEF Next, Upload

(* What is recorded as stored, and what a device keeps as downloaded, is the file the
   upload was announced with, for any number of chunks, requests and downloads. *)
THEOREM FilesArriveWhole == TransferSpec => []EndToEnd
<1>1. ASSUME Init PROVE TransferInv
  <2>1. /\ DOMAIN request = Requests /\ DOMAIN download = Downloads /\ object = None
        /\ \A r \in Requests : request[r] = Idle
        /\ \A d \in Downloads : download[d] = [pc |-> "idle", at |-> 0, part |-> Empty,
                                               final |-> None]
    BY <1>1 DEF Init
  <2>2. \A d \in Downloads : DownloadShape(download[d]) /\ download[d].final = None
    BY <2>1 DEF DownloadShape
  <2> QED
    BY <2>1, <2>2, IdleIsRequest DEF TransferInv, Checked, EndToEnd
<1>2. TransferInv => EndToEnd
  BY DEF TransferInv
<1> QED
  BY <1>1, <1>2, NextInv, PTL DEF TransferSpec

-----------------------------------------------------------------------------
(* The shared drive                                                        *)

\* Nothing the invariant reads has changed.
LEMMA DriveStays ==
    ASSUME DriveInv, UNCHANGED <<folder, root, roots, node, stored, cache, newest, stale>>,
           scan' \in [Scans -> Scan], location' \in [Devices -> [Nodes -> Paths]],
           \A s \in Scans : scan'[s].pc # "idle" => scan'[s].root # 0
    PROVE  DriveInv'
BY DEF DriveInv, DriveTypes, NodeFits, ObjectFits, CacheFits, Exists

(* The invariant holds before anything was scanned or stored. *)
LEMMA DriveStarts == DriveInit => DriveInv
BY DriveBounds, NoObjectAssumption DEF DriveInit, DriveInv, DriveTypes, NodeFits, ObjectFits, CacheFits, Exists, Nodes, Node,
   NoNode, Object, Unstored, Cached, Scan, NoScan, Hashes, Paths

(* What users do on the share is seen by a scan only later. *)
LEMMA EditSharedKeeps ==
    ASSUME DriveInv, NEW f \in Shared, EditShared(f)
    PROVE  DriveInv'
BY DEF EditShared, DriveInv, DriveTypes, NodeFits, ObjectFits, CacheFits, Exists, tables,
       device, ghosts

(* A root that is added is one no node belongs to yet. *)
LEMMA UpsertRootKeeps ==
    ASSUME DriveInv, UpsertRoot
    PROVE  DriveInv'
<1>1. roots' = roots + 1 /\ root' = roots + 1 /\ roots < MaxRoots /\ root = 0
      /\ UNCHANGED <<folder, node, stored, location, cache, scan, newest, stale>>
  BY DEF UpsertRoot, device, ghosts
<1>2. roots \in 0..MaxRoots /\ MaxRoots \in Nat
  BY DriveBounds DEF DriveInv, DriveTypes
<1>3. DriveTypes'
  BY <1>1, <1>2 DEF DriveInv, DriveTypes
<1>4. ASSUME NEW f \in Nodes PROVE NodeFits(f)' /\ ObjectFits(f)'
  BY <1>1 DEF DriveInv, NodeFits, ObjectFits, Exists
<1>5. ASSUME NEW d \in Devices, NEW f \in Nodes PROVE CacheFits(d, f)'
  <2>1. cache[d][f].root \in 0..MaxRoots /\ cache[d][f].root <= roots
    BY DEF DriveInv, DriveTypes, CacheFits, Cached
  <2>. QED  BY <1>1, <1>2, <2>1 DEF CacheFits
<1>. QED  BY <1>1, <1>3, <1>4, <1>5 DEF DriveInv

(* A root that is removed takes its nodes, and their copies, with it. *)
LEMMA DeleteDriveRootKeeps ==
    ASSUME DriveInv, DeleteDriveRoot
    PROVE  DriveInv'
<1>1. root # 0 /\ root' = 0 /\ UNCHANGED <<folder, roots, cache, scan>>
      /\ roots \in Nat /\ roots \in 0..MaxRoots
  BY DriveBounds DEF DeleteDriveRoot, device, DriveInv, DriveTypes
<1>2. ASSUME NEW f \in Nodes
      PROVE  node[f] \in Node /\ newest[f] \in Hashes /\ (~Cascaded(f) => node[f].root = 0)
  BY DEF DriveInv, DriveTypes, NodeFits, Exists, Cascaded
<1>3. NoNode \in Node
  BY DriveBounds DEF NoNode, Node, Hashes, Paths
<1>4. node' \in [Nodes -> Node] /\ newest' \in [Nodes -> Hashes]
      /\ location' \in [Devices -> [Nodes -> Paths]]
  BY <1>2, <1>3 DEF DeleteDriveRoot, DriveInv, DriveTypes, Hashes, Paths
<1>5. ASSUME NEW o \in Objects
      PROVE  stored'[o] \in Object /\ stored'[o].node \notin Shared
  BY NoObjectAssumption DEF DeleteDriveRoot, DriveInv, DriveTypes, Object
<1>6. DriveTypes'
  <2>1. stored' = [o \in Objects |-> stored'[o]]
    BY DEF DeleteDriveRoot
  <2>. QED  BY <1>1, <1>4, <1>5, <2>1 DEF DriveInv, DriveTypes
<1>7. ASSUME NEW f \in Nodes PROVE NodeFits(f)' /\ ObjectFits(f)'
  <2>1. node[f].object \in Objects \cup {NoObject}
    BY <1>2 DEF Node
  <2>2. node'[f].root = 0 /\ node'[f].object = NoObject /\ newest'[f] = NoContent
    BY <1>2 DEF DeleteDriveRoot, NoNode, Cascaded, DriveInv, NodeFits, Exists
  <2>. QED  BY <1>1, <2>2 DEF NodeFits, ObjectFits, Exists
<1>8. ASSUME NEW d \in Devices, NEW f \in Nodes PROVE CacheFits(d, f)'
  BY <1>1 DEF DriveInv, CacheFits
<1>. QED  BY <1>5, <1>6, <1>7, <1>8 DEF DriveInv

(* A scan that goes on without writing a node leaves the copies as they are. *)
LEMMA ScansGoOn ==
    ASSUME DriveInv, NEW s \in Scans, ScanDriveRoot(s) \/ CollectLocalNode(s)
    PROVE  DriveInv'
<1>1. UNCHANGED <<folder, root, roots, node, stored, cache, location, newest, stale>>
  BY DEF ScanDriveRoot, CollectLocalNode, device, ghosts
<1>2. /\ scan \in [Scans -> Scan] /\ root \in 0..MaxRoots
      /\ \A t \in Scans : scan[t].pc # "idle" => scan[t].root # 0
  BY DriveBounds DEF DriveInv, DriveTypes
<1>3. scan[s] \in Scan /\ NoScan \in Scan
  BY <1>2, DriveBounds DEF Scan, NoScan
<1>4. PICK x \in Scan : scan' = [scan EXCEPT ![s] = x] /\ (x.pc # "idle" => x.root # 0)
  <2>1. CASE ScanDriveRoot(s)
    <3>. DEFINE there == {f \in Shared : folder[f] # NoContent}
                begun == [pc |-> "read", root |-> root, todo |-> there, seen |-> {}]
    <3>1. begun \in Scan
      BY <1>2 DEF Scan
    <3>. QED  BY <2>1, <3>1 DEF ScanDriveRoot
  <2>2. CASE CollectLocalNode(s)
    <3>1. ASSUME NEW f \in scan[s].todo,
                 scan' = [scan EXCEPT ![s].todo = @ \ {f}, ![s].seen = @ \cup {f}]
          PROVE  \E x \in Scan : scan' = [scan EXCEPT ![s] = x] /\ (x.pc # "idle" => x.root # 0)
      <4>. DEFINE read == [scan[s] EXCEPT !.todo = @ \ {f}, !.seen = @ \cup {f}]
      <4>1. read \in Scan /\ read.pc = scan[s].pc /\ read.root = scan[s].root
        BY <1>3 DEF Scan
      <4>2. scan' = [scan EXCEPT ![s] = read]
        BY <3>1, <1>2
      <4>. QED  BY <4>1, <4>2, <1>2
    <3>2. scan[s].pc = "read"
      BY <2>2 DEF CollectLocalNode
    <3>3. CASE scan' = [scan EXCEPT ![s].pc = "apply"]
      <4>. DEFINE through == [scan[s] EXCEPT !.pc = "apply"]
      <4>1. through \in Scan /\ through.root = scan[s].root
        BY <1>3 DEF Scan
      <4>. QED  BY <4>1, <3>2, <3>3, <1>2
    <3>4. CASE scan' = [scan EXCEPT ![s] = NoScan]
      BY <1>3, <3>4 DEF NoScan
    <3>. QED  BY <2>2, <3>1, <3>3, <3>4 DEF CollectLocalNode
  <2>. QED  BY <2>1, <2>2
<1>. QED  BY <1>1, <1>2, <1>4, DriveStays DEF DriveInv, DriveTypes

(* So does one that ends. *)
LEMMA ScansEnd ==
    ASSUME DriveInv, NEW s \in Scans, ApplyFails(s) \/ Crash
    PROVE  DriveInv'
<1>1. UNCHANGED <<folder, root, roots, node, stored, cache, location, newest, stale>>
  BY DEF ApplyFails, Crash, device, ghosts, tables
<1>2. NoScan \in Scan /\ scan \in [Scans -> Scan]
      /\ \A t \in Scans : scan[t].pc # "idle" => scan[t].root # 0
  BY DriveBounds DEF Scan, NoScan, DriveInv, DriveTypes
<1>3. NoScan.pc = "idle"
  BY DEF NoScan
<1>4. scan' = [scan EXCEPT ![s] = NoScan] \/ scan' = [t \in Scans |-> NoScan]
  BY DEF ApplyFails, Crash
<1>. QED  BY <1>1, <1>2, <1>3, <1>4, DriveStays DEF DriveInv, DriveTypes

\* What a scan applies: hashes are forgotten, nothing else that the invariant reads.
LEMMA ApplyScanKeeps ==
    ASSUME DriveInv, NEW s \in Scans, NEW d \in Devices, ApplyScan(s, d)
    PROVE  DriveInv'
<1>. DEFINE fresh(f) == f \in scan[s].seen
<1>0. UNCHANGED <<folder, root, roots, stored, cache, newest>>
  BY DEF ApplyScan, device
<1>1. /\ NoScan \in Scan /\ scan \in [Scans -> Scan]
      /\ \A t \in Scans : scan[t].pc # "idle" => scan[t].root # 0
  BY DriveBounds DEF Scan, NoScan, DriveInv, DriveTypes
<1>2. NoScan.pc = "idle" /\ scan[s].pc = "apply" /\ scan' = [scan EXCEPT ![s] = NoScan]
  BY DEF NoScan, ApplyScan
<1>3. scan' \in [Scans -> Scan] /\ \A t \in Scans : scan'[t].pc # "idle" => scan'[t].root # 0
  BY <1>1, <1>2
<1>4. CASE ~RootIsThere(scan[s].root)
  BY <1>0, <1>3, <1>4, DriveStays DEF ApplyScan, DriveInv, DriveTypes
<1>5. CASE RootIsThere(scan[s].root)
  <2>1. scan[s].root = root /\ root # 0 /\ root \in 0..MaxRoots /\ scan[s].seen \subseteq Shared
    BY <1>1, <1>2, <1>5, DriveBounds DEF RootIsThere, DriveInv, DriveTypes, Scan
  <2>2. /\ node' = [f \in Nodes |->
                      IF fresh(f) THEN [node[f] EXCEPT !.root = root,
                                          !.path = "server", !.hash = NoContent]
                      ELSE node[f]]
        /\ stale' = stale \ scan[s].seen
        /\ location' = [location EXCEPT ![d] =
                          [f \in Nodes |-> IF fresh(f) THEN "server" ELSE @[f]]]
    BY <1>5, <2>1 DEF ApplyScan
  <2>3. ASSUME NEW f \in Nodes, fresh(f)
        PROVE  /\ node'[f] \in Node
               /\ node'[f].root = root /\ node'[f].hash = NoContent
               /\ node'[f].object = node[f].object
    BY <2>1, <2>2, <2>3 DEF DriveInv, DriveTypes, Node, Hashes, Paths
  <2>4. ASSUME NEW f \in Nodes, ~fresh(f)
        PROVE  node'[f] = node[f] /\ node[f] \in Node
    BY <2>2, <2>4 DEF DriveInv, DriveTypes
  <2>5. DriveTypes'
    <3>1. location' \in [Devices -> [Nodes -> Paths]]
      BY <2>2 DEF DriveInv, DriveTypes, Paths
    <3>2. node' \in [Nodes -> Node]
      <4>1. ASSUME NEW f \in Nodes PROVE node'[f] \in Node
        BY <2>3, <2>4
      <4>2. node' = [f \in Nodes |-> node'[f]]
        BY <2>2
      <4>. QED  BY <4>1, <4>2
    <3>. QED  BY <1>0, <1>3, <3>1, <3>2 DEF DriveInv, DriveTypes
  <2>6. ASSUME NEW f \in Nodes PROVE NodeFits(f)' /\ ObjectFits(f)'
    <3>1. NodeFits(f) /\ ObjectFits(f)
      BY DEF DriveInv
    <3>2. CASE fresh(f)
      <4>1. f \notin Uploaded
        BY <2>1, <3>2, DisjointAssumption
      <4>. QED  BY <1>0, <2>1, <2>3, <3>1, <3>2, <4>1 DEF NodeFits, ObjectFits, Exists
    <3>3. CASE ~fresh(f)
      BY <1>0, <2>2, <2>4, <3>1, <3>3 DEF NodeFits, ObjectFits, Exists
    <3>. QED  BY <3>2, <3>3
  <2>. QED  BY <1>0, <2>5, <2>6 DEF DriveInv, CacheFits
<1>. QED  BY <1>4, <1>5

(* Downloading, editing and opening a copy write at most a location, of which only the
   type counts. *)
LEMMA CopiesOnly ==
    ASSUME DriveInv, NEW d \in Devices, NEW f \in Nodes,
           EditCopy(d, f) \/ OpenLocal(d, f) \/ DownloadNode(d, f)
    PROVE  DriveInv'
<1>1. UNCHANGED <<folder, root, roots, node, stored, cache, scan, newest, stale>>
  BY DEF EditCopy, OpenLocal, DownloadNode, device, ghosts, tables
<1>2. location' \in [Devices -> [Nodes -> Paths]]
  BY DEF EditCopy, OpenLocal, DownloadNode, tables, DriveInv, DriveTypes, Paths
<1>. QED  BY <1>1, <1>2, DriveStays DEF DriveInv, DriveTypes

(* Relinking writes the path of the node and the location of its copy. *)
LEMMA RelinkKeeps ==
    ASSUME DriveInv, NEW d \in Devices, NEW f \in Nodes, RelinkDriveNode(d, f)
    PROVE  DriveInv'
<1>1. UNCHANGED <<folder, root, roots, stored, cache, scan, newest, stale>>
      /\ node' = [node EXCEPT ![f].path = "own"]
      /\ location' = [location EXCEPT ![d][f] = "own"]
  BY DEF RelinkDriveNode, device, ghosts
<1>2. DriveTypes'
  BY <1>1 DEF DriveInv, DriveTypes, Paths, Node
<1>3. ASSUME NEW g \in Nodes
      PROVE  /\ node'[g].root = node[g].root /\ node'[g].hash = node[g].hash
             /\ node'[g].object = node[g].object
  BY <1>1 DEF DriveInv, DriveTypes, Node
<1>. QED  BY <1>1, <1>2, <1>3 DEF DriveInv, NodeFits, ObjectFits, CacheFits, Exists

(* A device that refreshes is told the current object of every node. *)
LEMMA RefreshKeeps ==
    ASSUME DriveInv, NEW d \in Devices, RefreshDriveNodes(d)
    PROVE  DriveInv'
<1>1. UNCHANGED <<folder, root, roots, node, stored, location, scan, newest, stale>>
  BY DEF RefreshDriveNodes, tables, ghosts
<1>. DEFINE seen == [f \in Nodes |->
                   IF Exists(f)
                   THEN [root |-> node[f].root, hash |-> node[f].hash,
                         path |-> IF location[d][f] = "none" THEN cache[d][f].path
                                  ELSE location[d][f]]
                   ELSE cache[d][f]]
<1>2. cache' = [cache EXCEPT ![d] = seen]
  BY DEF RefreshDriveNodes
<1>3. ASSUME NEW f \in Nodes
      PROVE  /\ seen[f] \in Cached
             /\ seen[f].root <= roots
             /\ seen[f].root = root /\ root # 0 /\ f \in Uploaded => seen[f].hash # NoContent
  <2>1. /\ node[f] \in Node /\ cache[d][f] \in Cached /\ location[d][f] \in Paths
        /\ NodeFits(f) /\ CacheFits(d, f) /\ root \in 0..roots /\ roots \in 0..MaxRoots
    BY DEF DriveInv, DriveTypes
  <2>2. CASE Exists(f)
    <3>. DEFINE path == IF location[d][f] = "none" THEN cache[d][f].path ELSE location[d][f]
    <3>1. path \in Paths
      BY <2>1 DEF Cached
    <3>2. seen[f] = [root |-> node[f].root, hash |-> node[f].hash, path |-> path]
      BY <2>2
    <3>. HIDE DEF path, seen
    <3>. QED  BY <2>1, <2>2, <3>1, <3>2, DriveBounds DEF Cached, Node, NodeFits
  <2>3. CASE ~Exists(f)
    BY <2>1, <2>3 DEF CacheFits
  <2>. QED  BY <2>2, <2>3
<1>4. seen = [f \in Nodes |-> seen[f]]
  OBVIOUS
<1>. HIDE DEF seen
<1>5. seen \in [Nodes -> Cached]
  BY <1>3, <1>4
<1>6. DriveTypes'
  BY <1>1, <1>2, <1>5 DEF DriveInv, DriveTypes
<1>7. ASSUME NEW e \in Devices, NEW f \in Nodes PROVE CacheFits(e, f)'
  <2>1. cache'[e] = IF e = d THEN seen ELSE cache[e]
    BY <1>2 DEF DriveInv, DriveTypes
  <2>. QED  BY <1>1, <1>3, <2>1 DEF CacheFits, DriveInv
<1>. QED  BY <1>1, <1>6, <1>7 DEF DriveInv, NodeFits, ObjectFits, Exists

\* A pushed node has the hash the device saw, and is stale unless that is the newest.
LEMMA PushKeeps ==
    ASSUME DriveInv, NEW d \in Devices, PushLocalSnapshot(d)
    PROVE  DriveInv'
<1>. DEFINE pushed == {f \in Nodes : cache[d][f].root # 0}
<1>1. UNCHANGED <<folder, root, roots, stored, cache, scan, newest>>
  BY DEF PushLocalSnapshot, device
<1>2. /\ \A f \in pushed : cache[d][f].root = root
      /\ node' = [f \in Nodes |->
                    IF f \in pushed THEN [node[f] EXCEPT !.root = cache[d][f].root,
                                            !.path = cache[d][f].path,
                                            !.hash = cache[d][f].hash]
                    ELSE node[f]]
      /\ location' = [location EXCEPT ![d] = [f \in Nodes |->
                        IF f \in pushed /\ cache[d][f].path # "none" THEN cache[d][f].path
                        ELSE @[f]]]
      /\ stale' = stale \cup {f \in pushed : cache[d][f].hash \notin {NoContent, newest[f]}}
  BY DEF PushLocalSnapshot, RootIsThere
<1>3. ASSUME NEW f \in Nodes
      PROVE  /\ cache[d][f] \in Cached /\ node[f] \in Node /\ location[d][f] \in Paths
             /\ NodeFits(f) /\ ObjectFits(f) /\ CacheFits(d, f)
  BY DEF DriveInv, DriveTypes
<1>4. ASSUME NEW f \in Nodes, f \in pushed
      PROVE  /\ node'[f] \in Node
             /\ node'[f].root = root /\ root # 0 /\ node'[f].hash = cache[d][f].hash
             /\ node'[f].object = node[f].object
  <2>1. node'[f] = [node[f] EXCEPT !.root = cache[d][f].root, !.path = cache[d][f].path,
                                   !.hash = cache[d][f].hash]
    BY <1>2, <1>4
  <2>2. cache[d][f].root = root /\ root # 0
    BY <1>2, <1>4
  <2>. QED  BY <1>3, <2>1, <2>2 DEF Node, Cached
<1>5. ASSUME NEW f \in Nodes, f \notin pushed PROVE node'[f] = node[f]
  BY <1>2, <1>5
<1>6. DriveTypes'
  <2>1. ASSUME NEW f \in Nodes PROVE node'[f] \in Node
    BY <1>3, <1>4, <1>5
  <2>2. node' = [f \in Nodes |-> node'[f]]
    BY <1>2
  <2>3. node' \in [Nodes -> Node]
    BY <2>1, <2>2
  <2>4. location' \in [Devices -> [Nodes -> Paths]]
    <3>. DEFINE told == [f \in Nodes |->
                           IF f \in pushed /\ cache[d][f].path # "none" THEN cache[d][f].path
                           ELSE location[d][f]]
    <3>1. told \in [Nodes -> Paths]
      BY <1>3 DEF Cached
    <3>2. location' = [location EXCEPT ![d] = told]
      BY <1>2
    <3>. HIDE DEF told
    <3>. QED  BY <3>1, <3>2 DEF DriveInv, DriveTypes
  <2>. QED  BY <1>1, <2>3, <2>4 DEF DriveInv, DriveTypes
<1>7. ASSUME NEW f \in Nodes PROVE NodeFits(f)' /\ ObjectFits(f)'
  <2>1. CASE f \in pushed
    <3>1. f \notin stale' /\ cache[d][f].hash # NoContent => cache[d][f].hash = newest[f]
      BY <1>2, <2>1
    <3>2. f \in Uploaded => cache[d][f].hash # NoContent
      BY <1>2, <1>3, <1>4, <2>1 DEF CacheFits
    <3>. QED  BY <1>1, <1>3, <1>4, <2>1, <3>1, <3>2 DEF NodeFits, ObjectFits, Exists
  <2>2. CASE f \notin pushed
    BY <1>1, <1>2, <1>3, <1>5, <2>2 DEF NodeFits, ObjectFits, Exists
  <2>. QED  BY <2>1, <2>2
<1>. QED  BY <1>1, <1>6, <1>7 DEF DriveInv, CacheFits

\* A new object is one no node has.
LEMMA NewObjects ==
    ASSUME DriveInv, Free # {}
    PROVE  /\ NewObject \in Objects
           /\ \A f \in Nodes : node[f].object # NewObject
<1>1. NewObject \in Objects /\ stored[NewObject].content = NoContent
  BY DEF NewObject, Free
<1>2. NewObject # NoObject
  BY <1>1, NoObjectAssumption
<1>. QED  BY <1>1, <1>2 DEF DriveInv, ObjectFits

\* What the server stores for a node, by upload or registration: a new object, named by the
\* node, with the content that is the newest from now on.
LEMMA StoringKeeps ==
    ASSUME DriveInv, NEW f \in Nodes, NEW c \in Bytes, NEW o \in Objects, NEW owner, NEW hash,
           \A g \in Nodes : node[g].object # o,
           owner \in Uploaded \cup {NoObject}, hash \in Bytes,
           root # 0,
           stored' = [stored EXCEPT ![o] = [content |-> c, node |-> owner]],
           node'[f] \in Node,
           node'[f].root = root /\ node'[f].object = o /\ node'[f].hash = hash,
           \A g \in Nodes \ {f} : node'[g] = node[g],
           node' = [g \in Nodes |-> node'[g]],
           newest' = [newest EXCEPT ![f] = c],
           location' \in [Devices -> [Nodes -> Paths]],
           hash = c \/ f \in stale',
           stale \ {f} \subseteq stale',
           UNCHANGED <<folder, root, roots, cache, scan>>
    PROVE  DriveInv'
<1>1. DriveTypes'
  <2>1. node' \in [Nodes -> Node]
    BY DEF DriveInv, DriveTypes
  <2>2. owner \in Nodes \cup {NoObject} /\ c \in Hashes
    BY DEF Nodes, Hashes
  <2>3. stored' \in [Objects -> Object] /\ newest' \in [Nodes -> Hashes]
    BY <2>2 DEF DriveInv, DriveTypes, Object
  <2>. QED  BY <2>1, <2>3 DEF DriveInv, DriveTypes
<1>2. ASSUME NEW g \in Nodes PROVE NodeFits(g)' /\ ObjectFits(g)'
  <2>0. stored'[o].content = c /\ newest'[f] = c /\ c # NoContent /\ hash # NoContent
    BY NoContentAssumption DEF DriveInv, DriveTypes
  <2>1. CASE g = f
    BY <2>0, <2>1 DEF NodeFits, ObjectFits, Exists
  <2>2. CASE g # f
    <3>1. node'[g] = node[g] /\ newest'[g] = newest[g] /\ (g \notin stale' => g \notin stale)
      BY <2>2 DEF DriveInv, DriveTypes
    <3>2. node[g].object # NoObject => stored'[node[g].object] = stored[node[g].object]
      <4>1. node[g].object \in Objects \cup {NoObject}
        BY DEF DriveInv, DriveTypes, Node
      <4>. QED  BY <4>1 DEF DriveInv, DriveTypes
    <3>3. NodeFits(g) /\ ObjectFits(g)
      BY DEF DriveInv
    <3>. QED  BY <3>1, <3>2, <3>3 DEF NodeFits, ObjectFits, Exists
  <2>. QED  BY <2>1, <2>2
<1>3. ASSUME NEW p \in Objects PROVE stored'[p].node \notin Shared
  BY NoObjectAssumption, DisjointAssumption DEF DriveInv, DriveTypes
<1>. QED  BY <1>1, <1>2, <1>3 DEF DriveInv, CacheFits

(* An upload that completes stores an object that was never stored, as the newest. *)
LEMMA CompleteUploadKeeps ==
    ASSUME DriveInv, NEW f \in Uploaded, NEW c \in Bytes, CompleteUpload(f, c)
    PROVE  DriveInv'
<1>. DEFINE o == NewObject
<1>1. /\ root # 0 /\ Free # {}
      /\ stored' = [stored EXCEPT ![o] = [content |-> c, node |-> f]]
      /\ node' = [node EXCEPT ![f] = [@ EXCEPT !.root = root, !.hash = c, !.object = o]]
      /\ newest' = [newest EXCEPT ![f] = c]
      /\ stale' = stale \ {f}
      /\ UNCHANGED <<folder, root, roots, location, cache, scan>>
  BY DEF CompleteUpload, UploadedHash, device
<1>2. o \in Objects /\ \A g \in Nodes : node[g].object # o
  BY <1>1, NewObjects
<1>. HIDE DEF o
<1>3. f \in Nodes /\ root \in 0..MaxRoots /\ node \in [Nodes -> Node]
      /\ location \in [Devices -> [Nodes -> Paths]]
  BY DriveBounds DEF Nodes, DriveInv, DriveTypes
<1>4. /\ node'[f] \in Node
      /\ node'[f].root = root /\ node'[f].object = o /\ node'[f].hash = c
  BY <1>1, <1>2, <1>3 DEF Node, Hashes
<1>5. /\ \A g \in Nodes \ {f} : node'[g] = node[g]
      /\ node' = [g \in Nodes |-> node'[g]]
  BY <1>1, <1>3
<1>. QED  BY <1>1, <1>2, <1>3, <1>4, <1>5, StoringKeeps

(* So does registering a file that was uploaded in parts. *)
LEMMA RegisterKeeps ==
    ASSUME DriveInv, NEW d \in Devices, NEW f \in Shared, RegisterStorageObject(d, f)
    PROVE  DriveInv'
<1>. DEFINE o == NewObject
            c == folder[f]
            hash == IF node[f].hash = NoContent THEN c ELSE node[f].hash
<1>1. /\ Exists(f) /\ c # NoContent /\ Free # {}
      /\ stored' = [stored EXCEPT ![o] = [content |-> c, node |-> NoObject]]
      /\ node' = [node EXCEPT ![f].object = o, ![f].hash = IF @ = NoContent THEN c ELSE @]
      /\ location' = [location EXCEPT ![d][f] = "server"]
      /\ newest' = [newest EXCEPT ![f] = c]
      /\ stale' = IF node[f].hash \in {NoContent, c} THEN stale ELSE stale \cup {f}
      /\ UNCHANGED <<folder, root, roots, cache, scan>>
  BY DEF RegisterStorageObject, device
<1>2. o \in Objects /\ \A g \in Nodes : node[g].object # o
  BY <1>1, NewObjects
<1>3. f \in Nodes /\ node \in [Nodes -> Node] /\ NodeFits(f) /\ c \in Hashes /\ node[f] \in Node
  BY DEF Nodes, DriveInv, DriveTypes
<1>4. root # 0 /\ node[f].root = root /\ c \in Bytes /\ hash \in Bytes
  BY <1>1, <1>3 DEF NodeFits, Exists, Hashes, Node
<1>5. location' \in [Devices -> [Nodes -> Paths]]
  BY <1>1, <1>3 DEF DriveInv, DriveTypes, Paths
<1>6. hash = c \/ f \in stale'
  BY <1>1
<1>7. stale \ {f} \subseteq stale'
  BY <1>1
<1>. HIDE DEF o, c
<1>8. /\ node'[f] \in Node
      /\ node'[f].root = root /\ node'[f].object = o /\ node'[f].hash = hash
  BY <1>1, <1>2, <1>3, <1>4 DEF Node, Hashes
<1>9. /\ \A g \in Nodes \ {f} : node'[g] = node[g]
      /\ node' = [g \in Nodes |-> node'[g]]
  BY <1>1, <1>3
<1>10. NoObject \in Uploaded \cup {NoObject}
  OBVIOUS
<1>. HIDE DEF hash
<1>. QED  BY <1>1, <1>2, <1>3, <1>4, <1>5, <1>6, <1>7, <1>8, <1>9, <1>10, StoringKeeps

(* Every step of the drive keeps the caches apart from objects that were replaced. *)
LEMMA DriveGoesOn ==
    ASSUME DriveInv, [DriveNext]_driveVars
    PROVE  DriveInv'
<1>1. CASE UNCHANGED driveVars
  BY <1>1, DriveStays DEF driveVars, DriveInv, DriveTypes
<1>2. CASE UpsertRoot \/ DeleteDriveRoot
  BY <1>2, UpsertRootKeeps, DeleteDriveRootKeeps
<1>3. CASE Crash
  <2>1. PICK s \in Scans : TRUE
    BY <1>3 DEF Crash
  <2>. QED  BY <1>3, <2>1, ScansEnd
<1>4. ASSUME NEW s \in Scans, ScanDriveRoot(s) \/ ScanStep(s) \/ ApplyFails(s)
      PROVE  DriveInv'
  BY <1>4, ScansGoOn, ScansEnd, ApplyScanKeeps DEF ScanStep
<1>5. ASSUME NEW f \in Shared, EditShared(f) \/ \E d \in Devices : RegisterStorageObject(d, f)
      PROVE  DriveInv'
  BY <1>5, EditSharedKeeps, RegisterKeeps
<1>6. ASSUME NEW f \in Uploaded, NEW c \in Bytes, CompleteUpload(f, c)
      PROVE  DriveInv'
  BY <1>6, CompleteUploadKeeps
<1>7. ASSUME NEW d \in Devices, RefreshDriveNodes(d) \/ PushLocalSnapshot(d)
      PROVE  DriveInv'
  BY <1>7, RefreshKeeps, PushKeeps
<1>8. ASSUME NEW d \in Devices, NEW f \in Nodes,
             EditCopy(d, f) \/ RelinkDriveNode(d, f) \/ OpenLocal(d, f) \/ DownloadNode(d, f)
      PROVE  DriveInv'
  BY <1>8, CopiesOnly, RelinkKeeps
<1>. QED  BY <1>1, <1>2, <1>3, <1>4, <1>5, <1>6, <1>7, <1>8 DEF DriveNext

\* A node that is not stale is told by the newest hash; one without a hash is of the shared
\* folder, and the only object it joins is its own.
LEMMA NewestIsTold ==
    ASSUME DriveInv
    PROVE  OpensNewest
<1>. SUFFICES ASSUME NEW d \in Devices, NEW f \in Nodes \ stale, MayOpenLocal(d, f)
              PROVE  copy[d][f] = newest[f]
  BY DEF OpensNewest
<1>1. Exists(f) /\ NodeFits(f) /\ ObjectFits(f) /\ copy[d][f] \in NodeHashes(f)
  BY DEF MayOpenLocal, DriveInv
<1>2. CASE node[f].hash # NoContent
  BY <1>1, <1>2 DEF NodeHashes, NodeFits
<1>3. CASE node[f].hash = NoContent
  <2>1. f \in Shared
    BY <1>1, <1>3 DEF NodeFits, Nodes
  <2>2. PICK o \in Candidates(f) : copy[d][f] = stored[o].content
    BY <1>1, <1>3 DEF NodeHashes
  <2>3. o \in Objects /\ o = node[f].object
    BY <1>3, <2>1, <2>2 DEF Candidates, DriveInv
  <2>. QED  BY <1>1, <2>1, <2>2, <2>3, NoObjectAssumption DEF ObjectFits
<1>. QED  BY <1>2, <1>3

\* A device is never told to open a copy in place of what the server stored last, whatever is
\* scanned, uploaded, pushed or removed between its last look and its question.
THEOREM NewestIsOpened == DriveSpec => []OpensNewest
<1>1. DriveInit => DriveInv
  BY DriveStarts
<1>2. DriveInv /\ [DriveNext]_driveVars => DriveInv'
  BY DriveGoesOn
<1>3. DriveInv => OpensNewest
  BY NewestIsTold
<1>. QED  BY <1>1, <1>2, <1>3, PTL DEF DriveSpec
=============================================================================
