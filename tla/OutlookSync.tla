----------------------------- MODULE OutlookSync -----------------------------
(***************************************************************************)
(* OutlookService: the server pulls a user's Outlook calendar into         *)
(* sync_objects along a delta link, one run at a time, while the account   *)
(* is authorized anew, the mirror is reset, and devices pull what changed. *)
(*                                                                         *)
(* Each await of a run is a step.  Microsoft Graph is a clock of remote    *)
(* changes: the link of a finished round names the moment its first page   *)
(* was answered, and a page shows an event as it is when it is fetched.    *)
(* One user with one calendar; mappings and diagnostics are left out.      *)
(***************************************************************************)
EXTENDS Integers, FiniteSets

CONSTANTS
    Events,      \* remote events of the calendar
    Clients,     \* client ids a connection is authorized with
    NoClient,
    Sessions,    \* authorization sessions
    MaxClock,    \* bound: remote changes
    MaxFaults    \* bound: resets, failures, crashes, expired links, further authorizations

ASSUME BoundsAssumption == MaxClock \in Nat /\ MaxFaults \in Nat
ASSUME NoClientAssumption == NoClient \notin Clients
ASSUME EventsAssumption == Events # {}

VARIABLES
    clock,       \* remote changes so far
    remote,      \* [Events -> when it changed last, whether it is there]
    mirror,      \* sync_objects of the events: the same, and whether there is a row
    unread,      \* events with a change in sync_changes the device has not pulled
    shown,       \* events the device shows
    link,        \* delta_link of outlook_calendar_states: a moment, or -1
    expired,     \* Graph refuses the saved link
    active,      \* activeRuns holds the user
    run,         \* the run that is under way
    connection,  \* outlook_connections: client, status, whose tokens
    session,     \* [Sessions -> outlook_auth_sessions: client, state]
    faults,
    missed,      \* auxiliary: events a reset in a run, or a round without link, overlooks
    purged,      \* auxiliary: a reset removed a deletion the device had not pulled
    crossed      \* auxiliary: an authorization was started during a run

graph  == <<clock, remote>>
tables == <<mirror, unread, shown>>
auth   == <<connection, session, crossed>>
vars   == <<clock, remote, mirror, unread, shown, link, expired, active, run, connection,
            session, faults, missed, purged, crossed>>

Moment     == 0..MaxClock
NoLink     == -1
Event      == [at: Moment, there: BOOLEAN]
Row        == [at: Moment, there: BOOLEAN, exists: BOOLEAN]
NoRow      == [at |-> 0, there |-> FALSE, exists |-> FALSE]
Run        == [pc: {"idle", "insert", "load", "token", "link", "page", "apply", "save",
                    "finish", "fail"},
               tokens: Clients \cup {NoClient}, from: Moment \cup {NoLink}, upto: Moment,
               pending: SUBSET Events, event: Events, got: Event]
NoRun      == [pc |-> "idle", tokens |-> NoClient, from |-> NoLink, upto |-> 0,
               pending |-> {}, event |-> CHOOSE e \in Events : TRUE,
               got |-> [at |-> 0, there |-> FALSE]]
Connection == [client: Clients \cup {NoClient}, tokens: Clients \cup {NoClient},
               status: {"disconnected", "authorization_pending", "connected"}]
Session    == [client: Clients \cup {NoClient}, state: {"none", "open", "exchanged", "used"}]

Init ==
    /\ clock = 0
    /\ remote \in [Events -> {[at |-> 0, there |-> TRUE], [at |-> 0, there |-> FALSE]}]
    /\ mirror = [e \in Events |-> NoRow]
    /\ unread = {} /\ shown = {}
    /\ link = NoLink /\ expired = FALSE
    /\ active = FALSE /\ run = NoRun
    /\ connection = [client |-> NoClient, tokens |-> NoClient, status |-> "disconnected"]
    /\ session = [s \in Sessions |-> [client |-> NoClient, state |-> "none"]]
    /\ faults = 0 /\ missed = {} /\ purged = FALSE /\ crossed = FALSE

-----------------------------------------------------------------------------
(* Graph and the device.                                                   *)

ChangeRemote(e) ==
    /\ clock < MaxClock
    /\ clock' = clock + 1
    /\ \E there \in BOOLEAN :
         /\ remote[e].at > 0 => remote[e].there
         /\ remote[e].there \/ there
         /\ remote' = [remote EXCEPT ![e] = [at |-> clock + 1, there |-> there]]
    /\ UNCHANGED <<tables, link, expired, active, run, auth, faults, missed, purged>>

ExpireLink ==
    /\ link # NoLink /\ ~expired /\ faults < MaxFaults
    /\ expired' = TRUE
    /\ faults' = faults + 1
    /\ UNCHANGED <<graph, tables, link, active, run, auth, missed, purged>>

\* pull, to the end of the log.
DevicePulls ==
    /\ unread # {}
    /\ unread' = {}
    /\ shown' = (shown \ unread) \cup {e \in unread : mirror[e].there}
    /\ UNCHANGED <<graph, mirror, link, expired, active, run, auth, faults, missed, purged>>

-----------------------------------------------------------------------------
(* A run: syncUser and syncCalendar.                                       *)

Goto(step) == run' = [run EXCEPT !.pc = step]
RunOnly == UNCHANGED <<graph, tables, link, expired, auth, faults, missed, purged>>

\* activeRuns.add.  While it holds the user, syncUser answers already_running.
MayStart == ~active

StartRun ==
    /\ MayStart
    /\ active' = TRUE
    /\ run' = [NoRun EXCEPT !.pc = "insert"]
    /\ RunOnly

\* The INSERT of the run comes before the try block whose finally forgets the user.
InsertRun ==
    /\ run.pc = "insert"
    /\ Goto("load")
    /\ UNCHANGED <<active, graph, tables, link, expired, auth, faults, missed, purged>>

InsertFails ==
    /\ run.pc = "insert" /\ faults < MaxFaults
    /\ run' = NoRun
    /\ faults' = faults + 1
    /\ UNCHANGED <<active, graph, tables, link, expired, auth, missed, purged>>

LoadConnection ==
    /\ run.pc = "load"
    /\ run' = IF connection.status = "connected"
              THEN [run EXCEPT !.pc = "token", !.tokens = connection.tokens]
              ELSE [run EXCEPT !.pc = "fail"]
    /\ UNCHANGED active /\ RunOnly

\* The access token is still good, or is refreshed with what was loaded and stored.
EnsureAccessToken ==
    /\ run.pc = "token"
    /\ Goto("link")
    /\ connection' \in {connection, [connection EXCEPT !.tokens = run.tokens]}
    /\ UNCHANGED <<active, graph, tables, link, expired, session, crossed, faults,
                   missed, purged>>

\* A round without a link lists what there is, and never what was removed.
GoneUnseen == {e \in Events : mirror[e].there /\ ~remote[e].there}

ReadLink ==
    /\ run.pc = "link"
    /\ run' = [run EXCEPT !.pc = "page", !.from = link, !.upto = clock,
                 !.pending = IF link = NoLink THEN {e \in Events : remote[e].there}
                             ELSE {e \in Events : remote[e].at > link}]
    /\ missed' = IF link = NoLink THEN missed \cup GoneUnseen ELSE missed
    /\ UNCHANGED <<active, graph, tables, link, expired, auth, faults, purged>>

\* Graph refuses the link it no longer knows (410).
Refused == expired /\ run.from # NoLink

FetchPage ==
    /\ run.pc = "page"
    /\ \/ Refused /\ Goto("fail")
       \/ ~Refused /\ run.pending = {} /\ Goto("save")
       \/ /\ ~Refused
          /\ \E e \in run.pending :
               run' = [run EXCEPT !.pc = "apply", !.pending = @ \ {e}, !.event = e,
                                  !.got = remote[e]]
    /\ UNCHANGED active /\ RunOnly

RecordChange(e) == unread' = unread \cup {e}

UpsertIsNewsMutant(row) == row.at # run.got.at
\* payload IS DISTINCT FROM .. OR deleted_at IS NOT NULL; or there is no row.
UpsertIsNews(row) == row.at # run.got.at \/ ~row.there

\* upsertSyncObject or deleteSyncObject: one transaction.
ApplyEvent ==
    LET e == run.event
        news == IF run.got.there THEN UpsertIsNews(mirror[e]) ELSE mirror[e].there IN
    /\ run.pc = "apply"
    /\ IF news
       THEN /\ mirror' = [mirror EXCEPT ![e] = [at |-> run.got.at, there |-> run.got.there,
                                                exists |-> TRUE]]
            /\ RecordChange(e)
       ELSE UNCHANGED <<mirror, unread>>
    /\ missed' = missed \ {e}
    /\ Goto("page")
    /\ UNCHANGED <<active, graph, shown, link, expired, auth, faults, purged>>

NewLinkMutant == clock
NewLink == run.upto

SaveLink ==
    /\ run.pc = "save"
    /\ link' = NewLink /\ expired' = FALSE
    /\ Goto("finish")
    /\ UNCHANGED <<active, graph, tables, auth, faults, missed, purged>>

\* replayCurrentOutlookObjects finds nothing: every row has the change of its version.
\* Then status = 'connected', whatever it is by now, and finally.
FinishRun ==
    /\ run.pc = "finish"
    /\ connection' = [connection EXCEPT !.status = "connected"]
    /\ run' = NoRun /\ active' = FALSE
    /\ UNCHANGED <<graph, tables, link, expired, session, crossed, faults, missed, purged>>

FailRun ==
    /\ run.pc = "fail"
    /\ run' = NoRun /\ active' = FALSE
    /\ RunOnly

\* An await of the run throws: Graph, the token endpoint or the database.
RunBreaks ==
    /\ run.pc \notin {"idle", "insert", "fail"} /\ faults < MaxFaults
    /\ Goto("fail")
    /\ faults' = faults + 1
    /\ UNCHANGED <<active, graph, tables, link, expired, auth, missed, purged>>

Crash ==
    /\ active /\ faults < MaxFaults
    /\ run' = NoRun /\ active' = FALSE
    /\ faults' = faults + 1
    /\ UNCHANGED <<graph, tables, link, expired, auth, missed, purged>>

-----------------------------------------------------------------------------
(* reset: one transaction.                                                 *)

Tombstones == {e \in Events : mirror[e].exists /\ ~mirror[e].there}
ResetDeletesMutant == {}
\* Those whose deletion is recorded.
ResetDeletes == {e \in Events : mirror[e].there}

Reset ==
    /\ faults < MaxFaults
    /\ faults' = faults + 1
    /\ mirror' = [e \in Events |->
                    IF e \in Tombstones THEN NoRow ELSE [mirror[e] EXCEPT !.there = FALSE]]
    /\ unread' = (unread \ Tombstones) \cup ResetDeletes
    /\ purged' = (purged \/ unread \cap Tombstones \cap shown # {})
    /\ link' = NoLink /\ expired' = FALSE
    /\ missed' = IF run.pc = "idle" THEN missed ELSE Events
    /\ UNCHANGED <<graph, shown, active, run, auth>>

-----------------------------------------------------------------------------
(* startAuth and completeAuth.                                             *)

NewSession == CHOOSE s \in Sessions : session[s].state = "none"

StartAuth(c) ==
    LET s == NewSession IN
    /\ \E t \in Sessions : session[t].state = "none"
    /\ \/ connection.client = NoClient /\ UNCHANGED faults
       \/ connection.client # NoClient /\ faults < MaxFaults /\ faults' = faults + 1
    /\ session' = [session EXCEPT ![s] = [client |-> c, state |-> "open"]]
    /\ connection' = [connection EXCEPT !.client = c, !.status = "authorization_pending"]
    /\ crossed' = (crossed \/ run.pc # "idle")
    /\ UNCHANGED <<graph, tables, link, expired, active, run, missed, purged>>

\* The session is looked up, then the code is exchanged, which works once.
ExchangeCode(s) ==
    /\ session[s].state = "open"
    /\ session' = [session EXCEPT ![s].state = "exchanged"]
    /\ UNCHANGED <<connection, crossed, graph, tables, link, expired, active, run, faults,
                   missed, purged>>

IsOfSessionMutant(s) == connection.client # NoClient
\* WHERE client_id = ..: a session that was overtaken changes nothing, and answers ok.
IsOfSession(s) == connection.client = session[s].client

CompleteAuth(s) ==
    /\ session[s].state = "exchanged"
    /\ session' = [session EXCEPT ![s].state = "used"]
    /\ connection' = IF IsOfSession(s)
                     THEN [connection EXCEPT !.tokens = session[s].client,
                                             !.status = "connected"]
                     ELSE connection
    /\ UNCHANGED <<crossed, graph, tables, link, expired, active, run, faults, missed,
                   purged>>

-----------------------------------------------------------------------------
RunStep ==
    \/ InsertRun \/ LoadConnection \/ EnsureAccessToken \/ ReadLink \/ FetchPage
    \/ ApplyEvent \/ SaveLink \/ FinishRun \/ FailRun

Next ==
    \/ StartRun \/ RunStep \/ InsertFails \/ RunBreaks \/ Crash
    \/ Reset \/ ExpireLink \/ DevicePulls
    \/ \E e \in Events : ChangeRemote(e)
    \/ \E s \in Sessions : ExchangeCode(s) \/ CompleteAuth(s)
    \/ \E c \in Clients : StartAuth(c)

Spec == Init /\ [][Next]_vars

\* The timer starts runs of connected users that are due; runs go on.
StartDue == connection.status = "connected" /\ StartRun
FairSpec == Spec /\ WF_vars(RunStep) /\ WF_vars(StartDue)

-----------------------------------------------------------------------------
TypeOK ==
    /\ clock \in Moment
    /\ remote \in [Events -> Event]
    /\ mirror \in [Events -> Row]
    /\ unread \subseteq Events /\ shown \subseteq Events
    /\ link \in Moment \cup {NoLink}
    /\ expired \in BOOLEAN /\ active \in BOOLEAN
    /\ run \in Run
    /\ connection \in Connection
    /\ session \in [Sessions -> Session]
    /\ faults \in 0..MaxFaults
    /\ missed \subseteq Events /\ purged \in BOOLEAN /\ crossed \in BOOLEAN

Same(e) == mirror[e].there = remote[e].there /\ (remote[e].there => mirror[e].at = remote[e].at)

\* The saved link never stands after a remote change that is not mirrored: a run that
\* breaks or crashes loses nothing.  The exceptions: a reset that falls into a run, which
\* saves its link over a mirror that was emptied, and what was removed remotely after a
\* first round had mirrored it and broken off, which the next round does not list.
LinkCovers ==
    link # NoLink => \A e \in Events \ missed : remote[e].at <= link => Same(e)

\* What the device has pulled is what the mirror holds, for every event without an unread
\* change, unless a reset removed a deletion together with its change.
DeviceIsTold == ~purged => \A e \in Events \ unread : e \in shown <=> mirror[e].there

\* A connection that counts as connected has the tokens of its own client, whichever
\* sessions were started and completed, unless one was started during a run.
TokensAreOfClient ==
    (connection.status = "connected" /\ ~crossed) => connection.tokens = connection.client

\* Under the timer every remote change reaches the mirror, unless the connection is not
\* up, the link has expired, the user was never taken out of activeRuns, or the event is
\* among those missed.
Stuck == active /\ run.pc = "idle"
ChangesArrive ==
    \A e \in Events :
        (~Same(e)) ~> (Same(e) \/ connection.status # "connected" \/ expired \/ Stuck
                       \/ e \in missed)

\* What the theorems need besides.  A run that reads pages has mirrored what changed before
\* its round, except what is pending, at hand, or missed.
RoundCovers ==
    run.pc \in {"page", "apply", "save"} =>
        /\ run.upto <= clock
        /\ link # NoLink => link <= run.upto
        /\ run.pc = "save" => run.pending = {}
        /\ run.pc = "apply" /\ remote[run.event].at <= run.upto =>
             run.got = remote[run.event]
        /\ \A e \in Events \ missed :
             remote[e].at <= run.upto =>
               \/ Same(e) \/ e \in run.pending
               \/ run.pc = "apply" /\ e = run.event

\* A run that has loaded the connection keeps the tokens of the connection's client.
RunHasTokens ==
    (run.pc \in {"token", "link", "page", "apply", "save", "finish"} /\ ~crossed) =>
        /\ connection.tokens = connection.client
        /\ run.pc = "token" => run.tokens = connection.client

OutlookInv ==
    /\ TypeOK
    /\ \A e \in Events : remote[e].at <= clock
    /\ link <= clock
    /\ LinkCovers /\ RoundCovers
    /\ DeviceIsTold
    /\ TokensAreOfClient /\ RunHasTokens
=============================================================================
