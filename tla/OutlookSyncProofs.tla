------------------------- MODULE OutlookSyncProofs --------------------------
(***************************************************************************)
(* Theorems about the Outlook mirror, for any number of events and resets  *)
(* and authorization sessions: the saved link never passes a remote change *)
(* that is not mirrored, the device is told of every change of the mirror, *)
(* and a connection holds the tokens of its own client.                    *)
(***************************************************************************)
EXTENDS OutlookSync, TLAPS

(* The run that is not there has the shape of a run. *)
LEMMA NoRunIsRun == NoRun \in Run
BY EventsAssumption, BoundsAssumption DEF NoRun, Run, NoLink, Event, Moment

(* The invariant holds before anything was synced. *)
LEMMA SyncStarts == Init => OutlookInv
<1>. SUFFICES ASSUME Init PROVE OutlookInv
  OBVIOUS
<1>1. run = NoRun /\ NoRun.pc = "idle"
  BY DEF Init, NoRun
<1>2. TypeOK
  <2>1. connection \in Connection /\ session \in [Sessions -> Session]
    BY DEF Init, Connection, Session
  <2>2. mirror \in [Events -> Row]
    BY BoundsAssumption DEF Init, Row, NoRow, Moment
  <2>3. remote \in [Events -> Event]
    <3>. DEFINE start == {[at |-> 0, there |-> TRUE], [at |-> 0, there |-> FALSE]}
    <3>1. start \subseteq Event
      BY BoundsAssumption DEF Event, Moment
    <3>2. remote \in [Events -> start]
      BY DEF Init
    <3>. HIDE DEF start
    <3>. QED  BY <3>1, <3>2
  <2>4. clock \in Moment /\ faults \in 0..MaxFaults
    BY BoundsAssumption DEF Init, Moment
  <2>. QED  BY <1>1, <2>1, <2>2, <2>3, <2>4, NoRunIsRun DEF Init, TypeOK, NoLink
<1>3. LinkCovers /\ RoundCovers /\ link <= clock
  BY <1>1 DEF Init, LinkCovers, RoundCovers, NoLink
<1>4. \A e \in Events : remote[e].at <= clock
  BY DEF Init
<1>5. DeviceIsTold
  BY DEF Init, DeviceIsTold, NoRow
<1>6. TokensAreOfClient /\ RunHasTokens
  BY <1>1 DEF Init, TokensAreOfClient, RunHasTokens
<1>. QED  BY <1>2, <1>3, <1>4, <1>5, <1>6 DEF OutlookInv

-----------------------------------------------------------------------------
(* The types.                                                              *)

(* A run that goes on keeps what it has read. *)
LEMMA GotoTypes ==
    ASSUME TypeOK, NEW step \in {"idle", "insert", "load", "token", "link", "page", "apply",
                                 "save", "finish", "fail"},
           Goto(step)
    PROVE  /\ run' \in Run /\ run'.pc = step
           /\ run'.tokens = run.tokens /\ run'.from = run.from /\ run'.upto = run.upto
           /\ run'.pending = run.pending /\ run'.event = run.event /\ run'.got = run.got
BY DEF TypeOK, Run, Goto

(* The steps of a run keep the types, *)
LEMMA RunTypes ==
    ASSUME TypeOK, RunStep
    PROVE  TypeOK'
<1>1. CASE InsertRun
  BY <1>1, GotoTypes DEF InsertRun, TypeOK, graph, tables, auth
<1>2. CASE LoadConnection
  <2>1. run' \in Run
    BY <1>2 DEF LoadConnection, TypeOK, Run, Connection
  <2>. QED  BY <1>2, <2>1 DEF LoadConnection, RunOnly, TypeOK, graph, tables, auth
<1>3. CASE EnsureAccessToken
  <2>1. run' \in Run
    BY <1>3, GotoTypes DEF EnsureAccessToken
  <2>2. connection' \in Connection
    BY <1>3 DEF EnsureAccessToken, TypeOK, Run, Connection
  <2>. QED  BY <1>3, <2>1, <2>2 DEF EnsureAccessToken, TypeOK, graph, tables
<1>4. CASE ReadLink
  <2>. DEFINE todo == IF link = NoLink THEN {e \in Events : remote[e].there}
                      ELSE {e \in Events : remote[e].at > link}
  <2>1. todo \subseteq Events
    OBVIOUS
  <2>2. run' = [run EXCEPT !.pc = "page", !.from = link, !.upto = clock, !.pending = todo]
    BY <1>4 DEF ReadLink
  <2>. HIDE DEF todo
  <2>3. run' \in Run
    BY <2>1, <2>2 DEF TypeOK, Run
  <2>. QED  BY <1>4, <2>3 DEF ReadLink, TypeOK, graph, tables, auth, GoneUnseen
<1>5. CASE FetchPage
  <2>1. run' \in Run
    <3>1. CASE Goto("fail") \/ Goto("save")
      BY <3>1, GotoTypes
    <3>2. ASSUME NEW e \in run.pending,
                 run' = [run EXCEPT !.pc = "apply", !.pending = @ \ {e}, !.event = e,
                                    !.got = remote[e]]
          PROVE  run' \in Run
      <4>1. e \in Events /\ remote[e] \in Event
        BY DEF TypeOK, Run
      <4>. QED  BY <3>2, <4>1 DEF TypeOK, Run
    <3>. QED  BY <1>5, <3>1, <3>2 DEF FetchPage
  <2>. QED  BY <1>5, <2>1 DEF FetchPage, RunOnly, TypeOK, graph, tables, auth
<1>6. CASE ApplyEvent
  <2>1. run' \in Run
    BY <1>6, GotoTypes DEF ApplyEvent
  <2>2. run.event \in Events /\ run.got \in Event
    BY DEF TypeOK, Run
  <2>3. mirror' \in [Events -> Row] /\ unread' \subseteq Events
    <3>. DEFINE row == [at |-> run.got.at, there |-> run.got.there, exists |-> TRUE]
    <3>1. row \in Row
      BY <2>2 DEF Row, Event
    <3>2. \/ mirror' = [mirror EXCEPT ![run.event] = row] /\ unread' = unread \cup {run.event}
          \/ UNCHANGED <<mirror, unread>>
      BY <1>6 DEF ApplyEvent, RecordChange
    <3>. HIDE DEF row
    <3>. QED  BY <2>2, <3>1, <3>2 DEF TypeOK
  <2>. QED  BY <1>6, <2>1, <2>3 DEF ApplyEvent, TypeOK, graph, auth
<1>7. CASE SaveLink
  <2>1. run' \in Run /\ run.upto \in Moment
    BY <1>7, GotoTypes DEF SaveLink, TypeOK, Run
  <2>. QED  BY <1>7, <2>1 DEF SaveLink, NewLink, TypeOK, graph, tables, auth
<1>8. CASE FinishRun
  BY <1>8, NoRunIsRun DEF FinishRun, TypeOK, Connection, graph, tables
<1>9. CASE FailRun
  BY <1>9, NoRunIsRun DEF FailRun, RunOnly, TypeOK, graph, tables, auth
<1>. QED  BY <1>1, <1>2, <1>3, <1>4, <1>5, <1>6, <1>7, <1>8, <1>9 DEF RunStep

(* ... and so does every other step. *)
LEMMA StepTypes ==
    ASSUME TypeOK, [Next]_vars
    PROVE  TypeOK'
<1>1. CASE RunStep
  BY <1>1, RunTypes
<1>2. CASE StartRun
  <2>1. run' \in Run
    BY <1>2, NoRunIsRun DEF StartRun, Run
  <2>. QED  BY <1>2, <2>1 DEF StartRun, RunOnly, TypeOK, graph, tables, auth
<1>3. CASE InsertFails \/ Crash
  <2>1. faults' \in 0..MaxFaults
    BY <1>3, BoundsAssumption DEF InsertFails, Crash, TypeOK
  <2>2. CASE InsertFails
    BY <2>1, <2>2, NoRunIsRun DEF InsertFails, TypeOK, graph, tables, auth
  <2>3. CASE Crash
    BY <2>1, <2>3, NoRunIsRun DEF Crash, TypeOK, graph, tables, auth
  <2>. QED  BY <1>3, <2>2, <2>3
<1>4. CASE RunBreaks
  BY <1>4, GotoTypes, BoundsAssumption DEF RunBreaks, TypeOK, graph, tables, auth
<1>5. CASE Reset
  <2>1. NoRow \in Row
    BY BoundsAssumption DEF NoRow, Row, Moment
  <2>2. mirror' \in [Events -> Row]
    BY <1>5, <2>1 DEF Reset, TypeOK, Row
  <2>3. faults' \in 0..MaxFaults
    BY <1>5, BoundsAssumption DEF Reset, TypeOK
  <2>4. unread' \subseteq Events /\ missed' \subseteq Events /\ purged' \in BOOLEAN
    BY <1>5 DEF Reset, TypeOK, ResetDeletes
  <2>. QED  BY <1>5, <2>2, <2>3, <2>4 DEF Reset, TypeOK, graph, auth
<1>6. CASE ExpireLink \/ DevicePulls
  <2>1. CASE ExpireLink
    <3>1. faults' \in 0..MaxFaults
      BY <2>1, BoundsAssumption DEF ExpireLink, TypeOK
    <3>. QED  BY <2>1, <3>1 DEF ExpireLink, TypeOK, graph, tables, auth
  <2>2. CASE DevicePulls
    BY <2>2 DEF DevicePulls, TypeOK, graph, auth
  <2>. QED  BY <1>6, <2>1, <2>2
<1>7. ASSUME NEW e \in Events, ChangeRemote(e) PROVE TypeOK'
  <2>1. clock + 1 \in Moment
    BY <1>7, BoundsAssumption DEF ChangeRemote, TypeOK, Moment
  <2>2. PICK there \in BOOLEAN :
          remote' = [remote EXCEPT ![e] = [at |-> clock + 1, there |-> there]]
    BY <1>7 DEF ChangeRemote
  <2>3. remote' \in [Events -> Event]
    BY <2>1, <2>2 DEF TypeOK, Event
  <2>. QED  BY <1>7, <2>1, <2>3 DEF ChangeRemote, TypeOK, tables, auth
<1>8. ASSUME NEW s \in Sessions, ExchangeCode(s) \/ CompleteAuth(s) PROVE TypeOK'
  <2>1. session' \in [Sessions -> Session]
    BY <1>8 DEF ExchangeCode, CompleteAuth, TypeOK, Session
  <2>2. session[s].client \in Clients \cup {NoClient}
    BY DEF TypeOK, Session
  <2>3. connection' \in Connection
    BY <1>8, <2>2 DEF ExchangeCode, CompleteAuth, TypeOK, Connection
  <2>. QED  BY <1>8, <2>1, <2>3 DEF ExchangeCode, CompleteAuth, TypeOK, graph, tables
<1>9. ASSUME NEW c \in Clients, StartAuth(c) PROVE TypeOK'
  <2>1. session' \in [Sessions -> Session]
    BY <1>9 DEF StartAuth, TypeOK, Session
  <2>2. connection' \in Connection
    BY <1>9 DEF StartAuth, TypeOK, Connection
  <2>3. faults' \in 0..MaxFaults /\ crossed' \in BOOLEAN
    BY <1>9, BoundsAssumption DEF StartAuth, TypeOK
  <2>. QED  BY <1>9, <2>1, <2>2, <2>3 DEF StartAuth, TypeOK, graph, tables
<1>10. CASE UNCHANGED vars
  BY <1>10 DEF vars, TypeOK
<1>. QED  BY <1>1, <1>2, <1>3, <1>4, <1>5, <1>6, <1>7, <1>8, <1>9, <1>10 DEF Next

-----------------------------------------------------------------------------
(* What the device is told.                                                *)

(* A change of the mirror leaves an unread change behind, or the reset counts the event
   as purged. *)
LEMMA DeviceStaysTold ==
    ASSUME TypeOK, DeviceIsTold, [Next]_vars
    PROVE  DeviceIsTold'
<1>1. CASE UNCHANGED <<mirror, unread, shown, purged>>
  BY <1>1 DEF DeviceIsTold
<1>2. CASE DevicePulls
  BY <1>2 DEF DevicePulls, DeviceIsTold, TypeOK
<1>3. CASE ApplyEvent
  BY <1>3 DEF ApplyEvent, RecordChange, UpsertIsNews, DeviceIsTold, TypeOK, Row, Run, Event
<1>4. CASE Reset
  <2>1. ~purged' => ~purged /\ unread \cap Tombstones \cap shown = {}
    BY <1>4 DEF Reset
  <2>2. shown' = shown
    BY <1>4 DEF Reset
  <2>3. ASSUME NEW e \in Events PROVE ~mirror'[e].there
    BY <1>4 DEF Reset, TypeOK, Row, NoRow
  <2>4. ASSUME NEW e \in Events, e \notin unread', ~purged' PROVE e \notin shown
    BY <1>4, <2>1, <2>4 DEF Reset, ResetDeletes, DeviceIsTold, Tombstones
  <2>. QED  BY <2>1, <2>2, <2>3, <2>4 DEF DeviceIsTold
<1>. QED  BY <1>1, <1>2, <1>3, <1>4
          DEF Next, vars, RunStep, StartRun, InsertRun, LoadConnection, EnsureAccessToken,
              ReadLink, FetchPage, SaveLink, FinishRun, FailRun, InsertFails, RunBreaks, Crash,
              ExpireLink, ChangeRemote, ExchangeCode, CompleteAuth, StartAuth, RunOnly, tables

-----------------------------------------------------------------------------
(* Whose tokens a connection has.                                          *)

(* What a run writes to the connection are tokens it read from it, or refreshed with
   them. *)
LEMMA TokensStay ==
    ASSUME TypeOK, TokensAreOfClient, RunHasTokens, [Next]_vars
    PROVE  TokensAreOfClient' /\ RunHasTokens'
<1>1. CASE UNCHANGED <<run, connection, crossed>>
  BY <1>1 DEF TokensAreOfClient, RunHasTokens
<1>2. CASE LoadConnection
  BY <1>2 DEF LoadConnection, RunOnly, auth, TokensAreOfClient, RunHasTokens, TypeOK, Run
<1>5. CASE EnsureAccessToken
  BY <1>5, GotoTypes DEF EnsureAccessToken, TokensAreOfClient, RunHasTokens, TypeOK, Connection
<1>6. CASE InsertRun \/ SaveLink \/ RunBreaks
  BY <1>6, GotoTypes DEF InsertRun, SaveLink, RunBreaks, auth, TokensAreOfClient, RunHasTokens
<1>7. CASE ReadLink
  <2>1. run'.pc = "page" /\ run.pc = "link"
    BY <1>7 DEF ReadLink, TypeOK, Run
  <2>. QED  BY <1>7, <2>1 DEF ReadLink, auth, TokensAreOfClient, RunHasTokens
<1>8. CASE FetchPage
  <2>1. run.pc = "page" /\ run'.pc \in {"fail", "save", "apply"}
    BY <1>8, GotoTypes DEF FetchPage, TypeOK, Run
  <2>. QED  BY <1>8, <2>1 DEF FetchPage, RunOnly, auth, TokensAreOfClient, RunHasTokens
<1>9. CASE ApplyEvent
  BY <1>9, GotoTypes DEF ApplyEvent, auth, TokensAreOfClient, RunHasTokens
<1>10. CASE FinishRun
  BY <1>10 DEF FinishRun, NoRun, TokensAreOfClient, RunHasTokens, TypeOK, Connection
<1>11. CASE FailRun \/ StartRun \/ InsertFails \/ Crash
  <2>1. run'.pc \in {"idle", "insert"}
    BY <1>11, NoRunIsRun DEF FailRun, StartRun, InsertFails, Crash, NoRun
  <2>. QED  BY <1>11, <2>1 DEF FailRun, StartRun, InsertFails, Crash, RunOnly, auth,
                TokensAreOfClient, RunHasTokens
<1>3. ASSUME NEW s \in Sessions, CompleteAuth(s) PROVE TokensAreOfClient' /\ RunHasTokens'
  BY <1>3 DEF CompleteAuth, IsOfSession, TokensAreOfClient, RunHasTokens, TypeOK, Connection
<1>4. ASSUME NEW c \in Clients, StartAuth(c) PROVE TokensAreOfClient' /\ RunHasTokens'
  BY <1>4 DEF StartAuth, TokensAreOfClient, RunHasTokens, TypeOK, Connection
<1>. QED  BY <1>1, <1>2, <1>3, <1>4, <1>5, <1>6, <1>7, <1>8, <1>9, <1>10, <1>11
          DEF Next, RunStep, vars, Reset, DevicePulls, ExpireLink, ChangeRemote, ExchangeCode, auth

-----------------------------------------------------------------------------
(* What the link covers.                                                   *)

Covered ==
    /\ \A e \in Events : remote[e].at <= clock
    /\ link <= clock
    /\ LinkCovers /\ RoundCovers

\* Outside a round, the link alone counts.
LEMMA NoRoundCovers ==
    ASSUME TypeOK, Covered, run'.pc \notin {"page", "apply", "save"},
           UNCHANGED <<clock, remote, mirror, link>>, missed \subseteq missed'
    PROVE  Covered'
BY DEF Covered, LinkCovers, RoundCovers, Same

(* A round applies every page before it saves its link, whatever fails between. *)
LEMMA CoverStaysInRun ==
    ASSUME TypeOK, TypeOK', Covered, RunStep
    PROVE  Covered'
<1>1. CASE InsertRun \/ LoadConnection \/ EnsureAccessToken
  <2>1. run'.pc \in {"load", "token", "fail", "link"}
    BY <1>1, GotoTypes DEF InsertRun, LoadConnection, EnsureAccessToken, TypeOK, Run
  <2>. QED  BY <1>1, <2>1, NoRoundCovers
            DEF InsertRun, LoadConnection, EnsureAccessToken, RunOnly, graph, tables
<1>2. CASE ReadLink
  <2>1. /\ run'.pc = "page" /\ run'.upto = clock
        /\ run'.pending = IF link = NoLink THEN {e \in Events : remote[e].there}
                          ELSE {e \in Events : remote[e].at > link}
    BY <1>2 DEF ReadLink, TypeOK, Run
  <2>2. missed' = IF link = NoLink THEN missed \cup GoneUnseen ELSE missed
    BY <1>2 DEF ReadLink
  <2>3. UNCHANGED <<clock, remote, mirror, link>>
    BY <1>2 DEF ReadLink, graph, tables
  <2>4. ASSUME NEW e \in Events \ missed', e \notin run'.pending
        PROVE  Same(e)'
    <3>1. CASE link = NoLink
      BY <2>1, <2>2, <2>3, <2>4, <3>1 DEF GoneUnseen, Same, TypeOK, Event, Row
    <3>2. CASE link # NoLink
      <4>1. remote[e].at <= link
        BY <2>1, <2>4, <3>2 DEF TypeOK, Event, Moment
      <4>. QED  BY <2>2, <2>3, <2>4, <3>2, <4>1 DEF Covered, LinkCovers, Same
    <3>. QED  BY <3>1, <3>2
  <2>5. RoundCovers'
    BY <2>1, <2>3, <2>4 DEF RoundCovers, Covered, TypeOK, Moment
  <2>. QED  BY <2>2, <2>3, <2>5 DEF Covered, LinkCovers, Same
<1>3. CASE FetchPage
  <2>1. UNCHANGED <<clock, remote, mirror, link, missed>> /\ run.pc = "page"
    BY <1>3 DEF FetchPage, RunOnly, graph, tables
  <2>2. CASE Goto("fail")
    BY <2>1, <2>2, GotoTypes, NoRoundCovers
  <2>3. CASE run.pending = {} /\ Goto("save")
    BY <2>1, <2>3, GotoTypes DEF Covered, RoundCovers, LinkCovers, Same
  <2>4. ASSUME NEW e \in run.pending,
               run' = [run EXCEPT !.pc = "apply", !.pending = @ \ {e}, !.event = e,
                                  !.got = remote[e]]
        PROVE  Covered'
    <3>1. /\ run'.pc = "apply" /\ run'.pending = run.pending \ {e} /\ run'.event = e
          /\ run'.got = remote[e] /\ run'.upto = run.upto
      BY <2>4 DEF TypeOK, Run
    <3>2. RoundCovers'
      BY <2>1, <3>1 DEF Covered, RoundCovers, Same
    <3>. QED  BY <2>1, <3>2 DEF Covered, LinkCovers, Same
  <2>. QED  BY <1>3, <2>2, <2>3, <2>4 DEF FetchPage
<1>4. CASE ApplyEvent
  <2>0. PICK e \in Events : e = run.event
    BY DEF TypeOK, Run
  <2>1. /\ run.got \in Event /\ run.pc = "apply"
        /\ run'.pc = "page" /\ run'.upto = run.upto /\ run'.pending = run.pending
    BY <1>4, GotoTypes DEF ApplyEvent, TypeOK, Run
  <2>2. UNCHANGED <<clock, remote, link>> /\ missed' = missed \ {e}
    BY <1>4, <2>0 DEF ApplyEvent, graph
  <2>3. ASSUME NEW d \in Events, d # e PROVE mirror'[d] = mirror[d]
    BY <1>4, <2>0, <2>3 DEF ApplyEvent, TypeOK
  <2>4. mirror'[e].there = run.got.there /\ (run.got.there => mirror'[e].at = run.got.at)
    BY <1>4, <2>0, <2>1 DEF ApplyEvent, UpsertIsNews, TypeOK, Row, Event
  <2>5. remote[e].at <= run.upto => Same(e)'
    BY <2>0, <2>1, <2>2, <2>4 DEF Covered, RoundCovers, Same
  <2>6. LinkCovers'
    <3>1. link # NoLink /\ remote[e].at <= link => remote[e].at <= run.upto
      BY <2>1 DEF Covered, RoundCovers, TypeOK, Run, Event, Moment, NoLink
    <3>. QED  BY <2>2, <2>3, <2>5, <3>1 DEF Covered, LinkCovers, Same
  <2>7. RoundCovers'
    BY <2>0, <2>1, <2>2, <2>3, <2>5 DEF Covered, RoundCovers, Same
  <2>. QED  BY <2>2, <2>6, <2>7 DEF Covered
<1>5. CASE SaveLink
  <2>1. run'.pc = "finish" /\ run.pc = "save" /\ link' = run.upto
    BY <1>5, GotoTypes DEF SaveLink, NewLink
  <2>2. UNCHANGED <<clock, remote, mirror, missed>>
    BY <1>5 DEF SaveLink, graph, tables
  <2>. QED  BY <2>1, <2>2 DEF Covered, LinkCovers, RoundCovers, Same
<1>6. CASE FinishRun \/ FailRun
  BY <1>6, NoRoundCovers DEF FinishRun, FailRun, RunOnly, NoRun, graph, tables
<1>. QED  BY <1>1, <1>2, <1>3, <1>4, <1>5, <1>6 DEF RunStep

(* The other steps end a round or leave it alone; the remote moves on under a later
   clock. *)
LEMMA CoverStays ==
    ASSUME TypeOK, TypeOK', Covered, [Next]_vars
    PROVE  Covered'
<1>1. CASE RunStep
  BY <1>1, CoverStaysInRun
<1>2. CASE StartRun \/ InsertFails \/ RunBreaks \/ Crash
  <2>1. run'.pc \notin {"page", "apply", "save"}
    BY <1>2, GotoTypes DEF StartRun, InsertFails, RunBreaks, Crash, NoRun
  <2>. QED  BY <1>2, <2>1, NoRoundCovers
            DEF StartRun, InsertFails, RunBreaks, Crash, RunOnly, graph, tables
<1>3. CASE Reset
  <2>1. /\ link' = NoLink /\ UNCHANGED <<clock, remote, run>>
        /\ missed' = IF run.pc = "idle" THEN missed ELSE Events
    BY <1>3 DEF Reset, graph
  <2>. QED  BY <2>1 DEF Covered, LinkCovers, RoundCovers, TypeOK, Moment, NoLink
<1>4. ASSUME NEW e \in Events, ChangeRemote(e) PROVE Covered'
  <2>1. UNCHANGED <<mirror, link, run, missed>> /\ clock' = clock + 1 /\ clock \in Nat
    BY <1>4 DEF ChangeRemote, tables, TypeOK, Moment
  <2>2. remote'[e].at = clock + 1 /\ \A d \in Events \ {e} : remote'[d] = remote[d]
    BY <1>4 DEF ChangeRemote, TypeOK
  <2>3. link < clock + 1 /\ (run.pc \in {"page", "apply", "save"} => run.upto < clock + 1)
    BY <2>1 DEF Covered, RoundCovers, TypeOK, Run, Moment, NoLink
  <2>4. \A d \in Events : remote'[d].at <= clock + 1
    BY <2>1, <2>2 DEF Covered, TypeOK, Event, Moment
  <2>5. link <= clock + 1
    BY <2>1, <2>3 DEF TypeOK, Moment, NoLink
  <2>6. ~(clock + 1 <= link) /\ (run.pc \in {"page", "apply", "save"} => ~(clock + 1 <= run.upto))
    BY <2>1, <2>3 DEF TypeOK, Run, Moment, NoLink
  <2>7. LinkCovers'
    BY <2>1, <2>2, <2>6 DEF Covered, LinkCovers, Same
  <2>8. RoundCovers'
    <3>1. run.pc \in {"page", "apply", "save"} => run.upto <= clock + 1
      BY <2>1, <2>3 DEF TypeOK, Run, Moment
    <3>2. run.event \in Events
      BY DEF TypeOK, Run
    <3>. QED  BY <2>1, <2>2, <2>6, <3>1, <3>2 DEF Covered, RoundCovers, Same
  <2>. QED  BY <2>1, <2>4, <2>5, <2>7, <2>8 DEF Covered
<1>5. CASE UNCHANGED <<clock, remote, mirror, link, run, missed>>
  BY <1>5 DEF Covered, LinkCovers, RoundCovers, Same
<1>. QED  BY <1>1, <1>2, <1>3, <1>4, <1>5
          DEF Next, vars, ExpireLink, DevicePulls, ExchangeCode, CompleteAuth, StartAuth, graph,
              tables

(* The four parts of the invariant together. *)
LEMMA SyncGoesOn ==
    ASSUME OutlookInv, [Next]_vars
    PROVE  OutlookInv'
<1>1. TypeOK /\ TypeOK' /\ Covered
  BY StepTypes DEF OutlookInv, Covered
<1>2. Covered'
  BY <1>1, CoverStays
<1>3. DeviceIsTold' /\ TokensAreOfClient' /\ RunHasTokens'
  BY <1>1, DeviceStaysTold, TokensStay DEF OutlookInv
<1>. QED  BY <1>1, <1>2, <1>3 DEF OutlookInv, Covered

(* The invariant holds in every state. *)
LEMMA SyncInvariant == Spec => []OutlookInv
BY SyncStarts, SyncGoesOn, PTL DEF Spec

\* The saved link never stands after a remote change that is not mirrored, however runs
\* break, crash or are reset, except for the events it counts as missed.
THEOREM LinkNeverSkips == Spec => []LinkCovers
<1>1. OutlookInv => LinkCovers
  BY DEF OutlookInv
<1>. QED  BY <1>1, SyncInvariant, PTL

\* The device and the mirror agree on every event without an unread change, unless a reset
\* removed a deletion the device had not pulled.
THEOREM DeviceKnowsMirror == Spec => []DeviceIsTold
<1>1. OutlookInv => DeviceIsTold
  BY DEF OutlookInv
<1>. QED  BY <1>1, SyncInvariant, PTL

\* A connection that counts as connected has its own client's tokens, whichever sessions
\* were started and completed, unless one was started during a run.
THEOREM ConnectedWithOwnTokens == Spec => []TokensAreOfClient
<1>1. OutlookInv => TokensAreOfClient
  BY DEF OutlookInv
<1>. QED  BY <1>1, SyncInvariant, PTL
=============================================================================
