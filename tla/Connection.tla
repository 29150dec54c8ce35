------------------------------- MODULE Connection -------------------------------
(***************************************************************************)
(* ServerConnectionService of the client: when a sync runs and when the    *)
(* server hears of the device.  Requests to sync are gathered by a timer   *)
(* or, while a run is going, by a flag; every sync, heartbeat and failure  *)
(* sets the heartbeat's timer anew.  The service runs in one isolate: a    *)
(* step goes from one await to the next.                                   *)
(***************************************************************************)
EXTENDS Integers, FiniteSets

CONSTANTS
    Runners,      \* calls of syncNow that may be going on at once
    Beats,        \* heartbeats the timer started that may be under way at once
    MaxRequests   \* bound: calls of requestSync and syncNow from outside

ASSUME ConnectionBounds == MaxRequests \in Nat

VARIABLES
    started,      \* "no", the call of syncNow _initialize waits for, or "yes"
    busy,         \* _busy
    flag,         \* _syncRequestedWhileBusy
    debounce,     \* is _syncDebounceTimer armed
    heartbeatTimer,
    runner,       \* [Runners -> where its syncNow is]
    hearts,       \* [Beats -> where the heartbeat is]
    owed,         \* auxiliary: a request came that no run has begun after
    asked         \* requests so far

connVars == <<started, busy, flag, debounce, heartbeatTimer, runner, hearts, owed, asked>>

\* loop: the run is over and the loop's condition not yet looked at.
RunnerStates == {"idle", "sync", "beat", "failing", "loop"}

ConnInit ==
    /\ started = "no" /\ busy = FALSE /\ flag = FALSE
    /\ debounce = FALSE /\ heartbeatTimer = FALSE
    /\ runner = [r \in Runners |-> "idle"]
    /\ hearts = [h \in Beats |-> "idle"]
    /\ owed = FALSE /\ asked = 0

Ask == asked < MaxRequests /\ asked' = asked + 1

-----------------------------------------------------------------------------
(* _runSync begins. *)
BeginRun(r) ==
    /\ busy' = TRUE /\ flag' = FALSE /\ owed' = FALSE
    /\ runner' = [runner EXCEPT ![r] = "sync"]

(* syncNow, called while a run goes on, only leaves the flag. *)
SyncNow(r) ==
    IF busy THEN flag' = TRUE /\ owed' = TRUE /\ UNCHANGED <<busy, runner>>
            ELSE runner[r] = "idle" /\ BeginRun(r)

(* start calls _initialize, which syncs and then sets the heartbeat's timer. *)
Start(r) ==
    /\ started = "no" /\ started' = r
    /\ SyncNow(r)
    /\ UNCHANGED <<debounce, heartbeatTimer, hearts, asked>>

InitializeEnds ==
    /\ started \in Runners /\ runner[started] = "idle"
    /\ started' = "yes" /\ heartbeatTimer' = TRUE
    /\ UNCHANGED <<busy, flag, debounce, runner, hearts, owed, asked>>

CallSyncNow(r) ==
    /\ started # "no" /\ Ask /\ SyncNow(r)
    /\ UNCHANGED <<started, debounce, heartbeatTimer, hearts>>

(* requestSync arms the timer anew, unless a run is going on. *)
Requested ==
    /\ owed' = TRUE
    /\ IF busy THEN flag' = TRUE /\ UNCHANGED debounce
               ELSE debounce' = TRUE /\ UNCHANGED flag

RequestSync ==
    /\ started # "no" /\ Ask /\ Requested
    /\ UNCHANGED <<started, busy, heartbeatTimer, runner, hearts>>

DebounceFires(r) ==
    /\ debounce /\ debounce' = FALSE /\ SyncNow(r)
    /\ UNCHANGED <<started, heartbeatTimer, hearts, asked>>

-----------------------------------------------------------------------------
(* _runSync goes on: the bootstrap service syncs, then a heartbeat, or the
   timer alone when the sync reported an error, or the failure's record. *)
SyncReturns(r) ==
    /\ runner[r] = "sync"
    /\ \/ runner' = [runner EXCEPT ![r] = "beat"] /\ UNCHANGED <<heartbeatTimer, busy>>
       \/ runner' = [runner EXCEPT ![r] = "failing"] /\ UNCHANGED <<heartbeatTimer, busy>>
       \/ /\ runner' = [runner EXCEPT ![r] = "loop"]
          /\ heartbeatTimer' = TRUE /\ busy' = FALSE
    /\ UNCHANGED <<started, flag, debounce, hearts, owed, asked>>

(* The heartbeat of a successful sync asks for no further sync. *)
RunsHeartbeatEnds(r) ==
    /\ runner[r] = "beat"
    /\ \/ /\ runner' = [runner EXCEPT ![r] = "loop"]
          /\ heartbeatTimer' = TRUE /\ busy' = FALSE
       \/ runner' = [runner EXCEPT ![r] = "failing"] /\ UNCHANGED <<heartbeatTimer, busy>>
    /\ UNCHANGED <<started, flag, debounce, hearts, owed, asked>>

(* _handleFailure, whose writes to the local database succeed. *)
HandleFailure(r) ==
    /\ runner[r] = "failing"
    /\ runner' = [runner EXCEPT ![r] = "loop"]
    /\ heartbeatTimer' = TRUE /\ busy' = FALSE
    /\ UNCHANGED <<started, flag, debounce, hearts, owed, asked>>

RunAgainMutant == FALSE

(* do ... while (_syncRequestedWhileBusy) *)
RunAgain == flag

LoopOn(r) ==
    /\ runner[r] = "loop"
    /\ IF RunAgain THEN BeginRun(r)
                   ELSE runner' = [runner EXCEPT ![r] = "idle"] /\ UNCHANGED <<busy, flag, owed>>
    /\ UNCHANGED <<started, debounce, heartbeatTimer, hearts, asked>>

-----------------------------------------------------------------------------
(* heartbeat of the timer. *)
HeartbeatFires(h) ==
    /\ heartbeatTimer /\ hearts[h] = "idle"
    /\ heartbeatTimer' = FALSE
    /\ hearts' = [hearts EXCEPT ![h] = "asked"]
    /\ UNCHANGED <<started, busy, flag, debounce, runner, owed, asked>>

(* The server answers; it may have changes to pull, or refuse the device. *)
HeartbeatAnswered(h) ==
    /\ hearts[h] = "asked"
    /\ hearts' = [hearts EXCEPT ![h] = "idle"] /\ heartbeatTimer' = TRUE
    /\ \/ Requested
       \/ UNCHANGED <<debounce, flag, owed>>
    /\ UNCHANGED <<started, busy, runner, asked>>

HeartbeatFails(h) ==
    /\ hearts[h] = "asked" /\ hearts' = [hearts EXCEPT ![h] = "failing"]
    /\ UNCHANGED <<started, busy, flag, debounce, heartbeatTimer, runner, owed, asked>>

HeartbeatFailureRecorded(h) ==
    /\ hearts[h] = "failing" /\ hearts' = [hearts EXCEPT ![h] = "idle"]
    /\ heartbeatTimer' = TRUE
    /\ UNCHANGED <<started, busy, flag, debounce, runner, owed, asked>>

ConnNext ==
    \/ \E r \in Runners : \/ Start(r) \/ CallSyncNow(r) \/ DebounceFires(r) \/ SyncReturns(r)
                          \/ RunsHeartbeatEnds(r) \/ HandleFailure(r) \/ LoopOn(r)
    \/ InitializeEnds \/ RequestSync
    \/ \E h \in Beats : HeartbeatFires(h) \/ HeartbeatAnswered(h) \/ HeartbeatFails(h)
                        \/ HeartbeatFailureRecorded(h)

ConnSpec == ConnInit /\ [][ConnNext]_connVars

-----------------------------------------------------------------------------
(* Properties *)

(* A request to sync that no run has begun after is never forgotten: the
   timer is armed, or the flag is up and a loop will look at it, wherever the
   request fell between the end of a run and the next look at the flag. *)
NoRequestForgotten ==
    owed => debounce \/ (flag /\ \E r \in Runners : runner[r] # "idle")

(* What the theorem needs besides: while the service is busy some run will
   come to its loop's condition.  Other runs may go on when it is not. *)
Running(r) == runner[r] \in {"sync", "beat", "failing"}
BusyIsRunning == busy => \E r \in Runners : Running(r)

ConnInv ==
    /\ busy \in BOOLEAN /\ runner \in [Runners -> RunnerStates]
    /\ NoRequestForgotten /\ BusyIsRunning
=============================================================================
