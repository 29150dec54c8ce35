--------------------------- MODULE ServicesProofs ---------------------------
(***************************************************************************)
(* Theorems about the parts that run beside the sync, for any number of    *)
(* tasks, callers, requests, builds, uploads, versions and devices:        *)
(* topological order, requests to sync, imports, confirmed facts, file     *)
(* versions, decided segments, uploaded records, pages, active models and  *)
(* revoked devices.  Each section proves the invariant of one module;      *)
(* MCServices checks the properties of them all.                           *)
(***************************************************************************)
EXTENDS DependencyGraph, Connection, ClientImport, Reports, FileVersions, Activity, Tracking,
        Console, Models, Devices, FiniteSetTheorems, TLAPS

-----------------------------------------------------------------------------
(* Dependency graph                                                        *)

(* What is known of the request in every state. *)
LEMMA RequestFacts ==
    ASSUME GraphTypeOK, NEW n \in Nodes
    PROVE  /\ graph.deps[n] \subseteq Nodes /\ IsFiniteSet(graph.deps[n])
           /\ Cardinality(graph.deps[n]) \in Nat /\ graph.repeats[n] \in Nat
           /\ InDegree(graph, n) = Cardinality(graph.deps[n]) + graph.repeats[n]
           /\ InDegree(graph, n) \in Nat
<1>1. graph.deps[n] \subseteq Nodes /\ graph.repeats[n] \in Nat
  BY GraphAssumption DEF GraphTypeOK
<1>2. IsFiniteSet(graph.deps[n]) /\ Cardinality(graph.deps[n]) \in Nat
  BY <1>1, FS_Subset, FS_CardinalityType, GraphAssumption
<1>3. InDegree(graph, n) = Cardinality(graph.deps[n]) + graph.repeats[n]
  BY DEF InDegree
<1> QED
  BY <1>1, <1>2, <1>3

(* Part of a finite set is finite, and counted by a number. *)
LEMMA PartIsCounted ==
    ASSUME NEW D, IsFiniteSet(D), NEW T
    PROVE  IsFiniteSet(D \cap T) /\ Cardinality(D \cap T) \in Nat
BY FS_Subset, FS_CardinalityType

(* A degree is used up only by all the prerequisites together: an entry that
   is written twice keeps the node out of the queues. *)
LEMMA AllAreSorted ==
    ASSUME NEW D, IsFiniteSet(D), NEW S \in SUBSET D, NEW r \in Nat,
           Cardinality(D) + r = Cardinality(S)
    PROVE  S = D
<1>1. /\ IsFiniteSet(S) /\ Cardinality(S) \in Nat /\ Cardinality(D) \in Nat
      /\ Cardinality(S) <= Cardinality(D)
  BY FS_Subset, FS_CardinalityType
<1>2. Cardinality(S) = Cardinality(D)
  BY <1>1
<1> QED
  BY <1>2, FS_Subset

(* The degrees of a new request count all its prerequisites. *)
LEMMA GraphInitInv == GraphInit => GraphInv
<1> SUFFICES ASSUME GraphInit PROVE GraphInv
  OBVIOUS
<1> USE DEF GraphInit
<1>1. \A n \in Nodes : /\ graph.deps[n] \subseteq Nodes /\ graph.repeats[n] \in Nat
                       /\ IsFiniteSet(graph.deps[n]) /\ Cardinality(graph.deps[n]) \in Nat
  <2> TAKE n \in Nodes
  <2>1. graph.deps[n] \subseteq Nodes /\ graph.repeats[n] \in Nat
    BY GraphAssumption
  <2> QED
    BY <2>1, FS_Subset, FS_CardinalityType, GraphAssumption
<1>2. GraphTypeOK
  BY <1>1 DEF GraphTypeOK, InDegree
<1>3. PrerequisitesFirst
  BY DEF PrerequisitesFirst, Sorted
<1>4. DegreesCount
  <2> SUFFICES ASSUME NEW n \in Nodes
               PROVE indeg[n] = InDegree(graph, n) - Cardinality(graph.deps[n] \cap Sorted)
    BY DEF DegreesCount
  <2>1. graph.deps[n] \cap Sorted = {}
    BY <1>1 DEF Sorted
  <2>2. Cardinality(graph.deps[n] \cap Sorted) = 0
    BY <2>1, FS_EmptySet
  <2>3. indeg[n] = InDegree(graph, n)
    OBVIOUS
  <2>4. InDegree(graph, n) \in Nat
    BY <1>2, RequestFacts
  <2> QED
    BY <2>2, <2>3, <2>4
<1>5. QueuesAreDue
  <2>1. \A n \in queue : graph.deps[n] = {}
    <3> TAKE n \in queue
    <3>1. Cardinality(graph.deps[n]) = 0
      BY <1>1 DEF InDegree
    <3> QED
      BY <1>1, <3>1, FS_EmptySet
  <2> QED
    BY <2>1 DEF QueuesAreDue
<1> QED
  BY <1>2, <1>3, <1>4, <1>5 DEF GraphInv

(* Sorting a task takes it off the degrees of the tasks that depend on it. *)
LEMMA SortNodeInv ==
    ASSUME GraphInv, NEW n \in Nodes, SortNode(n)
    PROVE  GraphInv'
<1> USE DEF GraphInv
<1>1. /\ n \in queue /\ place[n] = 0 /\ graph' = graph /\ depth' = depth
      /\ place' = [place EXCEPT ![n] = depth] /\ place \in [Nodes -> Nat] /\ depth \in Nat \ {0}
      /\ \A d \in graph.deps[n] : place[d] \in 1..(depth - 1)
  BY DEF SortNode, QueuesAreDue, GraphTypeOK
<1>2. \A m \in Nodes : m # n => place'[m] = place[m]
  BY <1>1
<1>3. place'[n] = depth
  BY <1>1
<1>4. GraphTypeOK'
  BY <1>1 DEF SortNode, GraphTypeOK, Dependents
<1>5. \A m \in Nodes : n \in graph.deps[m] => place[m] = 0 /\ m \notin queue /\ m # n
  BY <1>1 DEF PrerequisitesFirst, Sorted, QueuesAreDue, GraphTypeOK
<1>6. PrerequisitesFirst'
  <2> SUFFICES ASSUME NEW m \in Nodes, place'[m] > 0, NEW d \in graph.deps[m]
               PROVE place'[d] \in 1..(place'[m] - 1)
    BY <1>1 DEF PrerequisitesFirst, Sorted
  <2>0. d \in Nodes
    BY RequestFacts
  <2>1. CASE m = n
    BY <1>1, <1>2, <1>3, <2>0, <2>1
  <2>2. CASE m # n
    <3>1. place[d] \in 1..(place[m] - 1)
      BY <1>2, <2>2 DEF PrerequisitesFirst, Sorted
    <3>2. d # n
      BY <3>1, <1>1
    <3> QED
      BY <3>1, <3>2, <1>2, <2>0, <2>2
  <2> QED
    BY <2>1, <2>2
<1>7. \A t \in Nodes : indeg'[t] = InDegree(graph, t) - Cardinality(graph.deps[t] \cap Sorted')
  <2> TAKE t \in Nodes
  <2>a. indeg[t] = InDegree(graph, t) - Cardinality(graph.deps[t] \cap Sorted)
    BY DEF DegreesCount
  <2>b. /\ InDegree(graph, t) \in Nat /\ IsFiniteSet(graph.deps[t] \cap Sorted)
        /\ Cardinality(graph.deps[t] \cap Sorted) \in Nat
    BY RequestFacts, PartIsCounted
  <2>1. CASE n \in graph.deps[t]
    <3>1. /\ graph.deps[t] \cap Sorted' = (graph.deps[t] \cap Sorted) \cup {n}
          /\ n \notin graph.deps[t] \cap Sorted
      BY <1>1, <1>2, <1>3, <2>1, RequestFacts DEF Sorted
    <3>2. Cardinality(graph.deps[t] \cap Sorted') = Cardinality(graph.deps[t] \cap Sorted) + 1
      BY <3>1, <2>b, FS_AddElement
    <3>3. indeg'[t] = indeg[t] - 1
      BY <2>1 DEF SortNode, Dependents
    <3> QED
      BY <2>a, <2>b, <3>2, <3>3
  <2>2. CASE n \notin graph.deps[t]
    <3>1. graph.deps[t] \cap Sorted' = graph.deps[t] \cap Sorted
      BY <1>1, <1>2, <2>2, RequestFacts DEF Sorted
    <3>2. indeg'[t] = indeg[t]
      BY <2>2 DEF SortNode, Dependents
    <3> QED
      BY <2>a, <3>1, <3>2
  <2> QED
    BY <2>1, <2>2
<1>8. QueuesAreDue'
  <2>1. \A m \in Nodes : place'[m] <= depth
    BY <1>1, <1>2, <1>3 DEF QueuesAreDue
  <2>2. queue' = queue \ {n}
    BY DEF SortNode
  <2>3. \A t \in nextQueue' \ nextQueue : t \in Nodes /\ n \in graph.deps[t] /\ indeg'[t] = 0
    BY DEF SortNode, Dependents, Due
  <2>4. queue' \cap nextQueue' = {}
    BY <1>5, <2>2, <2>3 DEF QueuesAreDue
  <2>5. \A q \in queue' : /\ place'[q] = 0
                          /\ \A d \in graph.deps[q] : place'[d] \in 1..(depth - 1)
    <3> TAKE q \in queue'
    <3>1. q \in Nodes /\ q # n /\ place[q] = 0 /\ graph.deps[q] \subseteq Nodes
      BY <2>2, RequestFacts DEF QueuesAreDue, GraphTypeOK
    <3>2. \A d \in graph.deps[q] : place[d] \in 1..(depth - 1) /\ d # n
      BY <1>1, <2>2 DEF QueuesAreDue
    <3> QED
      BY <1>2, <3>1, <3>2
  <2>6. \A q \in nextQueue' : /\ place'[q] = 0
                              /\ \A d \in graph.deps[q] : place'[d] \in 1..depth
    <3> TAKE q \in nextQueue'
    <3>1. CASE q \in nextQueue
      <4>1. q \in Nodes /\ q # n /\ place[q] = 0 /\ graph.deps[q] \subseteq Nodes
        BY <1>1, <3>1, RequestFacts DEF QueuesAreDue, GraphTypeOK
      <4>2. \A d \in graph.deps[q] : place[d] \in 1..depth /\ d # n
        BY <1>1, <3>1 DEF QueuesAreDue
      <4> QED
        BY <1>2, <4>1, <4>2
    <3>2. CASE q \notin nextQueue
      <4>1. q \in Nodes /\ place'[q] = 0
        BY <1>2, <1>5, <2>3, <3>2
      <4>2. \A d \in graph.deps[q] : d \in Nodes /\ place'[d] > 0
        <5>1. Cardinality(graph.deps[q]) + graph.repeats[q] = Cardinality(graph.deps[q] \cap Sorted')
          <6>1. indeg'[q] = InDegree(graph, q) - Cardinality(graph.deps[q] \cap Sorted')
            BY <1>7, <4>1
          <6>2. indeg'[q] = 0
            BY <2>3, <3>2
          <6>3. Cardinality(graph.deps[q] \cap Sorted') \in Nat
            BY <4>1, RequestFacts, PartIsCounted
          <6> QED
            BY <6>1, <6>2, <6>3, <4>1, RequestFacts
        <5>2. graph.deps[q] \cap Sorted' \subseteq graph.deps[q]
          OBVIOUS
        <5>3. graph.deps[q] \cap Sorted' = graph.deps[q]
          BY <5>1, <5>2, <4>1, RequestFacts, AllAreSorted
        <5> QED
          BY <1>1, <4>1, <5>3, RequestFacts DEF Sorted
      <4> QED
        BY <1>4, <2>1, <4>1, <4>2 DEF GraphTypeOK
    <3> QED
      BY <3>1, <3>2
  <2> QED
    BY <1>1, <2>1, <2>4, <2>5, <2>6 DEF QueuesAreDue
<1>9. DegreesCount'
  BY <1>1, <1>7 DEF DegreesCount, InDegree
<1> QED
  BY <1>4, <1>6, <1>8, <1>9

(* A layer is closed, and the next one begun, when its queue is empty. *)
LEMMA CloseLayerInv ==
    ASSUME GraphInv, CloseLayer
    PROVE  GraphInv'
<1> USE DEF GraphInv, CloseLayer
<1>1. GraphTypeOK'
  BY DEF GraphTypeOK
<1>2. PrerequisitesFirst'
  BY DEF PrerequisitesFirst, Sorted
<1>3. DegreesCount'
  BY DEF DegreesCount, InDegree, Sorted
<1>4. QueuesAreDue'
  BY DEF QueuesAreDue, GraphTypeOK
<1> QED
  BY <1>1, <1>2, <1>3, <1>4

(* topoSort never puts a task in a layer before or beside one it depends on,
   whatever the graph. *)
THEOREM SortingKeepsOrder == GraphSpec => []PrerequisitesFirst
<1>1. GraphInv /\ [GraphNext]_graphVars => GraphInv'
  <2> SUFFICES ASSUME GraphInv, [GraphNext]_graphVars PROVE GraphInv'
    OBVIOUS
  <2>1. CASE CloseLayer
    BY <2>1, CloseLayerInv
  <2>2. ASSUME NEW n \in Nodes, SortNode(n) PROVE GraphInv'
    BY <2>2, SortNodeInv
  <2>3. CASE UNCHANGED graphVars
    BY <2>3 DEF graphVars, GraphInv, GraphTypeOK, PrerequisitesFirst, Sorted, DegreesCount,
                InDegree, QueuesAreDue
  <2> QED
    BY <2>1, <2>2, <2>3 DEF GraphNext
<1>2. GraphInv => PrerequisitesFirst
  BY DEF GraphInv
<1> QED
  BY GraphInitInv, <1>1, <1>2, PTL DEF GraphSpec

-----------------------------------------------------------------------------
(* Client connection service                                               *)

(* A run that begins answers everything that was asked for so far. *)
LEMMA BeginRunInv ==
    ASSUME ConnInv, NEW r \in Runners, BeginRun(r)
    PROVE  ConnInv'
<1>1. runner' \in [Runners -> RunnerStates] /\ runner'[r] = "sync"
  BY DEF ConnInv, BeginRun, RunnerStates
<1> QED
  BY <1>1 DEF BeginRun, ConnInv, NoRequestForgotten, BusyIsRunning, Running

(* A call of syncNow runs at once or leaves a flag for the run that is under way. *)
LEMMA SyncNowInv ==
    ASSUME ConnInv, NEW r \in Runners, SyncNow(r), debounce' = debounce \/ debounce' = FALSE
    PROVE  ConnInv'
<1>1. CASE busy
  <2>1. PICK q \in Runners : Running(q)
    BY <1>1 DEF ConnInv, BusyIsRunning
  <2>2. flag' = TRUE /\ busy' = busy /\ runner' = runner
    BY <1>1 DEF SyncNow
  <2> QED
    BY <1>1, <2>1, <2>2 DEF ConnInv, NoRequestForgotten, BusyIsRunning, Running
<1>2. CASE ~busy
  BY <1>2, BeginRunInv DEF SyncNow
<1> QED
  BY <1>1, <1>2

(* A request while the service is busy is left to the run that is going on. *)
LEMMA RequestedInv ==
    ASSUME ConnInv, Requested, UNCHANGED <<busy, runner>>
    PROVE  ConnInv'
<1>1. CASE busy
  <2>1. PICK q \in Runners : Running(q)
    BY <1>1 DEF ConnInv, BusyIsRunning
  <2> QED
    BY <1>1, <2>1 DEF Requested, ConnInv, NoRequestForgotten, BusyIsRunning, Running
<1>2. CASE ~busy
  BY <1>2 DEF Requested, ConnInv, NoRequestForgotten, BusyIsRunning
<1> QED
  BY <1>1, <1>2

(* A run goes on to its heartbeat or to the record of a failure, or it is
   over and its loop has still to look at the flag. *)
LEMMA RunGoesOn ==
    ASSUME ConnInv, NEW r \in Runners, Running(r), UNCHANGED <<flag, debounce, owed>>,
           \/ \E st \in {"beat", "failing"} : runner' = [runner EXCEPT ![r] = st] /\ busy' = busy
           \/ runner' = [runner EXCEPT ![r] = "loop"] /\ busy' = FALSE
    PROVE  ConnInv'
<1>1. runner' \in [Runners -> RunnerStates] /\ runner'[r] \in {"beat", "failing", "loop"}
  BY DEF ConnInv, RunnerStates
<1>2. busy' \in BOOLEAN /\ (busy' => Running(r)')
  BY DEF ConnInv, Running
<1>3. \A q \in Runners : runner[q] # "idle" => runner'[q] # "idle"
  BY DEF ConnInv
<1> QED
  BY <1>1, <1>2, <1>3 DEF ConnInv, NoRequestForgotten, BusyIsRunning

(* A run that sees the flag runs again; one that does not is done. *)
LEMMA LoopOnInv ==
    ASSUME ConnInv, NEW r \in Runners, LoopOn(r)
    PROVE  ConnInv'
<1>1. CASE flag
  BY <1>1, BeginRunInv DEF LoopOn, RunAgain
<1>2. CASE ~flag
  <2>1. runner' = [runner EXCEPT ![r] = "idle"] /\ UNCHANGED <<busy, flag, owed, debounce>>
    BY <1>2 DEF LoopOn, RunAgain
  <2>2. \A q \in Runners : Running(q) => Running(q)'
    BY <2>1 DEF LoopOn, Running, ConnInv
  <2>3. runner' \in [Runners -> RunnerStates]
    BY <2>1 DEF ConnInv, RunnerStates
  <2>4. BusyIsRunning'
    BY <2>1, <2>2 DEF ConnInv, BusyIsRunning
  <2>5. NoRequestForgotten'
    BY <1>2, <2>1 DEF ConnInv, NoRequestForgotten
  <2> QED
    BY <2>1, <2>3, <2>4, <2>5 DEF ConnInv
<1> QED
  BY <1>1, <1>2

(* Heartbeats and the start leave the requests alone. *)
LEMMA NothingOfRequests ==
    ASSUME ConnInv, UNCHANGED <<busy, flag, debounce, runner, owed>>
    PROVE  ConnInv'
BY DEF ConnInv, NoRequestForgotten, BusyIsRunning, Running

(* Every step of the service keeps the invariant. *)
LEMMA ConnNextInv == ConnInv /\ [ConnNext]_connVars => ConnInv'
<1> SUFFICES ASSUME ConnInv, [ConnNext]_connVars PROVE ConnInv'
  OBVIOUS
<1>1. ASSUME NEW r \in Runners, Start(r) \/ CallSyncNow(r) \/ DebounceFires(r) PROVE ConnInv'
  BY <1>1, SyncNowInv DEF Start, CallSyncNow, DebounceFires
<1>2. ASSUME NEW r \in Runners, SyncReturns(r) PROVE ConnInv'
  BY <1>2, RunGoesOn DEF SyncReturns, Running
<1>3. ASSUME NEW r \in Runners, RunsHeartbeatEnds(r) PROVE ConnInv'
  BY <1>3, RunGoesOn DEF RunsHeartbeatEnds, Running
<1>4. ASSUME NEW r \in Runners, HandleFailure(r) PROVE ConnInv'
  BY <1>4, RunGoesOn DEF HandleFailure, Running
<1>5. ASSUME NEW r \in Runners, LoopOn(r) PROVE ConnInv'
  BY <1>5, LoopOnInv
<1>6. CASE InitializeEnds
  BY <1>6, NothingOfRequests DEF InitializeEnds
<1>7. CASE RequestSync
  BY <1>7, RequestedInv DEF RequestSync
<1>8. ASSUME NEW h \in Beats, HeartbeatAnswered(h) PROVE ConnInv'
  <2>1. CASE Requested
    BY <1>8, <2>1, RequestedInv DEF HeartbeatAnswered
  <2>2. CASE UNCHANGED <<debounce, flag, owed>>
    BY <1>8, <2>2, NothingOfRequests DEF HeartbeatAnswered
  <2> QED
    BY <1>8, <2>1, <2>2 DEF HeartbeatAnswered
<1>9. ASSUME NEW h \in Beats,
             HeartbeatFires(h) \/ HeartbeatFails(h) \/ HeartbeatFailureRecorded(h)
      PROVE ConnInv'
  BY <1>9, NothingOfRequests DEF HeartbeatFires, HeartbeatFails, HeartbeatFailureRecorded
<1>10. CASE UNCHANGED connVars
  BY <1>10, NothingOfRequests DEF connVars
<1> QED
  BY <1>1, <1>2, <1>3, <1>4, <1>5, <1>6, <1>7, <1>8, <1>9, <1>10 DEF ConnNext

(* A request to sync is followed by a run that begins after it, or the timer
   or a loop that will begin one is still there. *)
THEOREM RequestsAreKept == ConnSpec => []NoRequestForgotten
<1>1. ConnInit => ConnInv
  BY DEF ConnInit, ConnInv, NoRequestForgotten, BusyIsRunning, RunnerStates
<1>2. ConnInv => NoRequestForgotten
  BY DEF ConnInv
<1> QED
  BY <1>1, <1>2, ConnNextInv, PTL DEF ConnSpec

-----------------------------------------------------------------------------
(* Client import sessions                                                  *)

(* A confirmation starts on an open session that nobody holds. *)
LEMMA ConfirmImportInv ==
    ASSUME ImportInv, NEW c \in Confirms, NEW s \in Imports, ConfirmImport(c, s)
    PROVE  ImportInv'
<1>1. /\ session' = session /\ imports' = imports /\ DOMAIN confirm' = Confirms
      /\ session[s].status = "needs_confirmation"
      /\ confirm'[c].pc = "next" /\ confirm'[c].import = s
      /\ \A d \in Confirms \ {c} : confirm'[d] = confirm[d]
      /\ \A d \in Confirms : confirm[d].pc = "idle" \/ confirm[d].import # s
  BY DEF ConfirmImport, ImportInv, NoneIsImporting, NoConfirm, RowIsFree
<1>2. HeldAlone'
  BY <1>1 DEF ImportInv, HeldAlone
<1>3. HeldIsOpen'
  BY <1>1 DEF ImportInv, HeldIsOpen
<1> QED
  BY <1>1, <1>2, <1>3 DEF ImportInv, ImportedOnce, NoneIsImporting

(* A transaction that goes on, or one that ends without effect. *)
LEMMA HoldersRemain ==
    ASSUME ImportInv, UNCHANGED <<session, imports>>, DOMAIN confirm' = Confirms,
           \A c \in Confirms : \/ confirm'[c].pc = "idle"
                               \/ confirm[c].pc # "idle" /\ confirm'[c].import = confirm[c].import
    PROVE  ImportInv'
<1>1. HeldAlone'
  BY DEF ImportInv, HeldAlone
<1>2. HeldIsOpen'
  BY DEF ImportInv, HeldIsOpen
<1> QED
  BY <1>1, <1>2 DEF ImportInv, ImportedOnce, NoneIsImporting

(* The commit counts one import and completes the session, which nobody else
   holds: what the others hold stays open. *)
LEMMA CommitImportInv ==
    ASSUME ImportInv, NEW c \in Confirms, CommitImport(c)
    PROVE  ImportInv'
<1> DEFINE s == confirm[c].import
<1>1. /\ s \in Imports /\ session[s].status = "needs_confirmation" /\ imports[s] = 0
      /\ confirm[c].pc # "idle"
  BY DEF CommitImport, ImportInv, HeldIsOpen, ImportedOnce
<1>2. /\ session'[s].status = "completed" /\ imports'[s] = 1
      /\ DOMAIN session' = Imports /\ DOMAIN imports' = Imports
      /\ \A t \in Imports \ {s} : session'[t] = session[t] /\ imports'[t] = imports[t]
  BY <1>1 DEF CommitImport, ImportInv
<1>3. /\ DOMAIN confirm' = Confirms /\ confirm'[c].pc = "idle"
      /\ \A d \in Confirms \ {c} : confirm'[d] = confirm[d]
  BY DEF CommitImport, ImportInv, NoConfirm
<1> HIDE DEF s
<1>4. ImportedOnce'
  BY <1>1, <1>2 DEF ImportInv, ImportedOnce
<1>5. HeldAlone'
  BY <1>3 DEF ImportInv, HeldAlone
<1>6. HeldIsOpen'
  <2> SUFFICES ASSUME NEW d \in Confirms, confirm'[d].pc # "idle"
               PROVE /\ confirm'[d].import \in Imports
                     /\ session'[confirm'[d].import].status = "needs_confirmation"
    BY DEF HeldIsOpen
  <2>1. d # c /\ confirm'[d] = confirm[d]
    BY <1>3
  <2>2. confirm[d].import # s
    BY <1>1, <2>1 DEF ImportInv, HeldAlone, s
  <2> QED
    BY <1>2, <2>1, <2>2 DEF ImportInv, HeldIsOpen
<1>7. NoneIsImporting'
  BY <1>1, <1>2 DEF ImportInv, NoneIsImporting
<1> QED
  BY <1>2, <1>3, <1>4, <1>5, <1>6, <1>7 DEF ImportInv

(* Preparing and cancelling concern sessions nobody holds. *)
LEMMA CancelImportInv ==
    ASSUME ImportInv, NEW s \in Imports, CancelImport(s)
    PROVE  ImportInv'
<1>1. CASE MayCancel(s)
  <2>1. /\ session'[s].status = "cancelled" /\ session[s].status # "completed"
        /\ DOMAIN session' = Imports /\ \A t \in Imports \ {s} : session'[t] = session[t]
        /\ UNCHANGED <<imports, confirm>>
    BY <1>1 DEF CancelImport, ImportInv, MayCancel
  <2>2. \A c \in Confirms : confirm[c].pc # "idle" => confirm[c].import # s
    BY DEF CancelImport, RowIsFree
  <2>3. HeldIsOpen'
    BY <2>1, <2>2 DEF ImportInv, HeldIsOpen
  <2> QED
    BY <2>1, <2>3 DEF ImportInv, ImportedOnce, HeldAlone, NoneIsImporting
<1>2. CASE ~MayCancel(s)
  BY <1>2, HoldersRemain DEF CancelImport, ImportInv
<1> QED
  BY <1>1, <1>2

(* A new session is still to be confirmed, and nobody holds it. *)
LEMMA CreateImportInv ==
    ASSUME ImportInv, NEW s \in Imports, CreateLocalSnapshotImport(s)
    PROVE  ImportInv'
<1>1. /\ session'[s].status = "needs_confirmation" /\ session[s].status = "none"
      /\ DOMAIN session' = Imports /\ \A t \in Imports \ {s} : session'[t] = session[t]
      /\ UNCHANGED <<imports, confirm>>
  BY DEF CreateLocalSnapshotImport, ImportInv
<1> QED
  BY <1>1 DEF ImportInv, ImportedOnce, HeldAlone, HeldIsOpen, NoneIsImporting

(* Every step of an import keeps the invariant. *)
LEMMA ImportNextInv == ImportInv /\ [ImportNext]_importVars => ImportInv'
<1> SUFFICES ASSUME ImportInv, [ImportNext]_importVars PROVE ImportInv'
  OBVIOUS
<1>1. ASSUME NEW s \in Imports, CreateLocalSnapshotImport(s) PROVE ImportInv'
  BY <1>1, CreateImportInv
<1>2. ASSUME NEW s \in Imports, CancelImport(s) PROVE ImportInv'
  BY <1>2, CancelImportInv
<1>3. ASSUME NEW c \in Confirms, NEW s \in Imports, ConfirmImport(c, s) PROVE ImportInv'
  BY <1>3, ConfirmImportInv
<1>4. ASSUME NEW c \in Confirms, NEW o \in Imported, ImportLookup(c, o) PROVE ImportInv'
  BY <1>4, HoldersRemain DEF ImportLookup, ImportInv
<1>5. ASSUME NEW c \in Confirms, ImportObject(c) PROVE ImportInv'
  BY <1>5, HoldersRemain DEF ImportObject, ImportInv
<1>6. ASSUME NEW c \in Confirms, CommitImport(c) PROVE ImportInv'
  BY <1>6, CommitImportInv
<1>7. ASSUME NEW c \in Confirms, RollbackImport(c) PROVE ImportInv'
  BY <1>7, HoldersRemain DEF RollbackImport, ImportInv, NoConfirm
<1>8. ASSUME UNCHANGED <<session, imports, confirm>> PROVE ImportInv'
  BY <1>8, HoldersRemain DEF ImportInv
<1> QED
  BY <1>1, <1>2, <1>3, <1>4, <1>5, <1>6, <1>7, <1>8
     DEF ImportNext, UpdateSetting, EditObject, importVars

(* A session is imported once if it is completed and not at all otherwise. *)
THEOREM SessionsImportOnce == ImportSpec => []ImportedOnce
<1>1. ImportInit => ImportInv
  BY DEF ImportInit, ImportInv, ImportedOnce, HeldAlone, HeldIsOpen, NoneIsImporting,
         NoSession, NoConfirm
<1>2. ImportInv => ImportedOnce
  BY DEF ImportInv
<1> QED
  BY <1>1, <1>2, ImportNextInv, PTL DEF ImportSpec

-----------------------------------------------------------------------------
(* Reports and diaries                                                     *)

(* The log of what was confirmed only grows, and what was in it is in it. *)
LEMMA KnownStays ==
    ASSUME FactsInv, logged \subseteq logged', UNCHANGED <<document, generation, polishing>>
    PROVE  FactsInv'
<1>1. Known \subseteq Known'
  BY DEF Known
<1>2. KnownDocument \subseteq KnownDocument'
  BY <1>1 DEF KnownDocument
<1>3. KnownGeneration \subseteq KnownGeneration' /\ KnownPolishing \subseteq KnownPolishing'
  BY <1>1, <1>2 DEF KnownGeneration, KnownPolishing
<1> QED
  BY <1>2, <1>3 DEF FactsInv

(* Nothing is known of what is not there. *)
LEMMA NothingIsKnown ==
    /\ NoFacts \in Known /\ NoDocument \in KnownDocument
    /\ NoGeneration \in KnownGeneration /\ NoPolishing \in KnownPolishing
<1>1. NoFacts \in Known
  BY DEF NoFacts, Known
<1>2. NoDocument \in KnownDocument
  BY <1>1 DEF NoDocument, KnownDocument
<1> QED
  BY <1>1, <1>2 DEF NoGeneration, NoPolishing, KnownGeneration, KnownPolishing, Documents

(* A generation carries facts that were confirmed, from the snapshot to the document. *)
LEMMA GenerationInv ==
    ASSUME FactsInv, logged' = logged, UNCHANGED polishing, NEW g \in Generations,
           \/ \E d \in Documents : Generate(g, d)
           \/ ReadSources(g) \/ UpsertReport(g) \/ InsertEntries(g) \/ UpsertDiary(g)
           \/ RollbackGeneration(g)
    PROVE  FactsInv'
<1> USE NothingIsKnown
<1>1. /\ Known' = Known /\ KnownDocument' = KnownDocument
      /\ KnownGeneration' = KnownGeneration /\ KnownPolishing' = KnownPolishing
  BY DEF Known, KnownDocument, KnownGeneration, KnownPolishing
<1>2. /\ generation[g] \in KnownGeneration /\ generation[g].snapshot \in Known
      /\ generation[g].before \in KnownDocument
      /\ document["report"] \in KnownDocument /\ document["diary"] \in KnownDocument
  BY DEF FactsInv, KnownGeneration, Documents
<1>3. ASSUME document' \in [Documents -> KnownDocument],
             generation' \in [Generations -> KnownGeneration]
      PROVE  FactsInv'
  BY <1>1, <1>3 DEF FactsInv
<1>4. ASSUME NEW d \in Documents, Generate(g, d) PROVE FactsInv'
  <2>1. PICK useLlm \in BOOLEAN :
          generation' = [generation EXCEPT ![g] =
            [NoGeneration EXCEPT !.pc = "read", !.of = d, !.useLlm = useLlm]]
    BY <1>4 DEF Generate
  <2>2. [NoGeneration EXCEPT !.pc = "read", !.of = d, !.useLlm = useLlm] \in KnownGeneration
    BY DEF KnownGeneration
  <2> QED
    BY <1>3, <1>4, <2>1, <2>2 DEF Generate, FactsInv
<1>5. CASE ReadSources(g)
  <2>1. logged \in SUBSET logged /\ Inferred \in SUBSET Activities
    BY DEF Inferred
  <2>2. document' = document /\ SourceSnapshot(g)
    BY <1>5 DEF ReadSources
  <2>3. ASSUME NEW pc \in {"segments", "actuals", "write"}, NEW snapshot \in Known,
               generation' = [generation EXCEPT ![g] = [@ EXCEPT !.pc = pc, !.snapshot = snapshot]]
        PROVE  FactsInv'
    <3>1. [generation[g] EXCEPT !.pc = pc, !.snapshot = snapshot] \in KnownGeneration
      BY <1>2 DEF KnownGeneration
    <3> QED
      BY <1>3, <2>2, <2>3, <3>1 DEF FactsInv
  <2>4. /\ [generation[g].snapshot EXCEPT !.facts = logged] \in Known
        /\ [generation[g].snapshot EXCEPT !.inferred = Inferred] \in Known
    BY <1>2, <2>1 DEF Known
  <2>5. ASSUME NEW pc \in {"segments", "actuals", "write"},
               generation' = [generation EXCEPT ![g].pc = pc, ![g].snapshot.facts = logged]
        PROVE  FactsInv'
    <3> DEFINE snapshot == [generation[g].snapshot EXCEPT !.facts = logged]
    <3>1. generation' = [generation EXCEPT ![g] = [@ EXCEPT !.pc = pc, !.snapshot = snapshot]]
      BY <2>5
    <3> QED
      BY <2>3, <2>4, <3>1
  <2>6. ASSUME NEW pc \in {"segments", "actuals", "write"},
               generation' = [generation EXCEPT ![g].pc = pc, ![g].snapshot.inferred = Inferred]
        PROVE  FactsInv'
    <3> DEFINE snapshot == [generation[g].snapshot EXCEPT !.inferred = Inferred]
    <3>1. generation' = [generation EXCEPT ![g] = [@ EXCEPT !.pc = pc, !.snapshot = snapshot]]
      BY <2>6
    <3> QED
      BY <2>3, <2>4, <3>1
  <2> QED
    BY <2>2, <2>5, <2>6 DEF SourceSnapshot
<1>6. CASE UpsertReport(g)
  <2>1. [generation[g] EXCEPT !.pc = "entries", !.before = document["report"]] \in KnownGeneration
    BY <1>2 DEF KnownGeneration
  <2>2. [document["report"] EXCEPT !.status = "draft", !.snapshot = generation[g].snapshot,
                                   !.text = generation[g].snapshot] \in KnownDocument
    BY <1>2 DEF KnownDocument
  <2>3. /\ generation' = [generation EXCEPT ![g] =
                            [@ EXCEPT !.pc = "entries", !.before = document["report"]]]
        /\ document' = [document EXCEPT !["report"] =
                          [@ EXCEPT !.status = "draft", !.snapshot = generation[g].snapshot,
                                    !.text = generation[g].snapshot]]
    BY <1>6 DEF UpsertReport, EntriesOf
  <2> QED
    BY <1>3, <2>1, <2>2, <2>3 DEF FactsInv
<1>7. AfterWriting(g) \in [Generations -> KnownGeneration]
  BY <1>2 DEF AfterWriting, FactsInv, KnownGeneration
<1>8. CASE InsertEntries(g)
  BY <1>2, <1>3, <1>7, <1>8 DEF InsertEntries, EntriesOf, FactsInv, KnownDocument
<1>9. CASE UpsertDiary(g)
  BY <1>2, <1>3, <1>7, <1>9 DEF UpsertDiary, EntriesOf, FactsInv, KnownDocument
<1>10. CASE RollbackGeneration(g)
  BY <1>2, <1>3, <1>10 DEF RollbackGeneration, FactsInv
<1> QED
  BY <1>4, <1>5, <1>6, <1>8, <1>9, <1>10

(* So do saving, reviewing and polishing a document. *)
LEMMA EditingInv ==
    ASSUME FactsInv, logged' = logged,
           \/ UpdateReport \/ UpdateDiary \/ ConfirmReport \/ ConfirmDiary
           \/ \E p \in Polishings : PolishReport(p) \/ PolishDiary(p) \/ KeepTemplate(p)
                                    \/ RewriteReport(p) \/ RewriteDiary(p)
    PROVE  FactsInv'
<1> USE NothingIsKnown DEF Documents
<1>1. /\ Known' = Known /\ KnownDocument' = KnownDocument
      /\ KnownGeneration' = KnownGeneration /\ KnownPolishing' = KnownPolishing
  BY DEF Known, KnownDocument, KnownGeneration, KnownPolishing
<1>2. \A d \in Documents : /\ document[d] \in KnownDocument /\ document[d].text \in Known
                           /\ document[d].own \in SUBSET {"user_note", "ai_summary"}
  BY DEF FactsInv, KnownDocument
<1>3. ASSUME document' \in [Documents -> KnownDocument],
             generation' \in [Generations -> KnownGeneration],
             polishing' \in [Polishings -> KnownPolishing]
      PROVE  FactsInv'
  BY <1>1, <1>3 DEF FactsInv
<1>4. ASSUME NEW d \in Documents, NEW text \in Known,
             NEW own \in SUBSET {"user_note", "ai_summary"}, Edited(d, text, own)
      PROVE  FactsInv'
  BY <1>2, <1>3, <1>4 DEF Edited, FactsInv, KnownDocument
<1>5. UpdateReport \/ UpdateDiary => FactsInv'
  BY <1>2, <1>4 DEF UpdateReport, UpdateDiary
<1>6. ASSUME NEW d \in Documents, Confirmed(d) PROVE FactsInv'
  BY <1>2, <1>3, <1>6 DEF Confirmed, FactsInv, KnownDocument
<1>7. ASSUME NEW p \in Polishings, NEW d \in Documents, Polish(p, d) PROVE FactsInv'
  <2>1. generation' \in [Generations -> KnownGeneration] /\ document' = document
    BY <1>7 DEF Polish, FactsInv
  <2>2. polishing' = [polishing EXCEPT ![p] = [pc |-> "call", of |-> d, text |-> document[d].text]]
    BY <1>7 DEF Polish
  <2>3. [pc |-> "call", of |-> d, text |-> document[d].text] \in KnownPolishing
    BY <1>2 DEF KnownPolishing
  <2>4. polishing' \in [Polishings -> KnownPolishing]
    BY <2>2, <2>3 DEF FactsInv
  <2> QED
    BY <1>3, <2>1, <2>4 DEF FactsInv
<1>8. ASSUME NEW p \in Polishings, CallOptionalReportLlm(p)
      PROVE  polishing' \in [Polishings -> KnownPolishing]
  BY <1>8 DEF CallOptionalReportLlm, FactsInv
<1>9. ASSUME NEW p \in Polishings, KeepTemplate(p) PROVE FactsInv'
  BY <1>3, <1>8, <1>9 DEF KeepTemplate, FactsInv
<1>10. ASSUME NEW p \in Polishings, NEW d \in Documents, NEW own \in SUBSET {"ai_summary"},
              Rewrite(p, d, own)
       PROVE  FactsInv'
  <2>1. polishing[p].text \in Known
    BY DEF FactsInv, KnownPolishing
  <2>2. document' \in [Documents -> KnownDocument] /\ UNCHANGED generation
    BY <1>2, <1>10, <2>1 DEF Rewrite, FactsInv, KnownDocument
  <2> QED
    BY <1>3, <1>8, <1>10, <2>2 DEF Rewrite, FactsInv
<1> QED
  BY <1>5, <1>6, <1>7, <1>9, <1>10
     DEF ConfirmReport, ConfirmDiary, PolishReport, PolishDiary, RewriteReport, RewriteDiary

(* Every step of the reports keeps the facts confirmed. *)
LEMMA ReportsNextInv == FactsInv /\ [ReportsNext]_reportVars => FactsInv'
<1> SUFFICES ASSUME FactsInv, [ReportsNext]_reportVars PROVE FactsInv'
  OBVIOUS
<1> USE DEF sourceVars, pushVars
<1>1. ASSUME NEW a \in Activities, Review(a) PROVE FactsInv'
  BY <1>1, KnownStays DEF Review
<1>2. CASE \/ \E c \in Channels : UpsertPushChannel(c)
           \/ PushReport
           \/ \E s \in Sends : FetchChannel(s) \/ RecordOutcome(s)
                               \/ \E d \in Deliveries : RetryDelivery(s, d)
           \/ UNCHANGED reportVars
  <2>1. UNCHANGED <<logged, document, generation, polishing>>
    BY <1>2 DEF UpsertPushChannel, PushReport, FetchChannel, RecordOutcome, RetryDelivery, reportVars
  <2> QED
    BY <2>1, KnownStays
<1>3. ASSUME NEW g \in Generations,
             \/ GenerateReport(g) \/ GenerateDiary(g) \/ ReadSources(g)
             \/ UpsertReport(g) \/ InsertEntries(g) \/ UpsertDiary(g) \/ RollbackGeneration(g)
      PROVE  FactsInv'
  <2>1. UNCHANGED <<logged, polishing>>
    BY <1>3 DEF GenerateReport, GenerateDiary, Generate, ReadSources, UpsertReport, InsertEntries,
                UpsertDiary, RollbackGeneration
  <2>2. GenerateReport(g) \/ GenerateDiary(g) => \E d \in Documents : Generate(g, d)
    BY DEF GenerateReport, GenerateDiary, Documents
  <2> QED
    BY <1>3, <2>1, <2>2, GenerationInv
<1>4. CASE \/ UpdateReport \/ UpdateDiary \/ ConfirmReport \/ ConfirmDiary
           \/ \E p \in Polishings : PolishReport(p) \/ PolishDiary(p) \/ KeepTemplate(p)
                                    \/ RewriteReport(p) \/ RewriteDiary(p)
  <2>1. logged' = logged
    BY <1>4 DEF UpdateReport, UpdateDiary, Edited, ConfirmReport, ConfirmDiary, Confirmed,
                PolishReport, PolishDiary, Polish, KeepTemplate, RewriteReport, RewriteDiary, Rewrite
  <2> QED
    BY <1>4, <2>1, EditingInv
<1> QED
  BY <1>1, <1>2, <1>3, <1>4 DEF ReportsNext

(* No report and no diary calls a fact what the user never confirmed, whatever its
   sources became while they were read, and whatever a late polishing wrote back. *)
THEOREM FactsWereConfirmed == ReportsSpec => []FactsAreConfirmed
<1>1. ReportsInit => FactsInv
  BY NothingIsKnown DEF ReportsInit, FactsInv
<1>2. FactsInv => FactsAreConfirmed
  BY DEF FactsInv, KnownDocument, Known, FactsAreConfirmed
<1> QED
  BY <1>1, <1>2, ReportsNextInv, PTL DEF ReportsSpec

-----------------------------------------------------------------------------
(* File versions                                                           *)

(* kopia writes what is not the user's, and leaves something there when it says it did. *)
LEMMA RestoreInv ==
    ASSUME CopiesInv, NEW c \in Copies, Restore(c)
    PROVE  CopiesInv'
<1> DEFINE t == copy[c].target
<1>1. /\ t \in CopyTargets /\ disk[t] # "user" /\ copy[c].pc = "restore"
      /\ UNCHANGED <<copyRow, putFiles>>
  BY DEF Restore, CopiesInv
<1>2. /\ DOMAIN copy' = Copies /\ copy'[c].target = t
      /\ copy'[c].pc \in {"completed", "failed"}
      /\ \A d \in Copies \ {c} : copy'[d] = copy[d]
  <2>1. \E pc \in {"completed", "failed"} : copy' = [copy EXCEPT ![c].pc = pc]
    BY DEF Restore
  <2> QED
    BY <2>1 DEF CopiesInv
<1>3. /\ DOMAIN disk' = CopyTargets /\ \A u \in CopyTargets \ {t} : disk'[u] = disk[u]
      /\ disk'[t] # "user" /\ (disk[t] # "none" => disk'[t] # "none")
      /\ copy'[c].pc = "completed" => disk'[t] = "copy"
  <2>1. CASE disk' = [disk EXCEPT ![t] = "copy"]
    BY <1>1, <2>1 DEF CopiesInv
  <2>2. CASE disk' = [disk EXCEPT ![t] = "part"] /\ copy'[c].pc = "failed"
    BY <1>1, <2>2 DEF CopiesInv
  <2>3. CASE disk' = disk /\ copy'[c].pc = "failed"
    BY <1>1, <2>3 DEF CopiesInv
  <2>4. \/ disk' = [disk EXCEPT ![t] = "copy"]
        \/ copy' = [copy EXCEPT ![c].pc = "failed"] /\ disk' \in {disk, [disk EXCEPT ![t] = "part"]}
    BY DEF Restore
  <2>5. copy' = [copy EXCEPT ![c].pc = "failed"] => copy'[c].pc = "failed"
    BY DEF CopiesInv
  <2> QED
    BY <2>1, <2>2, <2>3, <2>4, <2>5
<1> HIDE DEF t
<1>4. \A u \in CopyTargets : /\ disk[u] # "user" => disk'[u] # "user"
                             /\ disk[u] \notin {"none", "user"} => disk'[u] \notin {"none", "user"}
  BY <1>1, <1>3
<1>5. \A u \in putFiles : disk'[u] = "user"
  BY <1>1, <1>3 DEF CopiesInv, CopiesKeepFiles
<1> QED
  BY <1>1, <1>2, <1>3, <1>4, <1>5 DEF CopiesInv, CopiesKeepFiles

(* A file of the user's takes the place of nothing. *)
LEMMA PutFileInv ==
    ASSUME CopiesInv, NEW t \in CopyTargets, PutFile(t)
    PROVE  CopiesInv'
  BY DEF PutFile, CopiesInv, CopiesKeepFiles

(* A copy begins, looks at its target, ends; its row is written at the end. *)
LEMMA CopyInv ==
    ASSUME CopiesInv, NEW c \in Copies,
           \/ CreateVersionDownloadRequest(c) \/ StatTarget(c) \/ CommitCopy(c) \/ LoseCopy(c)
           \/ \E u \in VersionUids, t \in CopyTargets : BeginCopy(c, u, t)
    PROVE  CopiesInv'
<1>1. CASE CreateVersionDownloadRequest(c)
  BY <1>1 DEF CreateVersionDownloadRequest, CopiesInv, CopiesKeepFiles
<1>2. CASE StatTarget(c)
  BY <1>2 DEF StatTarget, TargetIsFree, CopiesInv, CopiesKeepFiles
<1>3. CASE CommitCopy(c)
  BY <1>3 DEF CommitCopy, NoCopy, CopiesInv, CopiesKeepFiles
<1>4. CASE LoseCopy(c)
  BY <1>4 DEF LoseCopy, NoCopy, CopiesInv, CopiesKeepFiles
<1>5. ASSUME NEW u \in VersionUids, NEW t \in CopyTargets, BeginCopy(c, u, t) PROVE CopiesInv'
  BY <1>5 DEF BeginCopy, CopiesInv, CopiesKeepFiles
<1> QED
  BY <1>1, <1>2, <1>3, <1>4, <1>5

(* Every step keeps kopia away from the targets where a file of the user's is. *)
LEMMA VersionsNextInv == CopiesInv /\ [VersionsNext]_versionVars => CopiesInv'
<1> SUFFICES ASSUME CopiesInv, [VersionsNext]_versionVars PROVE CopiesInv'
  OBVIOUS
<1>1. CASE UNCHANGED <<copy, copyRow, disk, putFiles>>
  BY <1>1 DEF CopiesInv, CopiesKeepFiles
<1>2. CASE \/ \E f \in VersionedFiles, s \in SnapshotIds : CreateKopiaSnapshot(f, s)
           \/ \E l \in Listings : \/ RefreshEnds(l)
                                  \/ \E f \in VersionedFiles : ListSnapshots(l, f)
                                  \/ \E v \in VersionUids : SaveVersion(l, v)
           \/ \E k \in FileConflicts : CreateFileConflict(k) \/ ResolveFileConflict(k)
           \/ UNCHANGED versionVars
  BY <1>1, <1>2 DEF CreateKopiaSnapshot, RefreshEnds, ListSnapshots, SaveVersion,
                    CreateFileConflict, ResolveFileConflict, versionVars
<1> QED
  BY <1>2, RestoreInv, PutFileInv, CopyInv DEF VersionsNext

(* Whatever targets copies share, and whatever fails, ends or is lost on the way, no copy
   takes the place of a file the user put, and a request that reads 'completed' has a
   file at its target. *)
THEOREM UserFilesAreKept == VersionsSpec => []CopiesKeepFiles
<1>1. VersionsInit => CopiesInv
  BY DEF VersionsInit, CopiesInv, CopiesKeepFiles, NoCopy, NoRow
<1>2. CopiesInv => CopiesKeepFiles
  BY DEF CopiesInv
<1> QED
  BY <1>1, <1>2, VersionsNextInv, PTL DEF VersionsSpec

-----------------------------------------------------------------------------
(* Activity segments                                                       *)

(* A step that leaves the builds alone, and that changes the status of no
   segment a transaction holds, except to that of a candidate. *)
LEMMA SegmentsChange ==
    ASSUME LocksInv, UNCHANGED build,
           \A u \in DOMAIN segments' :
             /\ segments'[u] = [row |-> segments'[u].row, status |-> segments'[u].status,
                                start |-> segments'[u].start, end |-> segments'[u].end,
                                task |-> segments'[u].task]
             /\ \/ segments'[u].status = "candidate"
                \/ u \in DOMAIN segments /\ segments'[u].status = segments[u].status
                \/ Unheld(u)
    PROVE  LocksInv'
<1>1. \A b \in Builds, u \in DOMAIN segments' :
         segments'[u].status # "candidate" =>
           /\ u \notin build[b].deleted
           /\ u \in DOMAIN build[b].puts => build[b].puts[u].status # "candidate"
  BY DEF LocksInv, Unheld, Locks
<1> QED
  BY <1>1 DEF LocksInv, Locks

(* What a transaction holds when it ends is nothing. *)
LEMMA BuildEnds ==
    ASSUME LocksInv, NEW b \in Builds, build' = [build EXCEPT ![b] = NoBuild],
           \A u \in DOMAIN segments' :
             /\ segments'[u] = [row |-> segments'[u].row, status |-> segments'[u].status,
                                start |-> segments'[u].start, end |-> segments'[u].end,
                                task |-> segments'[u].task]
             /\ \/ segments'[u].status = "candidate"
                \/ u \in DOMAIN segments /\ segments'[u].status = segments[u].status
                \/ \A c \in Builds \ {b} : u \notin Locks(c)
    PROVE  LocksInv'
<1>1. DOMAIN build' = Builds /\ \A c \in Builds \ {b} : build'[c] = build[c]
  BY DEF LocksInv
<1>2. /\ build'[b] = [pc |-> "idle", rebuild |-> FALSE, built |-> <<>>, deleted |-> {},
                      puts |-> <<>>]
      /\ build'[b].deleted = {} /\ DOMAIN build'[b].puts = {}
  BY DEF LocksInv, NoBuild
<1>3. \A c, e \in Builds : c # e =>
         (build'[c].deleted \cup DOMAIN build'[c].puts) \cap
           (build'[e].deleted \cup DOMAIN build'[e].puts) = {}
  BY <1>1, <1>2 DEF LocksInv, Locks
<1>4. ASSUME NEW c \in Builds, NEW u \in DOMAIN segments', segments'[u].status # "candidate"
      PROVE  /\ u \notin build'[c].deleted
             /\ u \in DOMAIN build'[c].puts => build'[c].puts[u].status # "candidate"
  <2>1. CASE c = b
    BY <1>2, <2>1
  <2>2. CASE c # b
    BY <1>1, <1>4, <2>2 DEF LocksInv, Locks
  <2> QED
    BY <2>1, <2>2
<1>5. \A c \in Builds :
         build'[c] = [pc |-> build'[c].pc, rebuild |-> build'[c].rebuild,
                      built |-> build'[c].built, deleted |-> build'[c].deleted,
                      puts |-> build'[c].puts]
  BY <1>1, <1>2 DEF LocksInv
<1>6. \A c \in Builds : \A u \in DOMAIN build'[c].puts :
         build'[c].puts[u] = [row |-> build'[c].puts[u].row, status |-> build'[c].puts[u].status,
                              start |-> build'[c].puts[u].start, end |-> build'[c].puts[u].end,
                              task |-> build'[c].puts[u].task]
  BY <1>1, <1>2 DEF LocksInv
<1> QED
  BY <1>1, <1>3, <1>4, <1>5, <1>6 DEF LocksInv, Locks

(* A transaction takes rows no other holds; what it writes of a decided segment
   keeps the decision. *)
LEMMA BuildGoesOn ==
    ASSUME LocksInv, NEW b \in Builds, UNCHANGED segments, NEW record,
           build' = [build EXCEPT ![b] = record],
           record = [pc |-> record.pc, rebuild |-> record.rebuild, built |-> record.built,
                     deleted |-> record.deleted, puts |-> record.puts],
           \A c \in Builds \ {b} :
             (record.deleted \cup DOMAIN record.puts) \cap Locks(c) = {},
           \A u \in DOMAIN segments : segments[u].status # "candidate" =>
             /\ u \notin record.deleted
             /\ u \in DOMAIN record.puts => record.puts[u].status # "candidate",
           \A u \in DOMAIN record.puts :
             record.puts[u] = [row |-> record.puts[u].row, status |-> record.puts[u].status,
                               start |-> record.puts[u].start, end |-> record.puts[u].end,
                               task |-> record.puts[u].task]
    PROVE  LocksInv'
<1>1. DOMAIN build' = Builds /\ build'[b] = record /\ \A c \in Builds \ {b} : build'[c] = build[c]
  BY DEF LocksInv
<1>2. \A c, e \in Builds : c # e =>
         (build'[c].deleted \cup DOMAIN build'[c].puts) \cap
           (build'[e].deleted \cup DOMAIN build'[e].puts) = {}
  BY <1>1 DEF LocksInv, Locks
<1>3. \A c \in Builds, u \in DOMAIN segments :
         segments[u].status # "candidate" =>
           /\ u \notin build'[c].deleted
           /\ u \in DOMAIN build'[c].puts => build'[c].puts[u].status # "candidate"
  BY <1>1 DEF LocksInv
<1>4. \A c \in Builds :
         build'[c] = [pc |-> build'[c].pc, rebuild |-> build'[c].rebuild,
                      built |-> build'[c].built, deleted |-> build'[c].deleted,
                      puts |-> build'[c].puts]
  BY <1>1 DEF LocksInv
<1>5. \A c \in Builds : \A u \in DOMAIN build'[c].puts :
         build'[c].puts[u] = [row |-> build'[c].puts[u].row, status |-> build'[c].puts[u].status,
                              start |-> build'[c].puts[u].start, end |-> build'[c].puts[u].end,
                              task |-> build'[c].puts[u].task]
  BY <1>1 DEF LocksInv
<1> QED
  BY <1>1, <1>2, <1>3, <1>4, <1>5 DEF LocksInv, Locks

(* The DELETE of a build takes candidates only. *)
LEMMA DeleteCandidatesInv ==
    ASSUME LocksInv, NEW b \in Builds, DeleteCandidates(b)
    PROVE  LocksInv'
<1> DEFINE gone == IF build[b].rebuild THEN Discarded ELSE {}
           first == [build[b] EXCEPT !.pc = "put"]
           record == [first EXCEPT !.deleted = gone]
<1>1. build' = [build EXCEPT ![b] = record] /\ UNCHANGED segments
  BY DEF DeleteCandidates
<1>2. \A u \in gone : segments[u].status = "candidate" /\ ~Held(u, b)
  BY DEF DeleteCandidates, Discarded
<1> HIDE DEF gone
<1>3. build[b] = [pc |-> build[b].pc, rebuild |-> build[b].rebuild, built |-> build[b].built,
                  deleted |-> build[b].deleted, puts |-> build[b].puts]
  BY DEF LocksInv
<1>4. first = [pc |-> "put", rebuild |-> build[b].rebuild, built |-> build[b].built,
               deleted |-> build[b].deleted, puts |-> build[b].puts]
  BY <1>3
<1> HIDE DEF first
<1>5. record = [pc |-> "put", rebuild |-> build[b].rebuild, built |-> build[b].built,
                deleted |-> gone, puts |-> build[b].puts]
  BY <1>4
<1> HIDE DEF record
<1>6. record.deleted = gone /\ record.puts = build[b].puts
  BY <1>5
<1>7. record = [pc |-> record.pc, rebuild |-> record.rebuild, built |-> record.built,
                deleted |-> record.deleted, puts |-> record.puts]
  BY <1>5
<1>8. \A c \in Builds \ {b} : (record.deleted \cup DOMAIN record.puts) \cap Locks(c) = {}
  BY <1>2, <1>6 DEF LocksInv, Locks, Held
<1>9. \A u \in DOMAIN segments : segments[u].status # "candidate" =>
             /\ u \notin record.deleted
             /\ u \in DOMAIN record.puts => record.puts[u].status # "candidate"
  BY <1>2, <1>6 DEF LocksInv
<1>10. \A u \in DOMAIN record.puts :
             record.puts[u] = [row |-> record.puts[u].row, status |-> record.puts[u].status,
                               start |-> record.puts[u].start, end |-> record.puts[u].end,
                               task |-> record.puts[u].task]
  BY <1>6 DEF LocksInv
<1> QED
  BY <1>1, <1>7, <1>8, <1>9, <1>10, BuildGoesOn

(* The upsert of a build changes a candidate, or adds one. *)
LEMMA UpsertSegmentInv ==
    ASSUME LocksInv, NEW b \in Builds, UpsertSegment(b)
    PROVE  LocksInv'
<1> DEFINE s == Head(build[b].built)
           uid == s.uid
           put == Put(s, b)
           puts == With(build[b].puts, uid, put)
           rest == Tail(build[b].built)
           first == [build[b] EXCEPT !.built = rest]
           record == [first EXCEPT !.puts = puts]
<1>1. build' = [build EXCEPT ![b] = record] /\ UNCHANGED segments /\ ~Held(uid, b)
  BY DEF UpsertSegment
<1>2. /\ put = [row |-> put.row, status |-> put.status, start |-> put.start, end |-> put.end,
                task |-> put.task]
      /\ put.status = IF Kept(uid, b) THEN segments[uid].status ELSE "candidate"
  BY DEF Put
<1> HIDE DEF s, uid, put, rest
<1>3. /\ DOMAIN puts = DOMAIN build[b].puts \cup {uid} /\ puts[uid] = put
      /\ \A u \in DOMAIN build[b].puts \ {uid} : puts[u] = build[b].puts[u]
  BY DEF With
<1> HIDE DEF puts
<1>4. build[b] = [pc |-> build[b].pc, rebuild |-> build[b].rebuild, built |-> build[b].built,
                  deleted |-> build[b].deleted, puts |-> build[b].puts]
  BY DEF LocksInv
<1>5. first = [pc |-> build[b].pc, rebuild |-> build[b].rebuild, built |-> rest,
               deleted |-> build[b].deleted, puts |-> build[b].puts]
  BY <1>4
<1> HIDE DEF first
<1>6. record = [pc |-> build[b].pc, rebuild |-> build[b].rebuild, built |-> rest,
                deleted |-> build[b].deleted, puts |-> puts]
  BY <1>5
<1> HIDE DEF record
<1>7. record.deleted = build[b].deleted /\ record.puts = puts
  BY <1>6
<1>8. record = [pc |-> record.pc, rebuild |-> record.rebuild, built |-> record.built,
                deleted |-> record.deleted, puts |-> record.puts]
  BY <1>6
<1>9. \A c \in Builds \ {b} : (record.deleted \cup DOMAIN record.puts) \cap Locks(c) = {}
  BY <1>1, <1>3, <1>7 DEF LocksInv, Locks, Held
<1>10. \A u \in DOMAIN segments : segments[u].status # "candidate" =>
             /\ u \notin record.deleted
             /\ u \in DOMAIN record.puts => record.puts[u].status # "candidate"
  BY <1>2, <1>3, <1>7 DEF LocksInv, Kept
<1>11. \A u \in DOMAIN record.puts :
             record.puts[u] = [row |-> record.puts[u].row, status |-> record.puts[u].status,
                               start |-> record.puts[u].start, end |-> record.puts[u].end,
                               task |-> record.puts[u].task]
  <2> SUFFICES ASSUME NEW u \in DOMAIN puts
               PROVE  puts[u] = [row |-> puts[u].row, status |-> puts[u].status,
                                 start |-> puts[u].start, end |-> puts[u].end,
                                 task |-> puts[u].task]
    BY <1>7
  <2>1. CASE u = uid
    BY <1>2, <1>3, <2>1
  <2>2. CASE u # uid
    BY <1>3, <2>2 DEF LocksInv
  <2> QED
    BY <2>1, <2>2
<1> QED
  BY <1>1, <1>8, <1>9, <1>10, <1>11, BuildGoesOn

(* What a build commits of a segment: what it put there, or nothing. *)
LEMMA CommitWrites ==
    ASSUME LocksInv, NEW b \in Builds, CommitBuild(b), NEW u
    PROVE  /\ u \in DOMAIN segments \ build[b].deleted => u \in DOMAIN segments'
           /\ u \in DOMAIN segments' =>
                /\ u \in DOMAIN segments \/ u \in DOMAIN build[b].puts
                /\ segments'[u] = [row |-> segments'[u].row, status |-> segments'[u].status,
                                   start |-> segments'[u].start, end |-> segments'[u].end,
                                   task |-> segments'[u].task]
                /\ u \notin DOMAIN build[b].puts => segments'[u] = segments[u]
                /\ u \in DOMAIN build[b].puts => segments'[u].status = build[b].puts[u].status
<1> DEFINE puts == build[b].puts
<1>1. segments' = [v \in (DOMAIN segments \ build[b].deleted) \cup DOMAIN puts |->
                     IF v \notin DOMAIN puts THEN segments[v]
                     ELSE IF puts[v].row # 0 THEN puts[v]
                     ELSE [puts[v] EXCEPT !.row = lastRow + 1]]
  BY DEF CommitBuild
<1>2. ASSUME u \in DOMAIN puts
      PROVE  /\ puts[u] = [row |-> puts[u].row, status |-> puts[u].status, start |-> puts[u].start,
                           end |-> puts[u].end, task |-> puts[u].task]
             /\ [puts[u] EXCEPT !.row = lastRow + 1] =
                  [row |-> lastRow + 1, status |-> puts[u].status, start |-> puts[u].start,
                   end |-> puts[u].end, task |-> puts[u].task]
  <2>1. puts[u] = [row |-> puts[u].row, status |-> puts[u].status, start |-> puts[u].start,
                   end |-> puts[u].end, task |-> puts[u].task]
    BY <1>2 DEF LocksInv
  <2> QED
    BY <2>1
<1> HIDE DEF puts
<1>3. CASE u \in DOMAIN puts
  <2>1. u \in DOMAIN segments' /\ segments'[u] \in {puts[u], [puts[u] EXCEPT !.row = lastRow + 1]}
    BY <1>1, <1>3
  <2> QED
    BY <1>2, <1>3, <2>1 DEF puts
<1>4. CASE u \notin DOMAIN puts
  BY <1>1, <1>4 DEF puts, LocksInv
<1> QED
  BY <1>3, <1>4

(* COMMIT of a build publishes what the build wrote under its locks. *)
LEMMA CommitBuildInv ==
    ASSUME LocksInv, NEW b \in Builds, CommitBuild(b)
    PROVE  LocksInv'
<1>1. build' = [build EXCEPT ![b] = NoBuild]
  BY DEF CommitBuild
<1>2. \A u \in DOMAIN segments' :
         /\ segments'[u] = [row |-> segments'[u].row, status |-> segments'[u].status,
                            start |-> segments'[u].start, end |-> segments'[u].end,
                            task |-> segments'[u].task]
         /\ \/ segments'[u].status = "candidate"
            \/ u \in DOMAIN segments /\ segments'[u].status = segments[u].status
            \/ \A c \in Builds \ {b} : u \notin Locks(c)
  BY CommitWrites DEF LocksInv, Locks
<1> QED
  BY <1>1, <1>2, BuildEnds

(* A build that begins, or that goes back, holds nothing. *)
LEMMA BuildSegmentsInv ==
    ASSUME LocksInv, NEW b \in Builds, BuildSegments(b)
    PROVE  LocksInv'
<1>1. PICK rebuild \in BOOLEAN, t \in WorkedTasks \cup {"none"} :
         LET merged == MergeActivities(ReadRawActivities)
         IN  build' = [build EXCEPT ![b] =
               [NoBuild EXCEPT !.pc = "clean", !.rebuild = rebuild,
                  !.built = [i \in DOMAIN merged |->
                               CHOOSE s \in MatchTask(merged[i]) : s.task = t]]]
  BY DEF BuildSegments
<1> DEFINE merged == MergeActivities(ReadRawActivities)
           built == [i \in DOMAIN merged |-> CHOOSE s \in MatchTask(merged[i]) : s.task = t]
           record == [pc |-> "clean", rebuild |-> rebuild, built |-> built, deleted |-> {},
                      puts |-> <<>>]
<1>2. build' = [build EXCEPT ![b] = [NoBuild EXCEPT !.pc = "clean", !.rebuild = rebuild,
                                                    !.built = built]]
  BY <1>1, Zenon
<1> HIDE DEF built, merged
<1> DEFINE first == [NoBuild EXCEPT !.pc = "clean"]
           second == [first EXCEPT !.rebuild = rebuild]
<1>10. NoBuild = [pc |-> NoBuild.pc, rebuild |-> NoBuild.rebuild, built |-> NoBuild.built,
                  deleted |-> NoBuild.deleted, puts |-> NoBuild.puts]
  BY DEF NoBuild
<1>9. NoBuild.deleted = {} /\ NoBuild.puts = <<>>
  BY DEF NoBuild
<1>6. first = [pc |-> "clean", rebuild |-> NoBuild.rebuild, built |-> NoBuild.built,
               deleted |-> NoBuild.deleted, puts |-> NoBuild.puts]
  BY <1>10
<1> HIDE DEF first
<1>7. second = [pc |-> "clean", rebuild |-> rebuild, built |-> NoBuild.built,
                deleted |-> NoBuild.deleted, puts |-> NoBuild.puts]
  BY <1>6
<1> HIDE DEF second
<1>8. [second EXCEPT !.built = built] =
        [pc |-> "clean", rebuild |-> rebuild, built |-> built,
         deleted |-> NoBuild.deleted, puts |-> NoBuild.puts]
  BY <1>7
<1>3. [NoBuild EXCEPT !.pc = "clean", !.rebuild = rebuild, !.built = built] = record
  BY <1>8, <1>9, Zenon DEF first, second, record
<1>4. build' = [build EXCEPT ![b] = record] /\ UNCHANGED segments
  BY <1>2, <1>3 DEF BuildSegments
<1>5. /\ record = [pc |-> record.pc, rebuild |-> record.rebuild, built |-> record.built,
                   deleted |-> record.deleted, puts |-> record.puts]
      /\ record.deleted = {} /\ DOMAIN record.puts = {}
  OBVIOUS
<1> HIDE DEF record
<1> QED
  BY <1>4, <1>5, BuildGoesOn

(* The users' requests change the status of segments nobody holds. *)
LEMMA ConfirmationWrites ==
    ASSUME LocksInv, NEW c \in Reviews, WriteConfirmation(c), NEW u \in DOMAIN segments
    PROVE  /\ DOMAIN segments' = DOMAIN segments
           /\ \/ segments'[u] = segments[u]
              \/ /\ Unheld(u) /\ segments'[u].status = "confirmed"
                 /\ segments'[u] = [row |-> segments'[u].row, status |-> segments'[u].status,
                                    start |-> segments'[u].start, end |-> segments'[u].end,
                                    task |-> segments'[u].task]
<1> DEFINE r == review[c]
           uid == r.uid
           task == IF r.task = "none" THEN segments[uid].task ELSE r.task
           first == [segments[uid] EXCEPT !.status = "confirmed"]
           record == [first EXCEPT !.task = task]
<1>1. \/ UNCHANGED segments
      \/ segments' = [segments EXCEPT ![uid] = record] /\ Unheld(uid) /\ uid \in DOMAIN segments
  BY DEF WriteConfirmation, StillThere
<1> HIDE DEF task
<1>2. ASSUME uid \in DOMAIN segments
      PROVE  record = [row |-> segments[uid].row, status |-> "confirmed",
                       start |-> segments[uid].start, end |-> segments[uid].end, task |-> task]
  <2>1. segments[uid] = [row |-> segments[uid].row, status |-> segments[uid].status,
                         start |-> segments[uid].start, end |-> segments[uid].end,
                         task |-> segments[uid].task]
    BY <1>2 DEF LocksInv
  <2> HIDE DEF uid
  <2>2. first = [row |-> segments[uid].row, status |-> "confirmed",
                 start |-> segments[uid].start, end |-> segments[uid].end,
                 task |-> segments[uid].task]
    BY <2>1
  <2> HIDE DEF first
  <2> QED
    BY <2>2
<1> HIDE DEF record, uid, first
<1>3. CASE segments' = [segments EXCEPT ![uid] = record] /\ Unheld(uid) /\ uid \in DOMAIN segments
  BY <1>2, <1>3
<1> QED
  BY <1>1, <1>3

(* Marking a segment leaves everything but its status. *)
LEMMA MarkWrites ==
    ASSUME LocksInv, NEW u \in DOMAIN segments, NEW status
    PROVE  [segments[u] EXCEPT !.status = status] =
             [row |-> segments[u].row, status |-> status, start |-> segments[u].start,
              end |-> segments[u].end, task |-> segments[u].task]
<1>1. segments[u] = [row |-> segments[u].row, status |-> segments[u].status,
                     start |-> segments[u].start, end |-> segments[u].end,
                     task |-> segments[u].task]
  BY DEF LocksInv
<1> QED
  BY <1>1

(* A merge adds a candidate and marks as merged only rows that no transaction holds. *)
LEMMA MergeWrites ==
    ASSUME LocksInv, NEW u \in DOMAIN segments, NEW v \in DOMAIN segments, MergeSegments(u, v),
           NEW w \in DOMAIN segments'
    PROVE  /\ w \in DOMAIN segments \/ segments'[w].status = "candidate"
           /\ w \in DOMAIN segments =>
                \/ segments'[w] = segments[w]
                \/ Unheld(w) /\ segments'[w].status = "merged"
           /\ segments'[w] = [row |-> segments'[w].row, status |-> segments'[w].status,
                              start |-> segments'[w].start, end |-> segments'[w].end,
                              task |-> segments'[w].task]
           /\ DOMAIN segments \subseteq DOMAIN segments'
<1> DEFINE end == IF segments[u].end > segments[v].end THEN segments[u].end ELSE segments[v].end
           new == [row |-> lastRow + 1, status |-> "candidate", start |-> segments[u].start,
                   end |-> end, task |-> "none"]
           uid == MergedUid(u, v)
           markU == [segments[u] EXCEPT !.status = "merged"]
           one == [segments EXCEPT ![u] = markU]
           markV == [one[v] EXCEPT !.status = "merged"]
           both == [one EXCEPT ![v] = markV]
<1>1. /\ segments' = With(both, uid, new) /\ uid \notin DOMAIN segments
      /\ Unheld(u) /\ Unheld(v)
  BY DEF MergeSegments
<1>3. markU = [row |-> segments[u].row, status |-> "merged", start |-> segments[u].start,
               end |-> segments[u].end, task |-> segments[u].task]
  BY MarkWrites
<1>4. \/ u # v /\ one[v] = segments[v]
      \/ u = v /\ one[v] = markU
  OBVIOUS
<1>5. markV = [row |-> segments[v].row, status |-> "merged", start |-> segments[v].start,
               end |-> segments[v].end, task |-> segments[v].task]
  <2>1. CASE u # v
    BY <1>4, <2>1, MarkWrites
  <2>2. CASE u = v
    <3>1. markV = [markU EXCEPT !.status = "merged"]
      BY <1>4, <2>2
    <3> HIDE DEF markU, markV
    <3> QED
      BY <1>3, <2>2, <3>1
  <2> QED
    BY <2>1, <2>2
<1> HIDE DEF end, uid, markU, markV
<1>6. /\ DOMAIN both = DOMAIN segments /\ both[v] = markV
      /\ u # v => both[u] = markU
      /\ \A x \in DOMAIN segments \ {u, v} : both[x] = segments[x]
  OBVIOUS
<1> HIDE DEF both, new
<1>7. /\ DOMAIN segments' = DOMAIN segments \cup {uid} /\ segments'[uid] = new
      /\ \A x \in DOMAIN segments : segments'[x] = both[x]
  BY <1>1, <1>6 DEF With
<1>8. CASE w \notin DOMAIN segments
  BY <1>7, <1>8 DEF new
<1>9. CASE w \in {u, v}
  BY <1>1, <1>3, <1>5, <1>6, <1>7, <1>9
<1>10. CASE w \in DOMAIN segments \ {u, v}
  BY <1>6, <1>7, <1>10 DEF LocksInv
<1> QED
  BY <1>7, <1>8, <1>9, <1>10

(* Every step keeps a segment a build holds as the build saw it. *)
LEMMA ActivityNextInv == LocksInv /\ [ActivityNext]_activityVars => LocksInv'
<1> SUFFICES ASSUME LocksInv, [ActivityNext]_activityVars PROVE LocksInv'
  OBVIOUS
<1>1. ASSUME NEW b \in Builds, RollbackBuild(b) PROVE LocksInv'
  <2>1. build' = [build EXCEPT ![b] = NoBuild] /\ segments' = segments
    BY <1>1 DEF RollbackBuild
  <2>2. \A u \in DOMAIN segments' :
          /\ segments'[u] = [row |-> segments'[u].row, status |-> segments'[u].status,
                             start |-> segments'[u].start, end |-> segments'[u].end,
                             task |-> segments'[u].task]
          /\ u \in DOMAIN segments /\ segments'[u].status = segments[u].status
    BY <2>1 DEF LocksInv
  <2>. QED
    BY <2>1, <2>2, BuildEnds
<1>2. ASSUME NEW c \in Reviews, WriteConfirmation(c) PROVE LocksInv'
  <2>1. UNCHANGED build /\ DOMAIN segments' \subseteq DOMAIN segments
    BY <1>2, ConfirmationWrites DEF WriteConfirmation
  <2> QED
    BY <1>2, <2>1, ConfirmationWrites, SegmentsChange DEF LocksInv
<1>3. ASSUME NEW u \in DOMAIN segments, RejectSegment(u) PROVE LocksInv'
  <2> DEFINE mark == [segments[u] EXCEPT !.status = "rejected"]
  <2>1. segments' = [segments EXCEPT ![u] = mark] /\ UNCHANGED build /\ Unheld(u)
    BY <1>3 DEF RejectSegment
  <2>2. mark = [row |-> segments[u].row, status |-> "rejected", start |-> segments[u].start,
                end |-> segments[u].end, task |-> segments[u].task]
    BY MarkWrites
  <2> HIDE DEF mark
  <2> QED
    BY <2>1, <2>2, SegmentsChange DEF LocksInv
<1>4. ASSUME NEW u \in DOMAIN segments, NEW v \in DOMAIN segments, MergeSegments(u, v)
      PROVE  LocksInv'
  <2>1. UNCHANGED build
    BY <1>4 DEF MergeSegments
  <2> QED
    BY <1>4, <2>1, MergeWrites, SegmentsChange
<1>5. CASE UNCHANGED <<build, segments>>
  BY <1>5 DEF LocksInv, Locks
<1>6. ASSUME NEW c \in Reviews, NEW u, ConfirmSegment(c, u) PROVE UNCHANGED <<build, segments>>
  BY <1>6 DEF ConfirmSegment
<1>7. ASSUME NEW r, RawArrives(r) PROVE UNCHANGED <<build, segments>>
  BY <1>7 DEF RawArrives
<1>8. CASE UNCHANGED activityVars
  BY <1>5, <1>8 DEF activityVars
<1> QED
  BY <1>1, <1>2, <1>3, <1>4, <1>5, <1>6, <1>7, <1>8, BuildSegmentsInv, DeleteCandidatesInv,
     UpsertSegmentInv, CommitBuildInv DEF ActivityNext

(* What the user decided of a segment stays decided, whatever builds and rebuilds ran
   beside the decision. *)
THEOREM DecisionsLast == ActivitySpec => DecisionsSurvive
<1>1. ASSUME ActivityInit PROVE LocksInv
  <2>1. /\ DOMAIN build = Builds /\ DOMAIN segments = {}
        /\ \A b \in Builds : build[b] = NoBuild
    BY <1>1 DEF ActivityInit, NoRows
  <2>2. /\ NoBuild.deleted = {} /\ DOMAIN NoBuild.puts = {}
        /\ NoBuild = [pc |-> NoBuild.pc, rebuild |-> NoBuild.rebuild, built |-> NoBuild.built,
                      deleted |-> NoBuild.deleted, puts |-> NoBuild.puts]
    BY DEF NoBuild
  <2> QED
    BY <2>1, <2>2 DEF LocksInv, Locks
<1>2. ASSUME LocksInv, [ActivityNext]_activityVars, segments' # segments
      PROVE  \A u \in DOMAIN segments : segments[u].status # "candidate" =>
               u \in DOMAIN segments' /\ segments'[u].status # "candidate"
  <2> SUFFICES ASSUME NEW u \in DOMAIN segments, segments[u].status # "candidate"
               PROVE  u \in DOMAIN segments' /\ segments'[u].status # "candidate"
    OBVIOUS
  <2>1. ASSUME NEW b \in Builds, CommitBuild(b)
        PROVE  u \in DOMAIN segments' /\ segments'[u].status # "candidate"
    <3>1. u \in DOMAIN segments \ build[b].deleted
      BY <1>2 DEF LocksInv
    <3>2. u \in DOMAIN build[b].puts => build[b].puts[u].status # "candidate"
      BY <1>2 DEF LocksInv
    <3> QED
      BY <1>2, <2>1, <3>1, <3>2, CommitWrites
  <2>2. ASSUME NEW c \in Reviews, WriteConfirmation(c)
        PROVE  u \in DOMAIN segments' /\ segments'[u].status # "candidate"
    BY <1>2, <2>2, ConfirmationWrites
  <2>3. ASSUME NEW v \in DOMAIN segments, RejectSegment(v)
        PROVE  u \in DOMAIN segments' /\ segments'[u].status # "candidate"
    <3> DEFINE mark == [segments[v] EXCEPT !.status = "rejected"]
    <3>1. segments' = [segments EXCEPT ![v] = mark]
      BY <2>3 DEF RejectSegment
    <3>2. mark.status = "rejected"
      BY <1>2, MarkWrites
    <3> HIDE DEF mark
    <3> QED
      BY <3>1, <3>2
  <2>4. ASSUME NEW v \in DOMAIN segments, NEW w \in DOMAIN segments, MergeSegments(v, w)
        PROVE  u \in DOMAIN segments' /\ segments'[u].status # "candidate"
    <3>1. v \in DOMAIN segments'
      BY <1>2, <2>4, MergeWrites DEF MergeSegments, With
    <3>2. DOMAIN segments \subseteq DOMAIN segments'
      BY <1>2, <2>4, <3>1, MergeWrites
    <3> QED
      BY <1>2, <2>4, <3>2, MergeWrites
  <2>5. ASSUME NEW b \in Builds,
               BuildSegments(b) \/ DeleteCandidates(b) \/ UpsertSegment(b) \/ RollbackBuild(b)
        PROVE  UNCHANGED segments
    BY <2>5 DEF BuildSegments, DeleteCandidates, UpsertSegment, RollbackBuild
  <2>6. ASSUME NEW c \in Reviews, NEW v, ConfirmSegment(c, v) PROVE UNCHANGED segments
    BY <2>6 DEF ConfirmSegment
  <2>7. ASSUME NEW r, RawArrives(r) PROVE UNCHANGED segments
    BY <2>7 DEF RawArrives
  <2> QED
    BY <1>2, <2>1, <2>2, <2>3, <2>4, <2>5, <2>6, <2>7 DEF ActivityNext, activityVars
<1>3. LocksInv /\ [ActivityNext]_activityVars =>
        [\A u \in DOMAIN segments : segments[u].status # "candidate" =>
           u \in DOMAIN segments' /\ segments'[u].status # "candidate"]_segments
  BY <1>2
<1> QED
  BY <1>1, <1>3, ActivityNextInv, PTL DEF ActivitySpec, DecisionsSurvive

-----------------------------------------------------------------------------
(* Tracking uploads                                                        *)

(* A set of subset's size is the set: the ids an answer samples are all the ids of the
   rejected rows, when no more rows are refused than an answer lists. *)
LEMMA SamplesAreAll ==
    ASSUME NEW chunks, NEW samples, Cardinality(Refused) <= SampleLimit,
           chunks \subseteq RowRecord, \A c, e \in chunks : c.id = e.id => c = e,
           \A c \in chunks : c.id \in Refused,
           samples \in SUBSET {c.id : c \in chunks},
           Cardinality(samples) = IF Cardinality(chunks) < SampleLimit
                                  THEN Cardinality(chunks) ELSE SampleLimit
    PROVE  samples = {c.id : c \in chunks}
<1> DEFINE ids == {c.id : c \in chunks}
           f == [c \in chunks |-> c.id]
<1>1. IsFiniteSet(Refused) /\ SampleLimit \in Nat
  BY TrackingBounds, FS_Subset
<1>2. ids \in SUBSET Refused
  OBVIOUS
<1>3. IsFiniteSet(ids) /\ Cardinality(ids) <= Cardinality(Refused)
  BY <1>1, <1>2, FS_Subset
<1>4. f \in Injection(chunks, ids) /\ f \in Surjection(chunks, ids)
  BY DEF Injection, Surjection, IsInjective
<1> HIDE DEF ids, f
<1>5. Cardinality(chunks) = Cardinality(ids)
  BY <1>3, <1>4, FS_Injection
<1>6. Cardinality(ids) \in Nat /\ Cardinality(Refused) \in Nat
  BY <1>1, <1>3, FS_CardinalityType
<1>7. Cardinality(samples) = Cardinality(ids)
  BY <1>1, <1>3, <1>5, <1>6
<1>8. samples \in SUBSET ids
  BY DEF ids
<1> QED
  BY <1>3, <1>7, <1>8, FS_Subset DEF ids

(* Rows of two devices, and logs and records of one, have different uids. *)
LEMMA LogUids ==
    ASSUME NEW d \in Trackers, NEW e \in Trackers, NEW r \in RowIds \ RecordRows, NEW q \in RowIds,
           Uid(d, r) = Uid(e, q)
    PROVE  d = e /\ r = q
<1>1. d # "activity-record"
  BY TrackingBounds
<1>2. CASE q \in RecordRows
  <2>1. Uid(d, r) = <<d, r>> /\ Uid(e, q) = <<"activity-record", q>>
    BY <1>2 DEF Uid, KindOf
  <2>2. <<d, r>>[1] = <<"activity-record", q>>[1]
    BY <2>1
  <2> QED
    BY <1>1, <2>2
<1>3. CASE q \notin RecordRows
  <2>1. Uid(d, r) = <<d, r>> /\ Uid(e, q) = <<e, q>>
    BY <1>3 DEF Uid, KindOf
  <2>2. <<d, r>>[1] = <<e, q>>[1] /\ <<d, r>>[2] = <<e, q>>[2]
    BY <2>1
  <2> QED
    BY <2>2
<1> QED
  BY <1>2, <1>3

(* The upload of a device whose row and batch a step leaves alone. *)
LEMMA UploadStays ==
    ASSUME LogsInv, NEW d \in Trackers, upload[d].pc # "idle", upload'[d] = upload[d],
           batch'[upload[d].batch] = batch[upload[d].batch],
           \A r \in RowIds \ RecordRows :
             stored[Uid(d, r)] = [from |-> d, state |-> "final"] => stored'[Uid(d, r)] = stored[Uid(d, r)]
    PROVE  UploadOK(d)'
<1> DEFINE u == upload[d]
           b == u.batch
<1>1. UploadOK(d)
  BY DEF LogsInv
<1>2. /\ b \in Batches /\ batch[b].device = d /\ batch[b].status # "none"
      /\ u.rows \in Seq(RowRecord) /\ u.sent \in 0..Len(u.rows)
      /\ \A i \in 1..Len(u.rows) : u.rows[i].id \notin RecordRows => u.rows[i].state = "final"
      /\ \A i, j \in 1..Len(u.rows) : u.rows[i].id = u.rows[j].id => i = j
      /\ batch[b].chunks = {u.rows[i] : i \in 1..u.sent}
      /\ u.pc \in {"completing", "answered"} => u.sent = Len(u.rows)
  BY <1>1 DEF UploadOK
<1>3. u.pc = "answered" =>
             /\ u.answer = {c.id : c \in RejectedOf(b)}
             /\ \A c \in Taken(b) : c.id \notin RecordRows =>
                  stored[Uid(d, c.id)] = [from |-> d, state |-> "final"]
  BY <1>1 DEF UploadOK
<1>4. {c \in batch'[b].chunks : c.id \in Refused} = RejectedOf(b)
      /\ {c \in batch'[b].chunks : c.id \notin Refused} = Taken(b)
  BY DEF RejectedOf, Taken
<1>5. \A c \in Taken(b) : c.id \in RowIds
  <2>1. \A i \in 1..u.sent : i \in 1..Len(u.rows) /\ u.rows[i] \in RowRecord
    BY <1>2
  <2> HIDE DEF u
  <2> QED
    BY <1>2, <2>1 DEF Taken, RowRecord
<1>6. u.pc = "answered" =>
             /\ u.answer = {c.id : c \in {c \in batch'[b].chunks : c.id \in Refused}}
             /\ \A c \in {c \in batch'[b].chunks : c.id \notin Refused} : c.id \notin RecordRows =>
                  stored'[Uid(d, c.id)] = [from |-> d, state |-> "final"]
  BY <1>3, <1>4, <1>5
<1> HIDE DEF u
<1>7. upload'[d] = u
  BY DEF u
<1> QED
  BY <1>2, <1>6, <1>7 DEF UploadOK, RejectedOf, Taken, u

(* The batch of an upload is the device's own. *)
LEMMA BatchOf ==
    ASSUME LogsInv, NEW d \in Trackers, upload[d].pc # "idle"
    PROVE  /\ upload[d].batch \in Batches /\ batch[upload[d].batch].device = d
           /\ batch[upload[d].batch].status # "none"
<1>1. UploadOK(d)
  BY DEF LogsInv
<1> QED
  BY <1>1 DEF UploadOK

(* Batches of two uploads are two. *)
LEMMA BatchOfOther ==
    ASSUME LogsInv, NEW d \in Trackers, NEW e \in Trackers, d # e,
           upload[d].pc # "idle", upload[e].pc # "idle"
    PROVE  upload[d].batch # upload[e].batch
BY BatchOf

(* The frame of every step of one device: the uploads of the others are as they were. *)
LEMMA OthersUpload ==
    ASSUME LogsInv, NEW d \in Trackers, NEW record, upload' = [upload EXCEPT ![d] = record],
           DOMAIN batch' = Batches,
           \A b \in Batches : batch'[b] # batch[b] =>
             \A e \in Trackers \ {d} : upload[e].pc # "idle" => upload[e].batch # b,
           \A e \in Trackers, r \in RowIds \ RecordRows :
             stored[Uid(e, r)] = [from |-> e, state |-> "final"] =>
               stored'[Uid(e, r)] = stored[Uid(e, r)]
    PROVE  /\ DOMAIN upload' = Trackers /\ upload'[d] = record
           /\ \A e \in Trackers \ {d} : upload'[e] = upload[e]
           /\ \A e \in Trackers \ {d} : upload'[e].pc # "idle" => UploadOK(e)'
<1>1. /\ DOMAIN upload' = Trackers /\ upload'[d] = record
      /\ \A e \in Trackers \ {d} : upload'[e] = upload[e]
  BY DEF LogsInv
<1>2. ASSUME NEW e \in Trackers \ {d}, upload'[e].pc # "idle" PROVE UploadOK(e)'
  <2>1. upload[e].pc # "idle" /\ upload[e].batch \in Batches
    BY <1>1, <1>2 DEF LogsInv, UploadOK
  <2> QED
    BY <1>1, <2>1, UploadStays
<1> QED
  BY <1>1, <1>2

(* Rows change as the tracker's do: no log opens, no row comes back or goes. *)
LEMMA TrackerInv ==
    ASSUME LogsInv, NEW d \in Trackers, NEW r \in RowIds, Track(d, r) \/ EndRecord(d, r)
    PROVE  LogsInv'
<1>4. /\ UNCHANGED <<upload, batch, stored>> /\ row \in [Trackers -> [RowIds -> RowStates]]
      /\ \A e \in Trackers, q \in RowIds \ RecordRows : row[e][q] # "open"
  BY DEF Track, EndRecord, LogsInv
<1>5. PICK state \in {"open", "final", row[d][r]} :
        /\ row' = [row EXCEPT ![d][r] = state]
        /\ state = "open" => r \in RecordRows \/ row[d][r] = "open"
  <2>1. CASE Track(d, r)
    BY <2>1 DEF Track
  <2>2. CASE EndRecord(d, r)
    BY <2>2, <1>4 DEF EndRecord
  <2> QED
    BY <2>1, <2>2
<1>6. state \in RowStates
  BY <1>4, <1>5 DEF RowStates
<1>1. /\ row' \in [Trackers -> [RowIds -> RowStates]]
      /\ \A e \in Trackers, q \in RowIds \ RecordRows : row'[e][q] # "open"
      /\ \A e \in Trackers, q \in RowIds : row'[e][q] = "deleted" => row[e][q] = "deleted"
      /\ UNCHANGED <<upload, batch, stored>>
  BY <1>4, <1>5, <1>6
<1>2. \A e \in Trackers : upload'[e].pc # "idle" => UploadOK(e)'
  BY <1>1, UploadStays
<1>3. LogsArrive'
  BY <1>1 DEF LogsInv, LogsArrive
<1> QED
  BY <1>1, <1>2, <1>3 DEF LogsInv

(* The rows a device exports. *)
LEMMA CreateBatchInv ==
    ASSUME LogsInv, NEW d \in Trackers, NEW b \in Batches, NEW k \in Kinds, CreateBatch(d, b, k)
    PROVE  LogsInv'
<1> DEFINE pending == Pending(d, k)
           size == ExportSize(pending)
<1>1. PICK ids \in [1..size -> pending] :
        /\ Oldest(ids, pending)
        /\ upload' = [upload EXCEPT ![d] =
             [NoUpload EXCEPT !.pc = "chunks", !.batch = b,
                !.rows = [i \in DOMAIN ids |-> [id |-> ids[i], state |-> row[d][ids[i]]]]]]
  BY DEF CreateBatch
<1> DEFINE rows == [i \in 1..size |-> [id |-> ids[i], state |-> row[d][ids[i]]]]
           record == [pc |-> "chunks", rows |-> rows, batch |-> b, sent |-> 0, answer |-> {},
                      accepted |-> 0]
           new == [status |-> "open", device |-> d, chunks |-> {}]
<1>2. size \in Nat
  <2>1. pending \in SUBSET RowIds
    BY DEF Pending
  <2>2. Cardinality(pending) \in Nat
    BY <2>1, TrackingBounds, FS_Subset, FS_CardinalityType
  <2> QED
    BY <2>2, TrackingBounds DEF ExportSize
<1>3. /\ \A i \in 1..size : ids[i] \in RowIds /\ row[d][ids[i]] \in {"open", "final"}
      /\ \A i, j \in 1..size : i < j => ids[i] < ids[j]
  BY <1>1 DEF Pending, Oldest
<1>4. [NoUpload EXCEPT !.pc = "chunks", !.batch = b, !.rows = rows] = record
  <2> HIDE DEF rows
  <2> DEFINE x == NoUpload
             y == [x EXCEPT !.pc = "chunks"]
             z == [y EXCEPT !.batch = b]
  <2>1. x = [pc |-> x.pc, rows |-> x.rows, batch |-> x.batch, sent |-> x.sent,
             answer |-> x.answer, accepted |-> x.accepted]
    BY DEF NoUpload
  <2>2. x.sent = 0 /\ x.answer = {} /\ x.accepted = 0
    BY DEF NoUpload
  <2> HIDE DEF x
  <2>3. y = [pc |-> "chunks", rows |-> x.rows, batch |-> x.batch, sent |-> x.sent,
             answer |-> x.answer, accepted |-> x.accepted]
    BY <2>1
  <2> HIDE DEF y
  <2>4. z = [pc |-> "chunks", rows |-> x.rows, batch |-> b, sent |-> x.sent,
             answer |-> x.answer, accepted |-> x.accepted]
    BY <2>3
  <2> HIDE DEF z
  <2>5. [z EXCEPT !.rows = rows] =
          [pc |-> "chunks", rows |-> rows, batch |-> b, sent |-> x.sent,
           answer |-> x.answer, accepted |-> x.accepted]
    BY <2>4
  <2> QED
    BY <2>2, <2>5, Zenon DEF x, y, z
<1>5. upload' = [upload EXCEPT ![d] = record]
  <2>1. DOMAIN ids = 1..size
    BY <1>1
  <2>2. upload' = [upload EXCEPT ![d] = [NoUpload EXCEPT !.pc = "chunks", !.batch = b, !.rows = rows]]
    BY <1>1, <2>1
  <2> QED
    BY <1>4, <2>2
<1>6. batch' = [batch EXCEPT ![b] = new] /\ batch[b].status = "none" /\ UNCHANGED <<row, stored>>
  <2> DEFINE x == NoBatch
             y == [x EXCEPT !.status = "open"]
  <2>1. x = [status |-> x.status, device |-> x.device, chunks |-> x.chunks] /\ x.chunks = {}
    BY DEF NoBatch
  <2> HIDE DEF x
  <2>2. y = [status |-> "open", device |-> x.device, chunks |-> x.chunks]
    BY <2>1
  <2> HIDE DEF y
  <2>3. [y EXCEPT !.device = d] = [status |-> "open", device |-> d, chunks |-> x.chunks]
    BY <2>2
  <2>4. [y EXCEPT !.device = d] = new
    BY <2>1, <2>3
  <2>5. batch' = [batch EXCEPT ![b] = [y EXCEPT !.device = d]]
    BY DEF CreateBatch, x, y
  <2> QED
    BY <2>4, <2>5 DEF CreateBatch
<1>7. /\ rows \in Seq(RowRecord) /\ Len(rows) = size
  <2>1. \A i \in 1..size : [id |-> ids[i], state |-> row[d][ids[i]]] \in RowRecord
    BY <1>3 DEF RowRecord, RowStates
  <2> QED
    BY <1>2, <2>1
<1>8. \A i \in 1..size : rows[i].id \notin RecordRows => rows[i].state = "final"
  BY <1>3 DEF LogsInv
<1>9. \A i, j \in 1..size : rows[i].id = rows[j].id => i = j
  <2> SUFFICES ASSUME NEW i \in 1..size, NEW j \in 1..size, ids[i] = ids[j] PROVE i = j
    OBVIOUS
  <2>1. ids[i] \in Nat /\ ids[j] \in Nat
    BY <1>3, TrackingBounds
  <2>2. i \in Nat /\ j \in Nat
    BY <1>2
  <2> QED
    BY <1>3, <2>1, <2>2
<1> HIDE DEF rows, size, pending
<1>10. {rows[i] : i \in 1..0} = {}
  OBVIOUS
<1>11. /\ record.pc = "chunks" /\ record.rows = rows /\ record.batch = b /\ record.sent = 0
       /\ record = [pc |-> record.pc, rows |-> record.rows, batch |-> record.batch,
                    sent |-> record.sent, answer |-> record.answer, accepted |-> record.accepted]
  OBVIOUS
<1> HIDE DEF record
<1>12. /\ DOMAIN batch' = Batches /\ batch'[b] = new
       /\ \A c \in Batches \ {b} : batch'[c] = batch[c]
  BY <1>6 DEF LogsInv
<1>13. \A e \in Trackers : upload[e].pc # "idle" => upload[e].batch # b
  BY <1>6, BatchOf
<1>14. /\ DOMAIN upload' = Trackers /\ upload'[d] = record
       /\ \A e \in Trackers \ {d} : upload'[e] = upload[e]
       /\ \A e \in Trackers \ {d} : upload'[e].pc # "idle" => UploadOK(e)'
  <2>1. \A c \in Batches : batch'[c] # batch[c] =>
          \A e \in Trackers \ {d} : upload[e].pc # "idle" => upload[e].batch # c
    BY <1>12, <1>13
  <2>2. \A e \in Trackers, r \in RowIds \ RecordRows :
          stored[Uid(e, r)] = [from |-> e, state |-> "final"] => stored'[Uid(e, r)] = stored[Uid(e, r)]
    BY <1>6
  <2> QED
    BY <1>5, <1>12, <2>1, <2>2, OthersUpload
<1>15. UploadOK(d)'
  BY <1>2, <1>7, <1>8, <1>9, <1>10, <1>11, <1>12, <1>14 DEF UploadOK
<1>16. LogsArrive'
  BY <1>6 DEF LogsInv, LogsArrive
<1>17. \A c \in Batches :
         batch'[c] = [status |-> batch'[c].status, device |-> batch'[c].device,
                      chunks |-> batch'[c].chunks]
  BY <1>12 DEF LogsInv
<1>18. \A e \in Trackers :
         upload'[e] = [pc |-> upload'[e].pc, rows |-> upload'[e].rows, batch |-> upload'[e].batch,
                       sent |-> upload'[e].sent, answer |-> upload'[e].answer,
                       accepted |-> upload'[e].accepted]
  BY <1>11, <1>14 DEF LogsInv
<1> QED
  BY <1>6, <1>12, <1>14, <1>15, <1>16, <1>17, <1>18 DEF LogsInv

(* A device's request that leaves its rows and the stored ones, and the rows it
   exported, alone. *)
LEMMA RequestInv ==
    ASSUME LogsInv, NEW d \in Trackers, NEW record, NEW new,
           upload' = [upload EXCEPT ![d] = record],
           DOMAIN batch' = Batches, batch'[upload[d].batch] = new,
           \A c \in Batches \ {upload[d].batch} : batch'[c] = batch[c],
           UNCHANGED <<row, stored>>, upload[d].pc # "idle",
           record = [pc |-> record.pc, rows |-> record.rows, batch |-> record.batch,
                     sent |-> record.sent, answer |-> record.answer,
                     accepted |-> record.accepted],
           new = [status |-> new.status, device |-> new.device, chunks |-> new.chunks],
           record.pc # "idle" =>
             /\ record.pc \in {"chunks", "completing"}
             /\ record.rows = upload[d].rows /\ record.batch = upload[d].batch
             /\ record.sent \in 0..Len(record.rows)
             /\ new.device = d /\ new.status # "none"
             /\ new.chunks = {record.rows[i] : i \in 1..record.sent}
             /\ record.pc = "completing" => record.sent = Len(record.rows)
    PROVE  LogsInv'
<1> DEFINE b == upload[d].batch
<1>1. UploadOK(d) /\ b \in Batches
  BY DEF LogsInv, UploadOK
<1>2. /\ DOMAIN batch' = Batches /\ batch'[b] = new
      /\ \A c \in Batches \ {b} : batch'[c] = batch[c]
  OBVIOUS
<1>3. /\ DOMAIN upload' = Trackers /\ upload'[d] = record
      /\ \A e \in Trackers \ {d} : upload'[e] = upload[e]
      /\ \A e \in Trackers \ {d} : upload'[e].pc # "idle" => UploadOK(e)'
  <2>1. \A c \in Batches : batch'[c] # batch[c] =>
          \A e \in Trackers \ {d} : upload[e].pc # "idle" => upload[e].batch # c
    BY <1>2, BatchOfOther
  <2>2. \A e \in Trackers, r \in RowIds \ RecordRows :
          stored[Uid(e, r)] = [from |-> e, state |-> "final"] => stored'[Uid(e, r)] = stored[Uid(e, r)]
    OBVIOUS
  <2> QED
    BY <1>2, <2>1, <2>2, OthersUpload
<1>4. record.pc # "idle" => UploadOK(d)'
  <2> HIDE DEF b
  <2>1. upload[d].batch = b
    BY DEF b
  <2> QED
    BY <1>1, <1>2, <1>3, <2>1 DEF UploadOK
<1>5. LogsArrive'
  BY DEF LogsInv, LogsArrive
<1>6. \A c \in Batches :
        batch'[c] = [status |-> batch'[c].status, device |-> batch'[c].device,
                     chunks |-> batch'[c].chunks]
  BY <1>2 DEF LogsInv
<1>7. \A e \in Trackers :
        upload'[e] = [pc |-> upload'[e].pc, rows |-> upload'[e].rows, batch |-> upload'[e].batch,
                      sent |-> upload'[e].sent, answer |-> upload'[e].answer,
                      accepted |-> upload'[e].accepted]
  BY <1>3 DEF LogsInv
<1> QED
  BY <1>2, <1>3, <1>4, <1>5, <1>6, <1>7 DEF LogsInv

(* A device's upload with one field changed, and the batch of it. *)
LEMMA UploadRecord ==
    ASSUME LogsInv, NEW d \in Trackers, NEW x
    PROVE  /\ [upload[d] EXCEPT !.sent = x] =
                [pc |-> upload[d].pc, rows |-> upload[d].rows, batch |-> upload[d].batch,
                 sent |-> x, answer |-> upload[d].answer, accepted |-> upload[d].accepted]
           /\ [upload[d] EXCEPT !.pc = x] =
                [pc |-> x, rows |-> upload[d].rows, batch |-> upload[d].batch,
                 sent |-> upload[d].sent, answer |-> upload[d].answer,
                 accepted |-> upload[d].accepted]
<1>1. upload[d] = [pc |-> upload[d].pc, rows |-> upload[d].rows, batch |-> upload[d].batch,
                   sent |-> upload[d].sent, answer |-> upload[d].answer,
                   accepted |-> upload[d].accepted]
  BY DEF LogsInv
<1> QED
  BY <1>1

(* The same, when one batch is replaced by a record. *)
LEMMA BatchRecord ==
    ASSUME LogsInv, NEW b \in Batches, NEW x
    PROVE  [batch[b] EXCEPT !.status = x] =
             [status |-> x, device |-> batch[b].device, chunks |-> batch[b].chunks]
<1>1. batch[b] = [status |-> batch[b].status, device |-> batch[b].device,
                  chunks |-> batch[b].chunks]
  BY DEF LogsInv
<1> QED
  BY <1>1

(* A chunk that is appended has ids of rows the device logged. *)
LEMMA AppendChunkInv ==
    ASSUME LogsInv, NEW d \in Trackers, AppendChunk(d)
    PROVE  LogsInv'
<1> DEFINE u == upload[d]
           b == u.batch
           last == IF u.sent + ChunkSize < Len(u.rows) THEN u.sent + ChunkSize ELSE Len(u.rows)
           sent == {u.rows[i] : i \in (u.sent + 1)..last}
           chunks == batch[b].chunks \cup sent
           record == [u EXCEPT !.sent = last]
           first == [batch[b] EXCEPT !.status = "receiving"]
           new == [first EXCEPT !.chunks = chunks]
<1>1. /\ u.pc = "chunks" /\ u.sent < Len(u.rows)
      /\ upload' = [upload EXCEPT ![d] = record] /\ UNCHANGED <<row, stored>>
  BY DEF AppendChunk
<1>2. batch' = [batch EXCEPT ![b] = new]
  BY DEF AppendChunk
<1>3. UploadOK(d) /\ b \in Batches
  BY <1>1 DEF LogsInv, UploadOK
<1>4. record = [pc |-> u.pc, rows |-> u.rows, batch |-> b, sent |-> last, answer |-> u.answer,
                accepted |-> u.accepted]
  BY UploadRecord
<1>5. first = [status |-> "receiving", device |-> batch[b].device, chunks |-> batch[b].chunks]
  BY <1>3, BatchRecord
<1> HIDE DEF first, chunks
<1>6. new = [status |-> "receiving", device |-> batch[b].device, chunks |-> chunks]
  BY <1>5
<1>7. /\ Len(u.rows) \in Nat /\ u.sent \in 0..Len(u.rows) /\ batch[b].device = d
      /\ batch[b].chunks = {u.rows[i] : i \in 1..u.sent}
  BY <1>3 DEF UploadOK
<1>8. last \in 0..Len(u.rows) /\ u.sent <= last
  BY <1>1, <1>7, TrackingBounds
<1>9. chunks = {u.rows[i] : i \in 1..last}
  <2>1. \A i : i \in 1..last <=> i \in 1..u.sent \/ i \in (u.sent + 1)..last
    BY <1>7, <1>8
  <2> HIDE DEF u, b, last
  <2> QED
    BY <1>7, <2>1 DEF chunks
<1> HIDE DEF last, record, new
<1>10. /\ record.pc = "chunks" /\ record.rows = u.rows /\ record.batch = b /\ record.sent = last
       /\ record = [pc |-> record.pc, rows |-> record.rows, batch |-> record.batch,
                    sent |-> record.sent, answer |-> record.answer, accepted |-> record.accepted]
  BY <1>1, <1>4
<1>11. /\ new.device = d /\ new.status = "receiving" /\ new.chunks = chunks
       /\ new = [status |-> new.status, device |-> new.device, chunks |-> new.chunks]
  BY <1>6, <1>7
<1>12. /\ DOMAIN batch' = Batches /\ batch'[upload[d].batch] = new
       /\ \A c \in Batches \ {upload[d].batch} : batch'[c] = batch[c]
  BY <1>2, <1>3 DEF LogsInv
<1>13. record.pc # "idle" =>
         /\ record.pc \in {"chunks", "completing"}
         /\ record.rows = upload[d].rows /\ record.batch = upload[d].batch
         /\ record.sent \in 0..Len(record.rows)
         /\ new.device = d /\ new.status # "none"
         /\ new.chunks = {record.rows[i] : i \in 1..record.sent}
         /\ record.pc = "completing" => record.sent = Len(record.rows)
  BY <1>8, <1>9, <1>10, <1>11
<1>14. /\ upload' = [upload EXCEPT ![d] = record] /\ UNCHANGED <<row, stored>>
       /\ upload[d].pc # "idle"
  BY <1>1
<1> QED
  BY <1>10, <1>11, <1>12, <1>13, <1>14, RequestInv, Zenon

(* Marking a batch as processing changes the step of the upload and the status of the
   batch. *)
LEMMA MarkProcessingInv ==
    ASSUME LogsInv, NEW d \in Trackers, MarkProcessing(d)
    PROVE  LogsInv'
<1> DEFINE u == upload[d]
           b == u.batch
           record == [u EXCEPT !.pc = "completing"]
           new == [batch[b] EXCEPT !.status = "processing"]
<1>1. /\ u.pc = "chunks" /\ u.sent = Len(u.rows)
      /\ upload' = [upload EXCEPT ![d] = record] /\ UNCHANGED <<row, stored>>
      /\ batch' = [batch EXCEPT ![b] = new]
  BY DEF MarkProcessing
<1>2. UploadOK(d) /\ b \in Batches
  BY <1>1 DEF LogsInv, UploadOK
<1>3. record = [pc |-> "completing", rows |-> u.rows, batch |-> b, sent |-> u.sent,
                answer |-> u.answer, accepted |-> u.accepted]
  BY UploadRecord
<1>4. new = [status |-> "processing", device |-> batch[b].device, chunks |-> batch[b].chunks]
  BY <1>2, BatchRecord
<1>5. /\ u.sent \in 0..Len(u.rows) /\ batch[b].device = d
      /\ batch[b].chunks = {u.rows[i] : i \in 1..u.sent}
  BY <1>2 DEF UploadOK
<1> HIDE DEF record, new
<1>6. /\ record.pc = "completing" /\ record.rows = u.rows /\ record.batch = b
      /\ record.sent = u.sent
      /\ record = [pc |-> record.pc, rows |-> record.rows, batch |-> record.batch,
                   sent |-> record.sent, answer |-> record.answer, accepted |-> record.accepted]
  BY <1>3
<1>7. /\ new.device = d /\ new.status = "processing" /\ new.chunks = batch[b].chunks
      /\ new = [status |-> new.status, device |-> new.device, chunks |-> new.chunks]
  BY <1>4, <1>5
<1>8. /\ DOMAIN batch' = Batches /\ batch'[upload[d].batch] = new
      /\ \A c \in Batches \ {upload[d].batch} : batch'[c] = batch[c]
  BY <1>1, <1>2 DEF LogsInv
<1>9. record.pc # "idle" =>
        /\ record.pc \in {"chunks", "completing"}
        /\ record.rows = upload[d].rows /\ record.batch = upload[d].batch
        /\ record.sent \in 0..Len(record.rows)
        /\ new.device = d /\ new.status # "none"
        /\ new.chunks = {record.rows[i] : i \in 1..record.sent}
        /\ record.pc = "completing" => record.sent = Len(record.rows)
  BY <1>1, <1>5, <1>6, <1>7
<1>10. /\ upload' = [upload EXCEPT ![d] = record] /\ UNCHANGED <<row, stored>>
       /\ upload[d].pc # "idle"
  BY <1>1
<1> QED
  BY <1>6, <1>7, <1>8, <1>9, <1>10, RequestInv, Zenon

(* An upload that is over. *)
LEMMA NoUploadIs ==
    /\ NoUpload.pc = "idle"
    /\ NoUpload = [pc |-> NoUpload.pc, rows |-> NoUpload.rows, batch |-> NoUpload.batch,
                   sent |-> NoUpload.sent, answer |-> NoUpload.answer,
                   accepted |-> NoUpload.accepted]
BY DEF NoUpload

(* An upload that fails leaves the rows in the local log. *)
LEMMA UploadFailsInv ==
    ASSUME LogsInv, NEW d \in Trackers, UploadFails(d)
    PROVE  LogsInv'
<1> DEFINE b == upload[d].batch
           failed == [batch[b] EXCEPT !.status = "failed"]
<1>1. /\ upload[d].pc # "idle" /\ upload' = [upload EXCEPT ![d] = NoUpload]
      /\ UNCHANGED <<row, stored>>
      /\ batch' = [batch EXCEPT ![b] = failed] \/ UNCHANGED batch
  BY DEF UploadFails
<1>2. b \in Batches
  BY <1>1, BatchOf
<1>3. /\ DOMAIN batch' = Batches /\ batch'[b] \in {failed, batch[b]}
      /\ \A c \in Batches \ {b} : batch'[c] = batch[c]
  <2> HIDE DEF failed
  <2> QED
    BY <1>1, <1>2 DEF LogsInv
<1>4. failed = [status |-> "failed", device |-> batch[b].device, chunks |-> batch[b].chunks]
  BY <1>2, BatchRecord
<1>5. batch'[b] = [status |-> batch'[b].status, device |-> batch'[b].device,
                   chunks |-> batch'[b].chunks]
  <2>1. batch[b] = [status |-> batch[b].status, device |-> batch[b].device,
                    chunks |-> batch[b].chunks]
    BY <1>2 DEF LogsInv
  <2> HIDE DEF failed
  <2> QED
    BY <1>3, <1>4, <2>1
<1> HIDE DEF failed
<1> QED
  BY <1>1, <1>3, <1>5, NoUploadIs, RequestInv

(* What a completion stores: every taken row of the batch, as its device sent it, and
   nothing in the place of a log of another device. *)
LEMMA CompletionStores ==
    ASSUME LogsInv, NEW d \in Trackers, CompleteBatch(d)
    PROVE  /\ \A c \in Taken(upload[d].batch) : c.id \notin RecordRows =>
                stored'[Uid(d, c.id)] = [from |-> d, state |-> "final"]
           /\ \A e \in Trackers, r \in RowIds \ RecordRows :
                stored[Uid(e, r)] = [from |-> e, state |-> "final"] =>
                  stored'[Uid(e, r)] = stored[Uid(e, r)]
<1> DEFINE u == upload[d]
           b == u.batch
           uids == {Uid(d, c.id) : c \in Taken(b)}
           of(x) == CHOOSE c \in Taken(b) : Uid(d, c.id) = x
<1>1. /\ stored' = [x \in Uids |-> IF x \in uids THEN [from |-> d, state |-> of(x).state]
                                   ELSE stored[x]]
      /\ u.pc # "idle"
  BY DEF CompleteBatch
<1>2. UploadOK(d)
  BY <1>1 DEF LogsInv
<1>3. \A c \in Taken(b) : c.id \in RowIds /\ (c.id \notin RecordRows => c.state = "final")
  <2>1. /\ u.rows \in Seq(RowRecord) /\ u.sent \in 0..Len(u.rows)
        /\ \A i \in 1..Len(u.rows) : u.rows[i].id \notin RecordRows => u.rows[i].state = "final"
        /\ batch[b].chunks = {u.rows[i] : i \in 1..u.sent}
    BY <1>2 DEF UploadOK
  <2>2. \A i \in 1..u.sent : /\ u.rows[i] \in RowRecord
                             /\ u.rows[i].id \notin RecordRows => u.rows[i].state = "final"
    BY <2>1
  <2> HIDE DEF u, b
  <2> QED
    BY <2>1, <2>2 DEF Taken, RowRecord
<1> HIDE DEF u, b
<1>4. ASSUME NEW e \in Trackers, NEW r \in RowIds \ RecordRows, Uid(e, r) \in uids
      PROVE  e = d /\ stored'[Uid(e, r)] = [from |-> d, state |-> "final"]
  <2>1. PICK c \in Taken(b) : Uid(d, c.id) = Uid(e, r)
    BY <1>4
  <2>2. /\ of(Uid(e, r)) \in Taken(b) /\ Uid(d, of(Uid(e, r)).id) = Uid(e, r)
    BY <2>1
  <2> HIDE DEF of
  <2>3. e = d /\ of(Uid(e, r)).id = r
    BY <1>3, <2>2, LogUids
  <2>4. of(Uid(e, r)).state = "final"
    BY <1>3, <2>2, <2>3
  <2>5. Uid(e, r) \in Uids
    BY DEF Uids
  <2> QED
    BY <1>1, <1>4, <2>3, <2>4, <2>5
<1>5. ASSUME NEW e \in Trackers, NEW r \in RowIds \ RecordRows, Uid(e, r) \notin uids
      PROVE  stored'[Uid(e, r)] = stored[Uid(e, r)]
  <2>1. Uid(e, r) \in Uids
    BY DEF Uids
  <2> HIDE DEF uids, of
  <2> QED
    BY <1>1, <1>5, <2>1
<1>6. \A c \in Taken(b) : c.id \notin RecordRows =>
        stored'[Uid(d, c.id)] = [from |-> d, state |-> "final"]
  BY <1>3, <1>4
<1> HIDE DEF uids
<1> QED
  BY <1>4, <1>5, <1>6 DEF b, u

(* The transaction that completes a batch stores every chunk it does not refuse. *)
LEMMA CompleteBatchInv ==
    ASSUME LogsInv, NEW d \in Trackers, CompleteBatch(d), Cardinality(Refused) <= SampleLimit
    PROVE  LogsInv'
<1> DEFINE u == upload[d]
           b == u.batch
           stood == Cardinality(Taken(b))
           status == IF RejectedOf(b) = {} /\ Duplicates(b) = {}
                     THEN "completed" ELSE "completed_with_rejections"
           new == [batch[b] EXCEPT !.status = status]
           ids == {c.id : c \in RejectedOf(b)}
<1>1. /\ u.pc = "completing" /\ batch' = [batch EXCEPT ![b] = new] /\ UNCHANGED row
  BY DEF CompleteBatch
<1>2. PICK samples \in SUBSET ids :
        /\ Cardinality(samples) = IF Cardinality(RejectedOf(b)) < SampleLimit
                                  THEN Cardinality(RejectedOf(b)) ELSE SampleLimit
        /\ \/ upload' = [upload EXCEPT ![d].pc = "answered", ![d].answer = samples,
                                       ![d].accepted = stood]
           \/ upload' = [upload EXCEPT ![d] = NoUpload]
  BY DEF CompleteBatch
<1>3. UploadOK(d) /\ b \in Batches
  BY <1>1 DEF LogsInv, UploadOK
<1>4. /\ u.rows \in Seq(RowRecord) /\ u.sent = Len(u.rows) /\ Len(u.rows) \in Nat
      /\ \A i \in 1..Len(u.rows) : u.rows[i].id \notin RecordRows => u.rows[i].state = "final"
      /\ \A i, j \in 1..Len(u.rows) : u.rows[i].id = u.rows[j].id => i = j
      /\ batch[b].chunks = {u.rows[i] : i \in 1..Len(u.rows)} /\ batch[b].device = d
  BY <1>1, <1>3 DEF UploadOK
<1>5. \A i \in 1..Len(u.rows) : u.rows[i] \in RowRecord
  BY <1>4
<1> HIDE DEF u, b, status, stood
<1>6. samples = ids
  <2>1. RejectedOf(b) \subseteq batch[b].chunks /\ \A c \in RejectedOf(b) : c.id \in Refused
    BY DEF RejectedOf
  <2>2. RejectedOf(b) \subseteq RowRecord
    BY <1>4, <1>5, <2>1
  <2>3. \A c, e \in RejectedOf(b) : c.id = e.id => c = e
    BY <1>4, <2>1
  <2> QED
    BY <1>2, <2>1, <2>2, <2>3, SamplesAreAll
<1>7. new = [status |-> status, device |-> d, chunks |-> batch[b].chunks]
  BY <1>3, <1>4, BatchRecord
<1> HIDE DEF new
<1>8. /\ DOMAIN batch' = Batches /\ batch'[b] = new
      /\ \A c \in Batches \ {b} : batch'[c] = batch[c]
  BY <1>1, <1>3 DEF LogsInv
<1> DEFINE record == [pc |-> "answered", rows |-> u.rows, batch |-> b, sent |-> u.sent,
                      answer |-> samples, accepted |-> stood]
<1>9. PICK after \in {record, NoUpload} : upload' = [upload EXCEPT ![d] = after]
  <2> DEFINE one == [upload EXCEPT ![d].pc = "answered"]
             two == [one EXCEPT ![d].answer = samples]
             three == [two EXCEPT ![d].accepted = stood]
             r1 == [u EXCEPT !.pc = "answered"]
             r2 == [r1 EXCEPT !.answer = samples]
             r3 == [r2 EXCEPT !.accepted = stood]
  <2>1. r1 = [pc |-> "answered", rows |-> u.rows, batch |-> b, sent |-> u.sent,
              answer |-> u.answer, accepted |-> u.accepted]
    BY UploadRecord DEF u, b
  <2> HIDE DEF r1
  <2>2. r2 = [pc |-> "answered", rows |-> u.rows, batch |-> b, sent |-> u.sent,
              answer |-> samples, accepted |-> u.accepted]
    BY <2>1
  <2> HIDE DEF r2
  <2>3. r3 = record
    BY <2>2
  <2>4. upload' = three => upload' = [upload EXCEPT ![d] = r3]
    <3>1. DOMAIN upload = Trackers
      BY DEF LogsInv
    <3>2. one = [upload EXCEPT ![d] = r1]
      BY DEF r1, u
    <3> HIDE DEF one, r1
    <3>3. DOMAIN one = Trackers /\ one[d] = r1
      BY <3>1, <3>2
    <3>4. two = [one EXCEPT ![d] = r2]
      BY <3>3 DEF r2
    <3> HIDE DEF two, r2
    <3>5. DOMAIN two = Trackers /\ two[d] = r2
      BY <3>3, <3>4
    <3>6. three = [two EXCEPT ![d] = r3]
      BY <3>5
    <3> HIDE DEF r3, three
    <3>7. three = [upload EXCEPT ![d] = r3]
      BY <3>1, <3>2, <3>4, <3>6
    <3> QED
      BY <3>7
  <2>5. upload' = [upload EXCEPT ![d] = r3] \/ upload' = [upload EXCEPT ![d] = NoUpload]
    BY <1>2, <2>4
  <2> HIDE DEF r3
  <2> QED
    BY <2>3, <2>5
<1>10. /\ record.pc = "answered" /\ record.rows = u.rows /\ record.batch = b
       /\ record.sent = u.sent /\ record.answer = samples
       /\ record = [pc |-> record.pc, rows |-> record.rows, batch |-> record.batch,
                    sent |-> record.sent, answer |-> record.answer, accepted |-> record.accepted]
  OBVIOUS
<1> HIDE DEF record
<1>11. /\ DOMAIN upload' = Trackers /\ upload'[d] = after
       /\ \A e \in Trackers \ {d} : upload'[e] = upload[e]
       /\ \A e \in Trackers \ {d} : upload'[e].pc # "idle" => UploadOK(e)'
  <2>1. \A c \in Batches : batch'[c] # batch[c] =>
          \A e \in Trackers \ {d} : upload[e].pc # "idle" => upload[e].batch # c
    BY <1>1, <1>8, BatchOfOther DEF u, b
  <2> QED
    BY <1>8, <1>9, <2>1, CompletionStores, OthersUpload
<1>12. upload'[d].pc # "idle" => UploadOK(d)'
  <2> SUFFICES ASSUME after = record PROVE UploadOK(d)'
    BY <1>9, <1>11, NoUploadIs
  <2>1. batch'[b].chunks = batch[b].chunks /\ batch'[b].device = d /\ batch'[b].status # "none"
    BY <1>7, <1>8 DEF status
  <2>2. /\ ids = {c.id : c \in {c \in batch'[b].chunks : c.id \in Refused}}
        /\ Taken(b) = {c \in batch'[b].chunks : c.id \notin Refused}
    BY <2>1 DEF RejectedOf, Taken
  <2>3. \A c \in Taken(b) : c.id \notin RecordRows =>
          stored'[Uid(d, c.id)] = [from |-> d, state |-> "final"]
    BY CompletionStores DEF u, b
  <2> HIDE DEF ids
  <2> QED
    BY <1>3, <1>4, <1>6, <1>10, <1>11, <2>1, <2>2, <2>3 DEF UploadOK, RejectedOf, Taken
<1>13. LogsArrive'
  <2>1. UNCHANGED row /\ LogsArrive
    BY <1>1 DEF LogsInv
  <2>2. \A e \in Trackers, r \in RowIds \ RecordRows :
          stored[Uid(e, r)] = [from |-> e, state |-> "final"] =>
            stored'[Uid(e, r)] = stored[Uid(e, r)]
    BY CompletionStores
  <2> QED
    BY <2>1, <2>2 DEF LogsArrive
<1>14. \A c \in Batches :
         batch'[c] = [status |-> batch'[c].status, device |-> batch'[c].device,
                      chunks |-> batch'[c].chunks]
  BY <1>7, <1>8 DEF LogsInv
<1>15. \A e \in Trackers :
         upload'[e] = [pc |-> upload'[e].pc, rows |-> upload'[e].rows, batch |-> upload'[e].batch,
                       sent |-> upload'[e].sent, answer |-> upload'[e].answer,
                       accepted |-> upload'[e].accepted]
  BY <1>9, <1>10, <1>11, NoUploadIs DEF LogsInv
<1> QED
  BY <1>1, <1>8, <1>11, <1>12, <1>13, <1>14, <1>15 DEF LogsInv

(* The rows the cleanup deletes are those the answer does not list. *)
LEMMA CleanupInv ==
    ASSUME LogsInv, NEW d \in Trackers, Cleanup(d)
    PROVE  LogsInv'
<1> DEFINE u == upload[d]
           b == u.batch
           gone == AcceptedIds(u)
<1>1. /\ u.pc = "answered" /\ upload' = [upload EXCEPT ![d] = NoUpload]
      /\ UNCHANGED <<batch, stored>>
      /\ \/ UNCHANGED row
         \/ row' = [row EXCEPT ![d] = [r \in RowIds |-> IF r \in gone THEN "deleted"
                                                        ELSE row[d][r]]]
  BY DEF Cleanup
<1>2. UploadOK(d)
  BY <1>1 DEF LogsInv
<1>3. ASSUME NEW r \in gone, r \notin RecordRows
      PROVE  stored[Uid(d, r)] = [from |-> d, state |-> "final"]
  <2>1. PICK i \in DOMAIN u.rows : u.rows[i].id = r /\ r \notin u.answer
    BY DEF AcceptedIds
  <2>2. /\ u.rows \in Seq(RowRecord) /\ u.sent = Len(u.rows)
        /\ batch[b].chunks = {u.rows[j] : j \in 1..u.sent}
        /\ u.answer = {c.id : c \in RejectedOf(b)}
        /\ \A c \in Taken(b) : c.id \notin RecordRows =>
                  stored[Uid(d, c.id)] = [from |-> d, state |-> "final"]
    BY <1>1, <1>2 DEF UploadOK
  <2>3. i \in 1..u.sent
    BY <2>1, <2>2
  <2> HIDE DEF u, b, gone
  <2>4. u.rows[i] \in batch[b].chunks
    BY <2>2, <2>3
  <2>5. u.rows[i] \in Taken(b)
    BY <2>1, <2>2, <2>4 DEF Taken, RejectedOf
  <2> QED
    BY <1>3, <2>1, <2>2, <2>5
<1> HIDE DEF gone
<1> DEFINE kept == [r \in RowIds |-> IF r \in gone THEN "deleted" ELSE row[d][r]]
<1>10. /\ row \in [Trackers -> [RowIds -> RowStates]]
       /\ \A e \in Trackers, r \in RowIds \ RecordRows : row[e][r] # "open"
  BY DEF LogsInv
<1>11. /\ kept \in [RowIds -> RowStates]
       /\ \A r \in RowIds \ RecordRows : kept[r] # "open"
       /\ \A r \in RowIds : kept[r] = "deleted" => row[d][r] = "deleted" \/ r \in gone
  BY <1>10 DEF RowStates
<1>12. row' = row \/ row' = [row EXCEPT ![d] = kept]
  BY <1>1
<1> HIDE DEF kept
<1>4. /\ row' \in [Trackers -> [RowIds -> RowStates]]
      /\ \A e \in Trackers, r \in RowIds \ RecordRows : row'[e][r] # "open"
  BY <1>10, <1>11, <1>12
<1>5. \A e \in Trackers, r \in RowIds :
        row'[e][r] = "deleted" => row[e][r] = "deleted" \/ (e = d /\ r \in gone)
  BY <1>10, <1>11, <1>12
<1>6. LogsArrive'
  BY <1>1, <1>3, <1>5 DEF LogsInv, LogsArrive
<1>7. /\ DOMAIN upload' = Trackers /\ upload'[d] = NoUpload
      /\ \A e \in Trackers \ {d} : upload'[e] = upload[e]
      /\ \A e \in Trackers \ {d} : upload'[e].pc # "idle" => UploadOK(e)'
  <2>1. DOMAIN batch' = Batches /\ \A c \in Batches : batch'[c] = batch[c]
    BY <1>1 DEF LogsInv
  <2>2. \A e \in Trackers, r \in RowIds \ RecordRows :
          stored[Uid(e, r)] = [from |-> e, state |-> "final"] => stored'[Uid(e, r)] = stored[Uid(e, r)]
    BY <1>1
  <2> QED
    BY <1>1, <2>1, <2>2, OthersUpload
<1>8. \A e \in Trackers :
        upload'[e] = [pc |-> upload'[e].pc, rows |-> upload'[e].rows, batch |-> upload'[e].batch,
                      sent |-> upload'[e].sent, answer |-> upload'[e].answer,
                      accepted |-> upload'[e].accepted]
  BY <1>7, NoUploadIs DEF LogsInv
<1>9. \A e \in Trackers : upload'[e].pc # "idle" => UploadOK(e)'
  BY <1>7, NoUploadIs
<1> QED
  BY <1>1, <1>4, <1>6, <1>7, <1>8, <1>9 DEF LogsInv

(* Every step keeps a row in the local log until the server has it or refused it. *)
LEMMA TrackNextInv ==
    ASSUME Cardinality(Refused) <= SampleLimit
    PROVE  LogsInv /\ [TrackNext]_trackVars => LogsInv'
<1> SUFFICES ASSUME LogsInv, [TrackNext]_trackVars PROVE LogsInv'
  OBVIOUS
<1>1. CASE UNCHANGED trackVars
  <2>1. UNCHANGED <<row, upload, batch, stored>>
    BY <1>1 DEF trackVars
  <2>2. \A d \in Trackers : upload'[d].pc # "idle" => UploadOK(d)'
    BY <2>1, UploadStays
  <2>3. LogsArrive'
    BY <2>1 DEF LogsInv, LogsArrive
  <2> QED
    BY <2>1, <2>2, <2>3 DEF LogsInv
<1>2. CASE TrackNext
  BY <1>2, TrackerInv, CreateBatchInv, AppendChunkInv, MarkProcessingInv, CompleteBatchInv,
     UploadFailsInv, CleanupInv DEF TrackNext
<1> QED
  BY <1>1, <1>2

(* A log or an input event the device no longer holds is on the server as the device wrote
   it, whichever answers were lost, as long as an answer has room for every refused row. *)
THEOREM LogsReachTheServer ==
    ASSUME Cardinality(Refused) <= SampleLimit
    PROVE  TrackSpec => []LogsArrive
<1>1. ASSUME TrackInit PROVE LogsInv
  <2>1. /\ row = [d \in Trackers |-> [r \in RowIds |-> "absent"]]
        /\ upload = [d \in Trackers |-> NoUpload] /\ batch = [b \in Batches |-> NoBatch]
    BY <1>1 DEF TrackInit
  <2>2. NoBatch = [status |-> NoBatch.status, device |-> NoBatch.device, chunks |-> NoBatch.chunks]
    BY DEF NoBatch
  <2>3. LogsArrive
    BY <2>1 DEF LogsArrive
  <2> QED
    BY <2>1, <2>2, <2>3, NoUploadIs DEF LogsInv, RowStates
<1>2. LogsInv => LogsArrive
  BY DEF LogsInv
<1> QED
  BY <1>1, <1>2, TrackNextInv, PTL DEF TrackSpec

-----------------------------------------------------------------------------
(* Lists of the console                                                    *)

(* A list is sorted by one of the times of a row. *)
LEMMA ListColumns ==
    ASSUME NEW list \in Lists
    PROVE  list.by \in {"created", "start", "updated"} /\ list.tied \in BOOLEAN
<1> DEFINE Columns == [by: {"created", "start", "updated"}, tied: BOOLEAN, live: BOOLEAN]
<1>1. \A c \in {"created", "start", "updated"}, t, l \in BOOLEAN : By(c, t, l) \in Columns
  BY DEF By
<1> HIDE DEF Columns
<1>2. {Objects, SyncChanges, ActivityRecords, InputEvents} \subseteq Columns
  BY <1>1 DEF Objects, SyncChanges, ActivityRecords, InputEvents
<1>3. {ActualRecords, ReportDocuments, ActivitySegments, TaskWorkLogs} \subseteq Columns
  BY <1>1 DEF ActualRecords, ReportDocuments, ActivitySegments, TaskWorkLogs
<1>4. {AuditLogs, PushDeliveries, AiDrafts, SyncMutations, TrackingIngestBatches,
       ScheduleRuns, ScheduleDraftItems, PlanDeviations} \subseteq Columns
  BY <1>1 DEF AuditLogs, PushDeliveries, AiDrafts, SyncMutations, TrackingIngestBatches,
              ScheduleRuns, ScheduleDraftItems, PlanDeviations
<1>5. {ReportEntries, ReportEvidence, FileOperationLogs, AdminDevices, GenericAdminTable}
        \subseteq Columns
  BY <1>1 DEF ReportEntries, ReportEvidence, FileOperationLogs, AdminDevices, GenericAdminTable
<1>6. list \in Columns
  BY <1>2, <1>3, <1>4, <1>5 DEF Lists, AdminData
<1> QED
  BY <1>6 DEF Columns

(* ... which is a number, *)
LEMMA RowKeys ==
    ASSUME NEW list \in Lists, NEW rows, rows \in [DOMAIN rows -> ListRow], NEW r \in DOMAIN rows
    PROVE  rows[r][list.by] \in Int
<1>1. rows[r] \in ListRow
  OBVIOUS
<1>2. CASE list.by = "created"
  BY <1>1, <1>2, ConsoleBounds DEF ListRow
<1>3. CASE list.by = "start"
  BY <1>1, <1>3, ConsoleBounds DEF ListRow
<1>4. CASE list.by = "updated"
  BY <1>1, <1>4, ConsoleBounds DEF ListRow
<1> QED
  BY <1>2, <1>3, <1>4, ListColumns

(* ... and its rows can be counted. *)
LEMMA ListIsFinite ==
    ASSUME NEW list, NEW rows, IsFiniteSet(DOMAIN rows), NEW w
    PROVE  /\ IsFiniteSet(Listed(list, rows)) /\ Cardinality(Listed(list, rows)) \in Nat
           /\ IsFiniteSet(Ahead(list, rows, w)) /\ Cardinality(Ahead(list, rows, w)) \in Nat
<1>1. Listed(list, rows) \in SUBSET DOMAIN rows
  BY DEF Listed
<1>2. IsFiniteSet(Listed(list, rows))
  BY <1>1, FS_Subset
<1>3. Ahead(list, rows, w) \in SUBSET Listed(list, rows)
  BY DEF Ahead
<1>4. IsFiniteSet(Ahead(list, rows, w))
  BY <1>2, <1>3, FS_Subset
<1> QED
  BY <1>2, <1>4, FS_CardinalityType

(* An order has a place for every row of the list, and no row twice. *)
LEMMA OrdersAreComplete ==
    ASSUME PagesInv, NEW list \in Lists, NEW s \in Orders(list)
    PROVE  /\ s \in [1..Cardinality(Listed(list, entry)) -> Listed(list, entry)]
           /\ \A i, j \in DOMAIN s : i # j => s[i] # s[j]
           /\ \A r \in Listed(list, entry) : \E i \in DOMAIN s : s[i] = r
           /\ \A i, j \in DOMAIN s : i < j =>
                \/ entry[s[i]][list.by] > entry[s[j]][list.by]
                \/ /\ entry[s[i]][list.by] = entry[s[j]][list.by]
                   /\ list.tied => s[i] > s[j]
<1> DEFINE S == Listed(list, entry)
           n == Cardinality(S)
<1>1. IsFiniteSet(S) /\ n \in Nat
  BY ListIsFinite DEF PagesInv
<1>2. /\ s \in [1..n -> S] /\ \A i, j \in 1..n : i # j => s[i] # s[j]
  BY DEF Orders, SetToSeqs
<1>3. \A i, j \in DOMAIN s : i < j =>
        \/ entry[s[i]][list.by] > entry[s[j]][list.by]
        \/ /\ entry[s[i]][list.by] = entry[s[j]][list.by]
           /\ list.tied => s[i] > s[j]
  BY DEF Orders
<1>4. s \in Injection(1..n, S)
  BY <1>2 DEF Injection, IsInjective
<1>5. IsFiniteSet(1..n) /\ Cardinality(1..n) = n
  BY <1>1, FS_Interval
<1> HIDE DEF S, n
<1>6. s \in Surjection(1..n, S)
  <2>1. Cardinality(1..n) = Cardinality(S)
    BY <1>5 DEF n
  <2> QED
    BY <1>1, <1>4, <2>1, FS_Injection
<1>7. \A r \in S : \E i \in 1..n : s[i] = r
  BY <1>6 DEF Surjection
<1> QED
  BY <1>2, <1>3, <1>7 DEF S, n

(* A list that comes back in one order only has a tie-breaker or no equal rows:
   two of them could change places. *)
LEMMA OneOrderTellsRows ==
    ASSUME PagesInv, NEW list \in Lists, NEW s \in Orders(list),
           \A o, p \in Orders(list) : o = p,
           NEW i \in DOMAIN s, NEW j \in DOMAIN s, i < j,
           entry[s[i]][list.by] = entry[s[j]][list.by]
    PROVE  list.tied
<1> SUFFICES ASSUME ~list.tied PROVE FALSE
  OBVIOUS
<1> DEFINE S == Listed(list, entry)
           n == Cardinality(S)
           t == [k \in 1..n |-> IF k = i THEN s[j] ELSE IF k = j THEN s[i] ELSE s[k]]
<1>1. n \in Nat
  BY ListIsFinite DEF PagesInv
<1>2. /\ s \in [1..n -> S] /\ DOMAIN s = 1..n
      /\ \A k, l \in 1..n : k # l => s[k] # s[l]
  <2>1. s \in [1..n -> S] /\ \A k, l \in DOMAIN s : k # l => s[k] # s[l]
    BY OrdersAreComplete
  <2>2. DOMAIN s = 1..n
    BY <2>1
  <2> QED
    BY <2>1, <2>2
<1>3. \A k, l \in 1..n : k < l =>
        \/ entry[s[k]][list.by] > entry[s[l]][list.by]
        \/ entry[s[k]][list.by] = entry[s[l]][list.by]
  <2>1. \A k, l \in DOMAIN s : k < l =>
          \/ entry[s[k]][list.by] > entry[s[l]][list.by]
          \/ /\ entry[s[k]][list.by] = entry[s[l]][list.by]
             /\ list.tied => s[k] > s[l]
    BY OrdersAreComplete, Zenon
  <2>2. DOMAIN s = 1..n
    BY <1>2
  <2> QED
    BY <2>1, <2>2
<1>4. i \in 1..n /\ j \in 1..n /\ i # j
  BY <1>1, <1>2
<1>5. t \in [1..n -> S] /\ DOMAIN t = 1..n
  BY <1>2, <1>4
<1>6. \A k \in 1..n : entry[t[k]][list.by] = entry[s[k]][list.by]
  BY <1>4
<1>7. \A k, l \in 1..n : k # l => t[k] # t[l]
  BY <1>2, <1>4
<1>8. t[i] # s[i]
  BY <1>2, <1>4
<1> HIDE DEF t
<1>9. \A k, l \in DOMAIN t : k < l =>
        \/ entry[t[k]][list.by] > entry[t[l]][list.by]
        \/ entry[t[k]][list.by] = entry[t[l]][list.by] /\ (list.tied => t[k] > t[l])
  BY <1>3, <1>5, <1>6
<1>10. t \in SetToSeqs(S)
  BY <1>5, <1>7 DEF SetToSeqs
<1>11. t \in Orders(list)
  BY <1>9, <1>10 DEF Orders
<1> QED
  BY <1>8, <1>11

(* Then the place of a row tells how many are ahead of it. *)
LEMMA PlaceCountsAhead ==
    ASSUME PagesInv, NEW list \in Lists, NEW s \in Orders(list),
           \A o, p \in Orders(list) : o = p, NEW k \in DOMAIN s
    PROVE  Cardinality(Ahead(list, entry, s[k])) = k - 1
<1> DEFINE S == Listed(list, entry)
           n == Cardinality(S)
           A == Ahead(list, entry, s[k])
           f == [i \in 1..(k - 1) |-> s[i]]
<1>1. n \in Nat
  BY ListIsFinite DEF PagesInv
<1>2. /\ s \in [1..n -> S] /\ DOMAIN s = 1..n
      /\ \A i, j \in 1..n : i # j => s[i] # s[j]
      /\ \A r \in S : \E i \in 1..n : s[i] = r
  <2>1. s \in [1..n -> S] /\ \A i, j \in DOMAIN s : i # j => s[i] # s[j]
    BY OrdersAreComplete
  <2>2. DOMAIN s = 1..n
    BY <2>1
  <2>3. \A r \in Listed(list, entry) : \E i \in DOMAIN s : s[i] = r
    BY OrdersAreComplete
  <2> QED
    BY <2>1, <2>2, <2>3
<1>3. \A i \in 1..n : s[i] \in S /\ s[i] \in Int /\ entry[s[i]][list.by] \in Int
  <2> TAKE i \in 1..n
  <2>1. s[i] \in DOMAIN entry
    BY <1>2 DEF Listed
  <2>2. s[i] \in Int
    BY <2>1, ConsoleBounds DEF PagesInv
  <2>3. entry[s[i]][list.by] \in Int
    BY <2>1, RowKeys DEF PagesInv
  <2> QED
    BY <1>2, <2>2, <2>3
<1>4. \A i, j \in 1..n : i < j =>
        \/ entry[s[i]][list.by] > entry[s[j]][list.by]
        \/ entry[s[i]][list.by] = entry[s[j]][list.by] /\ list.tied /\ s[i] > s[j]
  <2> TAKE i, j \in 1..n
  <2> HAVE i < j
  <2>1. \/ entry[s[i]][list.by] > entry[s[j]][list.by]
        \/ entry[s[i]][list.by] = entry[s[j]][list.by] /\ (list.tied => s[i] > s[j])
    BY <1>2, OrdersAreComplete
  <2>2. entry[s[i]][list.by] = entry[s[j]][list.by] => list.tied
    BY <1>2, OneOrderTellsRows
  <2> QED
    BY <2>1, <2>2
<1>5. k \in 1..n
  BY <1>2
<1>6. \A i \in 1..n : i < k => s[i] \in A
  BY <1>3, <1>4, <1>5 DEF Ahead
<1>7. \A i \in 1..n : s[i] \in A => i < k
  <2> SUFFICES ASSUME NEW i \in 1..n, s[i] \in A, i >= k PROVE FALSE
    BY <1>1, <1>5
  <2>1. CASE i = k
    BY <1>3, <2>1 DEF Ahead
  <2>2. CASE i > k
    <3>1. \/ entry[s[k]][list.by] > entry[s[i]][list.by]
          \/ entry[s[k]][list.by] = entry[s[i]][list.by] /\ s[k] > s[i]
      BY <1>4, <1>5, <2>2
    <3>2. \/ entry[s[i]][list.by] > entry[s[k]][list.by]
          \/ entry[s[i]][list.by] = entry[s[k]][list.by] /\ s[i] > s[k]
      BY DEF Ahead
    <3> QED
      BY <1>3, <1>5, <3>1, <3>2
  <2> QED
    BY <1>1, <1>5, <2>1, <2>2
<1>8. A \subseteq S
  BY DEF Ahead
<1> HIDE DEF A, S, n
<1>9. \A i \in 1..(k - 1) : i \in 1..n /\ i < k
  BY <1>1, <1>5
<1>10. f \in [1..(k - 1) -> A]
  BY <1>6, <1>9
<1>11. \A i, j \in DOMAIN f : f[i] = f[j] => i = j
  BY <1>2, <1>9
<1>12. \A r \in A : \E i \in 1..(k - 1) : f[i] = r
  <2> TAKE r \in A
  <2>1. PICK i \in 1..n : s[i] = r
    BY <1>2, <1>8
  <2>2. i \in 1..(k - 1)
    BY <1>1, <1>5, <1>7, <2>1
  <2> QED
    BY <2>1, <2>2
<1> HIDE DEF f
<1>13. f \in Bijection(1..(k - 1), A)
  <2>1. f \in Injection(1..(k - 1), A)
    BY <1>10, <1>11 DEF Injection, IsInjective
  <2>2. f \in Surjection(1..(k - 1), A)
    BY <1>10, <1>12 DEF Surjection
  <2> QED
    BY <2>1, <2>2 DEF Bijection
<1>14. IsFiniteSet(1..(k - 1)) /\ Cardinality(1..(k - 1)) = k - 1
  BY <1>1, <1>5, FS_Interval
<1>15. ExistsBijection(1..(k - 1), A)
  BY <1>13 DEF ExistsBijection
<1>16. Cardinality(A) = Cardinality(1..(k - 1))
  BY <1>14, <1>15, FS_Bijection
<1> QED
  BY <1>14, <1>16 DEF A

(* A write that leaves a list steady takes no row from before a wanted one. *)
LEMMA WritesKeepPages ==
    ASSUME PagesInv, NEW rows, rows \in [DOMAIN rows -> ListRow], IsFiniteSet(DOMAIN rows),
           DOMAIN rows \subseteq ListedIds, Write(rows)
    PROVE  PagesInv'
<1>1. CASE reader.pc # "page"
  <2>1. reader' = reader /\ entry' = rows
    BY <1>1 DEF Write
  <2> QED
    BY <1>1, <2>1 DEF PagesInv, PagesMissNothing
<1>2. CASE reader.pc = "page"
  <2> DEFINE list == reader.list
             here == Listed(list, entry)
             stay == {r \in here : r \in Listed(list, rows)}
             kept == {r \in reader.wanted \cap stay : rows[r][list.by] = entry[r][list.by]}
  <2>1. reader \in ListReader /\ entry' = rows /\ reader' = Watched(rows)
    BY <1>2 DEF Write, PagesInv
  <2>2. list \in Lists
    BY <2>1 DEF ListReader
  <2>3. /\ reader'.pc = "page" /\ reader'.list = list /\ reader'.offset = reader.offset
        /\ reader'.seen = reader.seen /\ reader'.wanted = kept
        /\ reader'.steady = (reader.steady /\ stay = here
                               /\ \A r \in stay : rows[r][list.by] >= entry[r][list.by])
    BY <1>2, <2>1 DEF Watched, ListReader
  <2>4. reader' \in ListReader
    <3>1. kept \subseteq ListedIds
      BY <2>1 DEF ListReader
    <3> HIDE DEF kept
    <3>2. reader'.steady \in BOOLEAN
      BY <2>1, <2>3 DEF ListReader
    <3>3. reader' = [pc |-> reader'.pc, list |-> reader'.list, offset |-> reader'.offset,
                     seen |-> reader'.seen, wanted |-> reader'.wanted,
                     steady |-> reader'.steady]
      BY <2>1 DEF Watched, ListReader
    <3> QED
      BY <2>1, <2>2, <2>3, <3>1, <3>2, <3>3 DEF ListReader
  <2>5. kept \subseteq Listed(list, rows)
    OBVIOUS
  <2>6. ASSUME reader'.steady, NEW w \in kept \ reader.seen
        PROVE  Cardinality(Ahead(list, rows, w)) >= reader.offset
    <3>1. reader.steady /\ stay = here /\ \A r \in here : rows[r][list.by] >= entry[r][list.by]
      BY <2>3, <2>6
    <3>2. \A r \in here : r \in DOMAIN entry /\ r \in DOMAIN rows /\ r \in Listed(list, rows)
      BY <3>1 DEF Listed
    <3>3. w \in here /\ rows[w][list.by] = entry[w][list.by] /\ w \in reader.wanted
      OBVIOUS
    <3>4. \A r \in here : entry[r][list.by] \in Int /\ rows[r][list.by] \in Int
      BY <2>2, <3>2, RowKeys DEF PagesInv
    <3>5. Ahead(list, entry, w) \subseteq Ahead(list, rows, w)
      <4> SUFFICES ASSUME NEW r \in Ahead(list, entry, w) PROVE r \in Ahead(list, rows, w)
        OBVIOUS
      <4>1. r \in here
        BY DEF Ahead
      <4>2. \/ entry[r][list.by] > entry[w][list.by]
            \/ entry[r][list.by] = entry[w][list.by] /\ list.tied /\ r > w
        BY DEF Ahead
      <4>3. \/ rows[r][list.by] > rows[w][list.by]
            \/ rows[r][list.by] = rows[w][list.by] /\ list.tied /\ r > w
        BY <3>1, <3>3, <3>4, <4>1, <4>2
      <4> QED
        BY <3>2, <4>1, <4>3 DEF Ahead
    <3>6. Cardinality(Ahead(list, entry, w)) >= reader.offset
      BY <1>2, <3>1, <3>3 DEF PagesInv
    <3>7. /\ IsFiniteSet(Ahead(list, rows, w)) /\ Cardinality(Ahead(list, rows, w)) \in Nat
          /\ Cardinality(Ahead(list, entry, w)) \in Nat
      BY ListIsFinite DEF PagesInv
    <3>8. Cardinality(Ahead(list, entry, w)) <= Cardinality(Ahead(list, rows, w))
      BY <3>5, <3>7, FS_Subset
    <3>9. reader.offset \in Nat
      BY <2>1 DEF ListReader
    <3> QED
      BY <3>6, <3>7, <3>8, <3>9
  <2> HIDE DEF list, kept
  <2>7. PagesMissNothing'
    BY <2>3 DEF PagesMissNothing
  <2> QED
    BY <2>1, <2>3, <2>4, <2>5, <2>6, <2>7 DEF PagesInv
<1> QED
  BY <1>1, <1>2

(* Every row is written with its times. *)
LEMMA RowsAreWritten ==
    ASSUME PagesInv, NEW r \in ListedIds,
           InsertRow(r) \/ UpdateRow(r) \/ DeleteRow(r) \/ UpdateAdminData(r)
    PROVE  PagesInv'
<1>1. /\ IsFiniteSet(DOMAIN entry) /\ DOMAIN entry \subseteq ListedIds
      /\ entry \in [DOMAIN entry -> ListRow]
  BY DEF PagesInv
<1>2. CASE InsertRow(r)
  <2>1. PICK created \in Times, start \in Times :
          Write([x \in DOMAIN entry \cup {r} |->
                   IF x = r THEN [created |-> created, start |-> start, updated |-> created,
                                  deleted |-> FALSE]
                   ELSE entry[x]])
    BY <1>2 DEF InsertRow
  <2>2. [created |-> created, start |-> start, updated |-> created, deleted |-> FALSE] \in ListRow
    BY DEF ListRow
  <2> DEFINE new == [created |-> created, start |-> start, updated |-> created, deleted |-> FALSE]
  <2> HIDE DEF new
  <2> DEFINE rows == [x \in DOMAIN entry \cup {r} |-> IF x = r THEN new ELSE entry[x]]
  <2>3. new \in ListRow /\ Write(rows)
    BY <2>1, <2>2 DEF new
  <2>4. DOMAIN rows = DOMAIN entry \cup {r} /\ rows \in [DOMAIN rows -> ListRow]
    BY <1>1, <2>3
  <2>5. IsFiniteSet(DOMAIN entry \cup {r})
    BY <1>1, FS_AddElement
  <2> HIDE DEF rows
  <2> QED
    BY <1>1, <2>3, <2>4, <2>5, WritesKeepPages
<1>3. ASSUME NEW new \in ListRow, r \in DOMAIN entry, Write([entry EXCEPT ![r] = new])
      PROVE  PagesInv'
  <2> DEFINE rows == [entry EXCEPT ![r] = new]
  <2>1. DOMAIN rows = DOMAIN entry /\ rows \in [DOMAIN rows -> ListRow]
    BY <1>1, <1>3
  <2>2. Write(rows)
    BY <1>3
  <2> HIDE DEF rows
  <2> QED
    BY <1>1, <2>1, <2>2, WritesKeepPages
<1>4. r \in DOMAIN entry => entry[r] \in ListRow
  BY <1>1
<1>5. CASE UpdateRow(r)
  <2>1. PICK start \in Times, updated \in Times, deleted \in BOOLEAN :
          Write([entry EXCEPT ![r].start = start, ![r].updated = updated,
                              ![r].deleted = deleted])
    BY <1>5 DEF UpdateRow
  <2> DEFINE new == [entry[r] EXCEPT !.start = start, !.updated = updated, !.deleted = deleted]
  <2>2. r \in DOMAIN entry /\ new \in ListRow
    BY <1>4, <1>5 DEF UpdateRow, ListRow
  <2>3. [entry EXCEPT ![r].start = start, ![r].updated = updated, ![r].deleted = deleted]
          = [entry EXCEPT ![r] = new]
    BY <2>2, <1>1
  <2> HIDE DEF new
  <2> QED
    BY <1>3, <2>1, <2>2, <2>3
<1>6. CASE UpdateObject(r)
  <2>1. PICK updated \in Times, deleted \in BOOLEAN :
          Write([entry EXCEPT ![r].updated = updated, ![r].deleted = deleted])
    BY <1>6 DEF UpdateObject
  <2> DEFINE new == [entry[r] EXCEPT !.updated = updated, !.deleted = deleted]
  <2>2. r \in DOMAIN entry /\ new \in ListRow
    BY <1>4, <1>6 DEF UpdateObject, ListRow
  <2>3. [entry EXCEPT ![r].updated = updated, ![r].deleted = deleted] = [entry EXCEPT ![r] = new]
    BY <2>2, <1>1
  <2> HIDE DEF new
  <2> QED
    BY <1>3, <2>1, <2>2, <2>3
<1>7. CASE Touched(r)
  <2>1. PICK updated \in Times : Write([entry EXCEPT ![r].updated = updated])
    BY <1>7 DEF Touched
  <2> DEFINE new == [entry[r] EXCEPT !.updated = updated]
  <2>2. r \in DOMAIN entry /\ new \in ListRow
    BY <1>4, <1>7 DEF Touched, ListRow
  <2>3. [entry EXCEPT ![r].updated = updated] = [entry EXCEPT ![r] = new]
    BY <2>2, <1>1
  <2> HIDE DEF new
  <2> QED
    BY <1>3, <2>1, <2>2, <2>3
<1>8. CASE DeleteRow(r)
  <2> DEFINE rows == [x \in DOMAIN entry \ {r} |-> entry[x]]
  <2>1. Write(rows)
    BY <1>8 DEF DeleteRow
  <2>2. DOMAIN rows = DOMAIN entry \ {r} /\ rows \in [DOMAIN rows -> ListRow]
    BY <1>1
  <2>3. IsFiniteSet(DOMAIN entry \ {r})
    BY <1>1, FS_RemoveElement
  <2> HIDE DEF rows
  <2> QED
    BY <1>1, <2>1, <2>2, <2>3, WritesKeepPages
<1> QED
  BY <1>2, <1>5, <1>6, <1>7, <1>8 DEF UpdateAdminData, UpdateActualRecord, UpdateFile

(* A list is opened with all its rows wanted. *)
LEMMA ListsOpen ==
    ASSUME PagesInv, OpenList
    PROVE  PagesInv'
<1>1. PICK list \in Lists :
        /\ reader' = [NoReader EXCEPT !.pc = "page", !.list = list, !.wanted = Listed(list, entry)]
        /\ entry' = entry
  BY DEF OpenList
<1>2. /\ reader' = [pc |-> "page", list |-> list, offset |-> 0, seen |-> {},
                    wanted |-> Listed(list, entry), steady |-> TRUE]
  BY <1>1 DEF NoReader
<1>3. Listed(list, entry) \subseteq ListedIds
  BY DEF Listed, PagesInv
<1>4. reader' \in ListReader
  BY <1>2, <1>3 DEF ListReader
<1>5. \A w : Cardinality(Ahead(list, entry, w)) >= 0
  BY ListIsFinite DEF PagesInv
<1>6. PagesMissNothing'
  BY <1>2 DEF PagesMissNothing
<1> DEFINE opened == [pc |-> "page", list |-> list, offset |-> 0, seen |-> {},
                      wanted |-> Listed(list, entry), steady |-> TRUE]
<1>7. /\ reader'.list = list /\ reader'.offset = 0 /\ reader'.wanted = Listed(list, entry)
      /\ entry' = entry
  <2>1. opened.list = list /\ opened.offset = 0 /\ opened.wanted = Listed(list, entry)
    OBVIOUS
  <2>2. reader' = opened
    BY <1>2, Zenon
  <2> HIDE DEF opened
  <2> QED
    BY <1>1, <2>1, <2>2
<1>8. reader'.wanted \subseteq Listed(reader'.list, entry')
  BY <1>7
<1>9. \A w \in reader'.wanted \ reader'.seen :
        Cardinality(Ahead(reader'.list, entry', w)) >= reader'.offset
  BY <1>5, <1>7
<1> QED
  BY <1>4, <1>6, <1>7, <1>8, <1>9 DEF PagesInv

(* A page shows the wanted rows whose places it covers; after the last page
   there are no more places. *)
LEMMA PagesTurn ==
    ASSUME PagesInv, NextPage
    PROVE  PagesInv'
<1> DEFINE list == reader.list
           last == reader.offset + PageLimit
<1>1. /\ reader.pc = "page" /\ entry' = entry /\ reader \in ListReader
      /\ reader.wanted \subseteq Listed(list, entry)
      /\ list \in Lists /\ reader.offset \in Nat /\ last \in Nat
      /\ reader.seen \subseteq ListedIds /\ reader.steady \in BOOLEAN
  BY ConsoleBounds DEF NextPage, PagesInv, ListReader
<1>2. PICK s \in Orders(list) :
        LET page == SubSeq(s, reader.offset + 1, IF last < Len(s) THEN last ELSE Len(s))
        IN  reader' = [reader EXCEPT
              !.pc = IF HasMore(page) THEN "page" ELSE "done",
              !.offset = last,
              !.seen = @ \cup {page[i] : i \in DOMAIN page},
              !.steady = @ /\ \A o, p \in Orders(list) : o = p]
  BY DEF NextPage
<1> DEFINE S == Listed(list, entry)
           n == Cardinality(S)
           end == IF last < n THEN last ELSE n
           page == SubSeq(s, reader.offset + 1, end)
<1>3. IsFiniteSet(S) /\ n \in Nat
  BY ListIsFinite DEF PagesInv
<1>4. s \in [1..n -> S] /\ \A r \in S : \E i \in DOMAIN s : s[i] = r
  BY <1>1, OrdersAreComplete, Zenon
<1>5. s \in Seq(S) /\ Len(s) = n /\ DOMAIN s = 1..n
  BY <1>3, <1>4
<1>6. S \subseteq ListedIds
  BY DEF Listed, PagesInv
<1> HIDE DEF S, n, list
<1>7. /\ page \in Seq(S)
      /\ Len(page) = IF reader.offset + 1 <= end THEN end - reader.offset ELSE 0
      /\ \A i \in 1..Len(page) : page[i] = s[reader.offset + i]
  <2>1. reader.offset + 1 \in 1..(n + 1) \/ end < reader.offset + 1
    BY <1>1, <1>3
  <2>2. end \in 0..n /\ reader.offset + 1 \in 1..(reader.offset + 1)
    BY <1>1, <1>3, ConsoleBounds
  <2> HIDE DEF end, last
  <2>3. CASE end < reader.offset + 1
    BY <1>1, <1>3, <1>5, <2>2, <2>3
  <2>4. CASE reader.offset + 1 <= end
    BY <1>1, <1>3, <1>5, <2>2, <2>4
  <2> QED
    BY <1>1, <1>3, <2>2, <2>3, <2>4
<1>8. reader' = [reader EXCEPT
        !.pc = IF HasMore(page) THEN "page" ELSE "done",
        !.offset = last,
        !.seen = @ \cup {page[i] : i \in DOMAIN page},
        !.steady = @ /\ \A o, p \in Orders(list) : o = p]
  BY <1>2, <1>5, Zenon DEF list
<1> DEFINE one == \A o, p \in Orders(list) : o = p
           shown == {page[i] : i \in DOMAIN page}
<1>9. shown \subseteq ListedIds
  BY <1>6, <1>7
<1>10. \A i \in 1..n : reader.offset < i /\ i <= last => s[i] \in shown
  <2> SUFFICES ASSUME NEW i \in 1..n, reader.offset < i, i <= last PROVE s[i] \in shown
    OBVIOUS
  <2>1. i <= end /\ end \in Nat
    BY <1>1, <1>3
  <2> HIDE DEF end, last, page
  <2>2. i - reader.offset \in 1..Len(page)
    BY <1>1, <1>3, <1>7, <2>1
  <2>3. page[i - reader.offset] = s[i]
    BY <1>1, <1>3, <1>7, <2>2
  <2>4. DOMAIN page = 1..Len(page)
    BY <1>7
  <2> QED
    BY <2>2, <2>3, <2>4
<1>11. ~HasMore(page) => n < last
  BY <1>1, <1>3, <1>7, ConsoleBounds DEF HasMore
<1> HIDE DEF page, one, shown, last, end
<1>12. /\ reader'.pc = IF HasMore(page) THEN "page" ELSE "done"
       /\ reader'.list = list /\ reader'.offset = last /\ reader'.wanted = reader.wanted
       /\ reader'.seen = reader.seen \cup shown
       /\ reader'.steady = (reader.steady /\ one)
  BY <1>1, <1>8 DEF ListReader, one, shown, list
<1>13. reader' \in ListReader
  <2>1. reader' = [pc |-> reader'.pc, list |-> reader'.list, offset |-> reader'.offset,
                   seen |-> reader'.seen, wanted |-> reader'.wanted,
                   steady |-> reader'.steady]
    BY <1>1, <1>8 DEF ListReader
  <2>2. reader'.steady \in BOOLEAN
    BY <1>1, <1>12
  <2>3. reader'.wanted \subseteq ListedIds
    BY <1>1, <1>12 DEF ListReader
  <2> QED
    BY <1>1, <1>9, <1>12, <2>1, <2>2, <2>3 DEF ListReader
<1>14. ASSUME reader'.steady, NEW w \in reader.wanted, w \notin reader'.seen
       PROVE  Cardinality(Ahead(list, entry, w)) >= last /\ last <= n
  <2>1. reader.steady /\ one /\ w \in S /\ w \notin reader.seen /\ w \notin shown
    BY <1>1, <1>12, <1>14 DEF S
  <2>2. PICK k \in 1..n : s[k] = w
    BY <1>4, <1>5, <2>1
  <2>3. Cardinality(Ahead(list, entry, w)) = k - 1
    BY <1>1, <1>5, <2>1, <2>2, PlaceCountsAhead DEF one
  <2>4. Cardinality(Ahead(list, entry, w)) >= reader.offset
    BY <1>1, <2>1 DEF PagesInv, list
  <2>5. k > reader.offset
    BY <1>1, <1>3, <2>3, <2>4
  <2>6. k > last
    BY <1>1, <1>3, <1>10, <2>1, <2>2, <2>5
  <2> QED
    BY <1>1, <1>3, <2>3, <2>6
<1>15. PagesMissNothing'
  BY <1>1, <1>3, <1>11, <1>12, <1>14 DEF PagesMissNothing
<1>16. \A w \in reader'.wanted \ reader'.seen :
         reader'.steady => Cardinality(Ahead(list, entry, w)) >= last
  BY <1>12, <1>14
<1>17. reader'.wanted \subseteq Listed(reader'.list, entry')
  BY <1>1, <1>12
<1> QED
  BY <1>1, <1>12, <1>13, <1>15, <1>16, <1>17 DEF PagesInv

(* Turning the pages of a console list to the end shows every row that kept its place,
   for any number of rows, any page size, and whatever is written meanwhile. *)
THEOREM PagesShowEveryRow == ConsoleSpec => []PagesMissNothing
<1>1. ConsoleInit => PagesInv
  <2> SUFFICES ASSUME ConsoleInit PROVE PagesInv
    OBVIOUS
  <2>1. entry = <<>> /\ DOMAIN entry = {} /\ reader = NoReader
    BY DEF ConsoleInit
  <2>2. entry \in [DOMAIN entry -> ListRow]
    BY <2>1
  <2>3. Objects \in Lists
    BY DEF Lists, AdminData
  <2>4. NoReader \in ListReader /\ NoReader.pc = "idle"
    BY <2>3 DEF NoReader, ListReader
  <2> QED
    BY <2>1, <2>2, <2>4, FS_EmptySet DEF PagesInv, PagesMissNothing
<1>2. PagesInv /\ [ConsoleNext]_consoleVars => PagesInv'
  <2> SUFFICES ASSUME PagesInv, [ConsoleNext]_consoleVars PROVE PagesInv'
    OBVIOUS
  <2>1. CASE UNCHANGED consoleVars
    BY <2>1 DEF consoleVars, PagesInv, PagesMissNothing
  <2>2. ASSUME NEW r \in ListedIds,
               InsertRow(r) \/ UpdateRow(r) \/ DeleteRow(r) \/ UpdateAdminData(r)
        PROVE  PagesInv'
    BY <2>2, RowsAreWritten
  <2> QED
    BY <2>1, <2>2, ListsOpen, PagesTurn DEF ConsoleNext
<1>3. PagesInv => PagesMissNothing
  BY DEF PagesInv
<1> QED
  BY <1>1, <1>2, <1>3, PTL DEF ConsoleSpec

-----------------------------------------------------------------------------
(* Models                                                                  *)

(* One step of one request: the others' transactions stay as they are. *)
LEMMA OthersStay ==
    ASSUME ModelsTypeOK, NEW e \in Editors, NEW x \in Edit, edit' = [edit EXCEPT ![e] = x]
    PROVE  /\ edit' \in [Editors -> Edit] /\ edit'[e] = x
           /\ \A f \in Editors \ {e} : edit'[f] = edit[f] /\ Wrote(f)' = Wrote(f)
           /\ Wrote(e)' = {v \in Versions : x.writes[v] # "none"}
BY DEF ModelsTypeOK, Wrote

LEMMA NoEditIsEdit == NoEdit \in Edit /\ NoWrites \in [Versions -> {"none"}]
BY ModelBounds DEF NoEdit, Edit, NoWrites, EditSteps, EditKinds, Profile, Versions

(* A request that begins, or is rolled back, has written nothing. *)
LEMMA StartsOver ==
    ASSUME ModelsInv, NEW e \in Editors, NEW x \in Edit, x.writes = NoWrites, x.pc # "commit", x.kind # "propose",
           edit' = [edit EXCEPT ![e] = x], version' = version
    PROVE  /\ edit' \in [Editors -> Edit] /\ OneIsActive' /\ InsertsFirst' /\ ProposalsEnd'
           /\ WritesApart'
           /\ ActivatesLast' /\ OneActivates' /\ CommitsLeaveOne'
<1>1. /\ edit' \in [Editors -> Edit] /\ edit'[e] = x
      /\ \A f \in Editors \ {e} : edit'[f] = edit[f] /\ Wrote(f)' = Wrote(f)
      /\ Wrote(e)' = {v \in Versions : x.writes[v] # "none"}
  BY OthersStay DEF ModelsInv
<1>2. Wrote(e)' = {} /\ \A v \in Versions : edit'[e].writes[v] = "none"
  BY <1>1, NoEditIsEdit
<1>3. ActiveVersions' = ActiveVersions
  BY DEF ActiveVersions
<1>4. OneIsActive'
  BY <1>3 DEF ModelsInv, OneIsActive
<1>5. InsertsFirst' /\ ProposalsEnd' /\ WritesApart'
  BY <1>1, <1>2 DEF ModelsInv, InsertsFirst, ProposalsEnd, WritesApart
<1>6. ActivatesLast'
  BY <1>1, <1>2 DEF ModelsInv, ActivatesLast
<1>7. OneActivates'
  BY <1>1, <1>2 DEF ModelsInv, OneActivates
<1>8. CommitsLeaveOne'
  BY <1>1, <1>3 DEF ModelsInv, CommitsLeaveOne
<1> QED
  BY <1>1, <1>4, <1>5, <1>6, <1>7, <1>8

LEMMA ActivateBeginInv ==
    ASSUME ModelsInv, NEW e \in Editors, NEW t \in Versions, ActivateBegin(e, t)
    PROVE  ModelsInv'
<1> DEFINE x == [NoEdit EXCEPT !.pc = "archive", !.kind = "activate",
                               !.target = t, !.seen = ActiveVersions]
<1>1. edit' = [edit EXCEPT ![e] = x] /\ version' = version
  BY DEF ActivateBegin
<1>2. x \in Edit /\ x.writes = NoWrites /\ x.pc # "commit" /\ x.kind # "propose"
  BY NoEditIsEdit DEF Edit, NoEdit, EditSteps, EditKinds, ActiveVersions
<1> HIDE DEF x
<1>3. ModelsTypeOK'
  BY <1>1, <1>2, OthersStay DEF ActivateBegin, ModelsInv, ModelsTypeOK
<1> QED
  BY <1>1, <1>2, <1>3, StartsOver DEF ModelsInv

(* Learning keeps a profile a profile. *)
LEMMA LearnedIsProfile ==
    ASSUME ModelsTypeOK, NEW p \in Profile
    PROVE  ApplyFeedbackLearning(p) \in Profile
<1>1. p.penalty \in Int /\ p.bonus \in Int /\ p.threshold \in Int
  BY DEF Profile
<1>2. LearnedPenalty(p.penalty) \in Int
  BY <1>1, ModelBounds DEF ModelsTypeOK, LearnedPenalty, Greater, Smaller
<1>3. LearnedThreshold(p.threshold) \in Int
  BY <1>1, ModelBounds DEF ModelsTypeOK, LearnedThreshold, Greater, Smaller
<1>4. (IF accepted > rejected THEN Smaller(BonusCap, p.bonus + 1) ELSE p.bonus) \in Int
  BY <1>1, ModelBounds DEF ModelsTypeOK, Smaller
<1> QED
  BY <1>2, <1>3, <1>4 DEF ApplyFeedbackLearning, Profile

LEMMA LearnReadInv ==
    ASSUME ModelsInv, NEW e \in Editors, LearnRead(e)
    PROVE  ModelsInv'
<1>1. PICK v \in ActiveVersions :
        edit' = [edit EXCEPT ![e] = [NoEdit EXCEPT !.pc = "insert", !.kind = "learn",
                                                   !.base = ApplyFeedbackLearning(profile[v])]]
  BY DEF LearnRead
<1> DEFINE x == [NoEdit EXCEPT !.pc = "insert", !.kind = "learn",
                               !.base = ApplyFeedbackLearning(profile[v])]
<1>2. profile[v] \in Profile
  BY DEF ModelsInv, ModelsTypeOK, ActiveVersions
<1>3. ApplyFeedbackLearning(profile[v]) \in Profile
  BY <1>2, LearnedIsProfile DEF ModelsInv
<1>4. x \in Edit /\ x.writes = NoWrites /\ x.pc # "commit" /\ x.kind # "propose"
  BY <1>3, NoEditIsEdit DEF Edit, NoEdit, EditSteps, EditKinds
<1>5. edit' = [edit EXCEPT ![e] = x] /\ version' = version
  BY <1>1 DEF LearnRead
<1> HIDE DEF x
<1>6. ModelsTypeOK'
  BY <1>4, <1>5, OthersStay DEF LearnRead, ModelsInv, ModelsTypeOK
<1> QED
  BY <1>4, <1>5, <1>6, StartsOver DEF ModelsInv

LEMMA RollbackInv ==
    ASSUME ModelsInv, NEW e \in Editors, Rollback(e)
    PROVE  ModelsInv'
<1>1. edit' = [edit EXCEPT ![e] = NoEdit] /\ version' = version
  BY DEF Rollback
<1>2. NoEdit.writes = NoWrites /\ NoEdit.pc # "commit" /\ NoEdit.kind # "propose"
  BY DEF NoEdit
<1>3. ModelsTypeOK'
  BY <1>1, NoEditIsEdit, OthersStay DEF Rollback, ModelsInv, ModelsTypeOK
<1> QED
  BY <1>1, <1>2, <1>3, NoEditIsEdit, StartsOver DEF ModelsInv

(* The new row is nobody else's, and a draft. *)
LEMMA LearnInsertInv ==
    ASSUME ModelsInv, NEW e \in Editors, NEW v \in Versions, LearnInsert(e, v)
    PROVE  ModelsInv'
<1>1. PICK x \in Edit :
        /\ edit' = [edit EXCEPT ![e] = x]
        /\ x.writes = [edit[e].writes EXCEPT ![v] = "draft"]
        /\ \/ x.pc = "commit" /\ x.kind = "propose"
           \/ x.pc = "archive" /\ x.kind # "propose"
  <2>1. edit[e] \in Edit /\ edit[e].kind # "propose"
    BY DEF LearnInsert, ModelsInv, ModelsTypeOK, ProposalsEnd
  <2> DEFINE w == [edit[e].writes EXCEPT ![v] = "draft"]
             y == [edit[e] EXCEPT !.pc = "archive", !.target = v, !.writes[v] = "draft",
                                  !.seen = {u \in Versions : version[u] # "absent"}]
             z == [edit[e] EXCEPT !.pc = "commit", !.kind = "propose", !.target = v,
                                  !.writes[v] = "draft"]
  <2>2. w \in [Versions -> VersionStates \cup {"none"}]
    BY <2>1 DEF Edit, VersionStates
  <2>3. y \in Edit /\ y.writes = w /\ y.pc = "archive" /\ y.kind # "propose"
    BY <2>1, <2>2 DEF Edit, EditSteps, EditKinds
  <2>4. z \in Edit /\ z.writes = w /\ z.pc = "commit" /\ z.kind = "propose"
    BY <2>1, <2>2 DEF Edit, EditSteps, EditKinds
  <2>5. edit' = [edit EXCEPT ![e] = y] \/ edit' = [edit EXCEPT ![e] = z]
    BY DEF LearnInsert, ModelsInv, ModelsTypeOK
  <2> QED
    BY <2>3, <2>4, <2>5
<1>2. /\ version' = version /\ version[v] = "absent" /\ v \notin LockedByOthers(e)
      /\ edit[e].pc = "insert"
  BY DEF LearnInsert
<1>3. /\ edit' \in [Editors -> Edit] /\ edit'[e] = x
      /\ \A f \in Editors \ {e} : edit'[f] = edit[f] /\ Wrote(f)' = Wrote(f)
      /\ Wrote(e)' = {u \in Versions : x.writes[u] # "none"}
  BY <1>1, OthersStay DEF ModelsInv
<1>4. /\ Wrote(e)' = {v} /\ x.writes[v] = "draft"
      /\ \A u \in Versions : x.writes[u] # "active"
  <2>1. edit[e] \in Edit /\ \A u \in Versions : edit[e].writes[u] = "none"
    BY <1>2 DEF ModelsInv, ModelsTypeOK, InsertsFirst, Wrote
  <2>2. \A u \in Versions : x.writes[u] = IF u = v THEN "draft" ELSE "none"
    BY <2>1, <1>1 DEF Edit
  <2> QED
    BY <1>3, <2>2
<1>5. ActiveVersions' = ActiveVersions
  BY <1>2 DEF ActiveVersions
<1>6. ModelsTypeOK'
  BY <1>3 DEF LearnInsert, ModelsInv, ModelsTypeOK
<1>7. OneIsActive' /\ InsertsFirst' /\ ProposalsEnd'
  BY <1>1, <1>3, <1>5 DEF ModelsInv, OneIsActive, InsertsFirst, ProposalsEnd
<1>8. WritesApart'
  <2>1. \A f \in Editors \ {e} : v \notin Wrote(f)
    BY <1>2 DEF LockedByOthers, Others
  <2> QED
    BY <1>3, <1>4, <2>1 DEF ModelsInv, WritesApart
<1>9. ActivatesLast' /\ OneActivates'
  BY <1>3, <1>4 DEF ModelsInv, ActivatesLast, OneActivates
<1>10. CommitsLeaveOne'
  BY <1>1, <1>2, <1>3, <1>4, <1>5 DEF ModelsInv, CommitsLeaveOne
<1> QED
  BY <1>6, <1>7, <1>8, <1>9, <1>10 DEF ModelsInv

(* What is archived was nobody else's row. *)
LEMMA ArchiveInv ==
    ASSUME ModelsInv, NEW e \in Editors, Archive(e)
    PROVE  ModelsInv'
<1> DEFINE w == [v \in Versions |-> IF v \in Archivable(e) THEN "archived" ELSE edit[e].writes[v]]
           x == [edit[e] EXCEPT !.pc = "set", !.writes = w]
<1>1. edit[e] \in Edit
  BY DEF ModelsInv, ModelsTypeOK
<1>2. w \in [Versions -> VersionStates \cup {"none"}]
  BY <1>1 DEF Edit, VersionStates
<1>3. x \in Edit /\ x.writes = w /\ x.pc = "set" /\ x.kind # "propose"
  BY <1>1, <1>2 DEF Archive, ModelsInv, ProposalsEnd, Edit, EditSteps
<1>4. edit' = [edit EXCEPT ![e] = x] /\ version' = version
  BY <1>1 DEF Edit, Archive, ModelsInv, ModelsTypeOK
<1>5. \A u \in Versions : w[u] = IF u \in Archivable(e) THEN "archived" ELSE edit[e].writes[u]
  OBVIOUS
<1>6. \A u \in Versions : w[u] # "active"
  BY <1>5 DEF Archive, ModelsInv, ActivatesLast
<1> HIDE DEF x, w
<1>7. /\ edit' \in [Editors -> Edit] /\ edit'[e] = x
      /\ \A f \in Editors \ {e} : edit'[f] = edit[f] /\ Wrote(f)' = Wrote(f)
      /\ Wrote(e)' = {u \in Versions : x.writes[u] # "none"}
  BY <1>3, <1>4, OthersStay DEF ModelsInv
<1>8. ActiveVersions' = ActiveVersions
  BY <1>4 DEF ActiveVersions
<1>9. ModelsTypeOK'
  BY <1>7 DEF Archive, ModelsInv, ModelsTypeOK
<1>10. OneIsActive' /\ InsertsFirst' /\ ProposalsEnd'
  BY <1>3, <1>7, <1>8 DEF ModelsInv, OneIsActive, InsertsFirst, ProposalsEnd
<1>11. WritesApart'
  <2>1. Wrote(e)' \subseteq Wrote(e) \cup Archivable(e)
    BY <1>3, <1>5, <1>7 DEF Wrote
  <2>2. \A f \in Editors \ {e} : Wrote(f) \cap Archivable(e) = {}
    BY DEF Archive, Archivable, LockedByOthers, Others
  <2> QED
    BY <1>7, <2>1, <2>2 DEF ModelsInv, WritesApart
<1>12. ActivatesLast' /\ OneActivates'
  BY <1>3, <1>6, <1>7 DEF ModelsInv, ActivatesLast, OneActivates
<1>13. CommitsLeaveOne'
  BY <1>3, <1>4, <1>7, <1>8 DEF ModelsInv, CommitsLeaveOne
<1> QED
  BY <1>9, <1>10, <1>11, <1>12, <1>13 DEF ModelsInv

(* The index admits the target only if what is active was archived, and the
   row is locked until the end: nothing else becomes active meanwhile. *)
LEMMA SetActiveInv ==
    ASSUME ModelsInv, NEW e \in Editors, SetActive(e)
    PROVE  ModelsInv'
<1> DEFINE t == edit[e].target
           w == [edit[e].writes EXCEPT ![t] = "active"]
           x == [edit[e] EXCEPT !.pc = "commit", !.writes = w]
<1>1. edit[e] \in Edit /\ t \in Versions
  BY DEF ModelsInv, ModelsTypeOK, Edit
<1>2. w \in [Versions -> VersionStates \cup {"none"}]
  BY <1>1 DEF Edit, VersionStates
<1>3. x \in Edit /\ x.writes = w /\ x.pc = "commit" /\ x.target = t /\ x.kind = edit[e].kind
  BY <1>1, <1>2 DEF Edit, EditSteps
<1>4. edit' = [edit EXCEPT ![e] = x] /\ version' = version
  BY <1>1 DEF SetActive, ActivatedARow, ModelsInv, ModelsTypeOK, Edit
<1>5. \A u \in Versions : w[u] = IF u = t THEN "active" ELSE edit[e].writes[u]
  BY <1>1 DEF Edit
<1>6. /\ edit[e].pc = "set" /\ t \notin LockedByOthers(e) /\ ~ActivePending(e)
      /\ ActiveVersions \subseteq Wrote(e) \cup {t}
  BY DEF SetActive, IndexAdmits
<1>7. \A u \in Versions : w[u] = "active" => u = t
  BY <1>5, <1>6 DEF ModelsInv, ActivatesLast
<1>8. /\ edit' \in [Editors -> Edit] /\ edit'[e] = x
      /\ \A f \in Editors \ {e} : edit'[f] = edit[f] /\ Wrote(f)' = Wrote(f)
      /\ Wrote(e)' = {u \in Versions : x.writes[u] # "none"}
  BY <1>3, <1>4, OthersStay DEF ModelsInv
<1>9. Wrote(e)' = Wrote(e) \cup {t}
  BY <1>1, <1>3, <1>5, <1>8 DEF Wrote
<1>10. ActiveVersions' = ActiveVersions
  BY <1>4 DEF ActiveVersions
<1>11. x.kind # "propose"
  BY <1>3, <1>6 DEF ModelsInv, ProposalsEnd
<1> HIDE DEF x, w, t
<1>12. ModelsTypeOK'
  BY <1>8 DEF SetActive, ModelsInv, ModelsTypeOK
<1>13. OneIsActive' /\ InsertsFirst' /\ ProposalsEnd'
  BY <1>3, <1>8, <1>10 DEF ModelsInv, OneIsActive, InsertsFirst, ProposalsEnd
<1>14. WritesApart'
  <2>1. \A f \in Editors \ {e} : t \notin Wrote(f)
    BY <1>6 DEF LockedByOthers, Others
  <2> QED
    BY <1>8, <1>9, <2>1 DEF ModelsInv, WritesApart
<1>15. ActivatesLast'
  BY <1>3, <1>7, <1>8, <1>11 DEF ModelsInv, ActivatesLast
<1>16. OneActivates'
  <2>1. \A f \in Editors \ {e}, v \in Versions : edit[f].writes[v] # "active"
    BY <1>6 DEF ActivePending, Others
  <2> QED
    BY <1>8, <2>1 DEF OneActivates
<1>17. CommitsLeaveOne'
  <2>1. edit'[e].writes[edit'[e].target] = "active" /\ ActiveVersions' \subseteq Wrote(e)'
    BY <1>1, <1>3, <1>5, <1>6, <1>8, <1>9, <1>10
  <2> QED
    BY <1>4, <1>8, <1>10, <1>11, <2>1 DEF ModelsInv, CommitsLeaveOne
<1> QED
  BY <1>12, <1>13, <1>14, <1>15, <1>16, <1>17 DEF ModelsInv

(* A commit makes the target active and archives what was, or adds drafts. *)
LEMMA CommitInv ==
    ASSUME ModelsInv, NEW e \in Editors, Commit(e)
    PROVE  ModelsInv'
<1>1. /\ edit[e] \in Edit /\ edit[e].pc = "commit" /\ edit' = [edit EXCEPT ![e] = NoEdit]
      /\ version' = [v \in Versions |-> IF v \in Wrote(e) THEN edit[e].writes[v] ELSE version[v]]
  BY DEF Commit, ModelsInv, ModelsTypeOK
<1>2. /\ edit' \in [Editors -> Edit] /\ edit'[e] = NoEdit
      /\ \A f \in Editors \ {e} : edit'[f] = edit[f] /\ Wrote(f)' = Wrote(f)
      /\ Wrote(e)' = {u \in Versions : NoEdit.writes[u] # "none"}
  BY <1>1, NoEditIsEdit, OthersStay DEF ModelsInv
<1>3. /\ Wrote(e)' = {} /\ NoEdit.pc = "idle" /\ NoEdit.kind = "none"
      /\ \A u \in Versions : NoEdit.writes[u] = "none"
  BY <1>2, NoEditIsEdit DEF NoEdit
<1>4. ModelsTypeOK'
  <2>1. version' \in [Versions -> VersionStates]
    BY <1>1 DEF ModelsInv, ModelsTypeOK, Edit, Wrote
  <2>2. edit[e].base \in Profile /\ edit[e].target \in Versions
    BY <1>1 DEF Edit
  <2>3. profile' \in [Versions -> Profile] /\ change' \subseteq Versions
    BY <2>2 DEF Commit, ModelsInv, ModelsTypeOK
  <2> QED
    BY <1>2, <2>1, <2>3 DEF Commit, ModelsInv, ModelsTypeOK
<1>5. InsertsFirst' /\ ProposalsEnd' /\ WritesApart'
  BY <1>2, <1>3 DEF ModelsInv, InsertsFirst, ProposalsEnd, WritesApart
<1>6. ActivatesLast' /\ OneActivates'
  BY <1>2, <1>3 DEF ModelsInv, ActivatesLast, OneActivates
<1>7. OneIsActive'
  <2>1. CASE edit[e].kind = "propose"
    <3>1. \A v \in Wrote(e) : version[v] = "absent" /\ edit[e].writes[v] # "active"
      BY <1>1, <2>1 DEF ModelsInv, CommitsLeaveOne, ActivatesLast, Wrote
    <3>2. ActiveVersions' = ActiveVersions
      BY <1>1, <3>1 DEF ActiveVersions
    <3> QED
      BY <3>2 DEF ModelsInv, OneIsActive
  <2>2. CASE edit[e].kind # "propose"
    <3>1. edit[e].writes[edit[e].target] = "active" /\ ActiveVersions \subseteq Wrote(e)
      BY <1>1, <2>2 DEF ModelsInv, CommitsLeaveOne
    <3>2. edit[e].target \in Wrote(e) /\ edit[e].target \in Versions
      BY <1>1, <3>1 DEF Wrote, Edit
    <3>3. \A v \in Versions : version'[v] = "active" <=> v = edit[e].target
      BY <1>1, <3>1, <3>2 DEF ModelsInv, ActivatesLast, ActiveVersions
    <3>4. ActiveVersions' = {edit[e].target}
      BY <3>2, <3>3 DEF ActiveVersions
    <3> QED
      BY <3>2, <3>4 DEF OneIsActive
  <2> QED
    BY <2>1, <2>2
<1>8. CommitsLeaveOne'
  <2> SUFFICES ASSUME NEW f \in Editors \ {e}, edit[f].pc = "commit"
               PROVE  IF edit[f].kind = "propose" THEN \A v \in Wrote(f) : version'[v] = "absent"
                      ELSE /\ edit[f].writes[edit[f].target] = "active"
                           /\ ActiveVersions' \subseteq Wrote(f)
    BY <1>2, <1>3 DEF CommitsLeaveOne
  <2>1. CASE edit[f].kind = "propose"
    <3>1. \A v \in Wrote(f) : v \in Versions /\ v \notin Wrote(e) /\ version[v] = "absent"
      BY <2>1 DEF ModelsInv, WritesApart, CommitsLeaveOne, Wrote
    <3> QED
      BY <1>1, <2>1, <3>1
  <2>2. CASE edit[f].kind # "propose"
    <3>1. /\ edit[f].writes[edit[f].target] = "active" /\ edit[f].target \in Versions
          /\ ActiveVersions \subseteq Wrote(f)
      BY <2>2 DEF ModelsInv, ModelsTypeOK, Edit, CommitsLeaveOne
    <3>2. \A v \in Versions : edit[e].writes[v] # "active"
      BY <3>1 DEF ModelsInv, OneActivates
    <3>3. ActiveVersions' \subseteq ActiveVersions
      BY <1>1, <3>2 DEF ActiveVersions
    <3> QED
      BY <2>2, <3>1, <3>3
  <2> QED
    BY <2>1, <2>2
<1> QED
  BY <1>4, <1>5, <1>6, <1>7, <1>8 DEF ModelsInv

(* Feedback and runs touch neither versions nor transactions. *)
LEMMA NothingOfVersions ==
    ASSUME ModelsInv, ModelsTypeOK', UNCHANGED <<version, edit>>
    PROVE  ModelsInv'
BY DEF ModelsInv, OneIsActive, InsertsFirst, ProposalsEnd, WritesApart, ActivatesLast,
       OneActivates, CommitsLeaveOne, ActiveVersions, Wrote

LEMMA ModelsNextInv == ModelsInv /\ [ModelsNext]_modelVars => ModelsInv'
<1> SUFFICES ASSUME ModelsInv, [ModelsNext]_modelVars PROVE ModelsInv'
  OBVIOUS
<1>1. CASE Feedback
  <2>1. ModelsTypeOK' /\ UNCHANGED <<version, edit>>
    BY <1>1 DEF Feedback, ModelsInv, ModelsTypeOK
  <2> QED
    BY <2>1, NothingOfVersions
<1>2. CASE \E r \in ModelRuns : StartRun(r) \/ CompleteRun(r)
  <2>1. PICK r \in ModelRuns : StartRun(r) \/ CompleteRun(r)
    BY <1>2
  <2>2. modelRun[r] \in [status: RunStates, version: Versions]
    BY DEF ModelsInv, ModelsTypeOK
  <2>3. modelRun' \in [ModelRuns -> [status: RunStates, version: Versions]]
    <3>1. CASE StartRun(r)
      BY <3>1 DEF StartRun, ModelsInv, ModelsTypeOK, RunStates, ActiveVersions
    <3>2. CASE CompleteRun(r)
      BY <3>2, <2>2 DEF CompleteRun, ModelsInv, ModelsTypeOK, RunStates
    <3> QED
      BY <2>1, <3>1, <3>2
  <2>4. ModelsTypeOK' /\ UNCHANGED <<version, edit>>
    BY <2>1, <2>3 DEF StartRun, CompleteRun, ModelsInv, ModelsTypeOK
  <2> QED
    BY <2>4, NothingOfVersions
<1>3. CASE UNCHANGED modelVars
  <2>1. ModelsTypeOK' /\ UNCHANGED <<version, edit>>
    BY <1>3 DEF modelVars, ModelsInv, ModelsTypeOK
  <2> QED
    BY <2>1, NothingOfVersions
<1>4. CASE \E e \in Editors, v \in Versions : ActivateBegin(e, v) \/ LearnInsert(e, v)
  BY <1>4, ActivateBeginInv, LearnInsertInv
<1>5. CASE \E e \in Editors : LearnRead(e) \/ Archive(e) \/ SetActive(e) \/ Commit(e) \/ Rollback(e)
  BY <1>5, LearnReadInv, ArchiveInv, SetActiveInv, CommitInv, RollbackInv
<1> QED
  BY <1>1, <1>2, <1>3, <1>4, <1>5 DEF ModelsNext

LEMMA ModelsInitInv == ModelsInit => ModelsInv
<1> SUFFICES ASSUME ModelsInit PROVE ModelsInv
  OBVIOUS
<1> USE DEF ModelsInit
<1>1. \A e \in Editors : edit[e] = NoEdit /\ Wrote(e) = {}
  BY NoEditIsEdit DEF Wrote, NoEdit
<1>2. ModelsTypeOK
  BY NoEditIsEdit, ModelBounds DEF ModelsTypeOK, VersionStates, RunStates, Profile, Versions
<1>3. OneIsActive
  BY DEF OneIsActive, ActiveVersions, Versions
<1>4. /\ InsertsFirst /\ ProposalsEnd /\ WritesApart /\ CommitsLeaveOne
      /\ ActivatesLast /\ OneActivates
  BY <1>1, NoEditIsEdit DEF InsertsFirst, ProposalsEnd, WritesApart, CommitsLeaveOne,
                            ActivatesLast, OneActivates, NoEdit
<1> QED
  BY <1>2, <1>3, <1>4 DEF ModelsInv

(* However many requests activate and learn at once and are rolled back
   anywhere, ModelsService finds exactly one active version. *)
THEOREM OneStaysActive == ModelsSpec => []OneActive
<1>1. ModelsInv => OneActive
  BY FS_Singleton DEF ModelsInv, OneIsActive, OneActive
<1> QED
  BY ModelsInitInv, ModelsNextInv, <1>1, PTL DEF ModelsSpec

-----------------------------------------------------------------------------
(* Devices                                                                 *)

DeviceRow == [client: Clients \cup {"none"}, revoked: BOOLEAN,
              stored: {"offline", "online", "degraded", "revoked"}]

(* What must be said of a request that request q becomes. *)
Fits(q, x) ==
    /\ x.kind = "register" /\ x.pc = "upsert" =>
         /\ x.client \in Clients
         /\ \/ x.id \in RowsOf(x.client)
            \/ /\ x.id \in DrawnIds \ Rows
               /\ \A p \in DeviceRequests \ {q} : request[p].id # x.id
    /\ x.pc = "insert" => x.id \in Rows \/ (x.id \in Clients /\ x.id = x.client)
    /\ x.kind = "heartbeat" /\ x.pc = "act" => x.id \in Rows
    /\ x.late /\ x.pc # "answered" =>
         x.pc = "insert" /\ x.id = x.client /\ x.id \notin Rows /\ ClientIsTaken(x.id)
    /\ x.late /\ x.pc = "answered" => x.answer \in {"revoked", "error"}
    /\ \/ x.id = request[q].id
       \/ x.id \notin DrawnIds \ Rows
       \/ \A p \in DeviceRequests \ {q} : request[p].id # x.id

LEMMA RowsHaveClients ==
    ASSUME DevicesTypeOK
    PROVE  \A i \in DeviceIds : /\ i \in Rows <=> device[i].client # "none"
                                /\ i \in Rows => device[i].client \in Clients
                                /\ i \notin Rows => device[i] = NoDevice
BY IdsAssumption DEF DevicesTypeOK, Rows, NoDevice

(* A step of a request that leaves every row to its client. *)
LEMMA RowsStay ==
    ASSUME DevicesInv, NEW q \in DeviceRequests, NEW x \in DeviceRequest, Moves(q, x), Fits(q, x),
           device' \in [DeviceIds -> DeviceRow], beat' \in [DeviceIds -> Ages], Rows' = Rows,
           \A i \in Rows : device'[i].client = device[i].client
    PROVE  DevicesInv'
<1>1. /\ request' \in [DeviceRequests -> DeviceRequest] /\ request'[q] = x
      /\ \A p \in DeviceRequests \ {q} : request'[p] = request[p]
  BY DEF DevicesInv, DevicesTypeOK, Moves
<1>2. \A c : RowsOf(c)' = RowsOf(c) /\ (ClientIsTaken(c)' <=> ClientIsTaken(c))
  BY DEF RowsOf, ClientIsTaken
<1>3. DevicesTypeOK'
  BY <1>1 DEF DevicesInv, DevicesTypeOK, DeviceRow
<1>4. OneRowEach' /\ OwnIdsOwnRows'
  BY DEF DevicesInv, OneRowEach, OwnIdsOwnRows
<1>5. UpsertsKnow'
  <2> SUFFICES ASSUME NEW r \in DeviceRequests,
                      request'[r].kind = "register", request'[r].pc = "upsert"
               PROVE  /\ request'[r].client \in Clients
                      /\ \/ request'[r].id \in RowsOf(request'[r].client)
                         \/ /\ request'[r].id \in DrawnIds \ Rows
                            /\ \A p \in DeviceRequests \ {r} : request'[p].id # request'[r].id
    BY <1>2 DEF UpsertsKnow
  <2>1. CASE r = q
    BY <1>1, <2>1 DEF Fits
  <2>2. CASE r # q
    <3>1. /\ request[r].client \in Clients
          /\ \/ request[r].id \in RowsOf(request[r].client)
             \/ /\ request[r].id \in DrawnIds \ Rows
                /\ \A p \in DeviceRequests \ {r} : request[p].id # request[r].id
      BY <1>1, <2>2 DEF DevicesInv, UpsertsKnow
    <3>2. request[r].id \in DrawnIds \ Rows /\ request[q].id # request[r].id => x.id # request[r].id
      BY <2>2 DEF Fits
    <3> QED
      BY <1>1, <2>2, <3>1, <3>2
  <2> QED
    BY <2>1, <2>2
<1>6. InsertsKnow'
  BY <1>1 DEF DevicesInv, InsertsKnow, Fits
<1>7. LateOnesFail'
  BY <1>1, <1>2 DEF DevicesInv, LateOnesFail, Fits
<1>8. LateAnswers'
  BY <1>1 DEF DevicesInv, LateAnswers, Fits
<1> QED
  BY <1>3, <1>4, <1>5, <1>6, <1>7, <1>8 DEF DevicesInv

(* A step that inserts the first row of a client. *)
LEMMA RowIsAdded ==
    ASSUME DevicesInv, NEW q \in DeviceRequests, NEW x \in DeviceRequest, Moves(q, x),
           NEW i \in DeviceIds \ Rows, NEW drawn \in DeviceRow, drawn.client \in Clients,
           ~ClientIsTaken(drawn.client), i \in DrawnIds \/ i = drawn.client,
           device' = [device EXCEPT ![i] = drawn], beat' \in [DeviceIds -> Ages],
           request[q].id = i, x.id = i, x.pc \in {"act", "event"}, ~x.late
    PROVE  DevicesInv'
<1>1. /\ request' \in [DeviceRequests -> DeviceRequest] /\ request'[q] = x
      /\ \A p \in DeviceRequests \ {q} : request'[p] = request[p]
  BY DEF DevicesInv, DevicesTypeOK, Moves
<1>2. /\ device' \in [DeviceIds -> DeviceRow] /\ device'[i] = drawn
      /\ \A j \in DeviceIds \ {i} : device'[j] = device[j]
  BY DEF DevicesInv, DevicesTypeOK, DeviceRow
<1>3. Rows' = Rows \cup {i}
  BY <1>2, IdsAssumption DEF Rows, NoDevice
<1>4. \A j \in Rows : device[j].client # drawn.client /\ j # i /\ device'[j] = device[j]
  BY <1>2 DEF ClientIsTaken, RowsOf, Rows
<1>5. DevicesTypeOK'
  BY <1>1, <1>2, <1>3, <1>4 DEF DevicesInv, DevicesTypeOK, DeviceRow
<1>6. OneRowEach'
  BY <1>2, <1>3, <1>4 DEF DevicesInv, OneRowEach
<1>7. OwnIdsOwnRows'
  BY <1>2, <1>3, <1>4, IdsAssumption DEF DevicesInv, OwnIdsOwnRows
<1>8. UpsertsKnow'
  <2> SUFFICES ASSUME NEW r \in DeviceRequests,
                      request'[r].kind = "register", request'[r].pc = "upsert"
               PROVE  /\ request'[r].client \in Clients
                      /\ \/ /\ request'[r].id \in Rows'
                            /\ device'[request'[r].id].client = request'[r].client
                         \/ /\ request'[r].id \in DrawnIds \ Rows'
                            /\ \A p \in DeviceRequests \ {r} : request'[p].id # request'[r].id
    BY DEF UpsertsKnow, RowsOf
  <2>1. r # q /\ request'[r] = request[r]
    BY <1>1
  <2>2. /\ request[r].client \in Clients
        /\ \/ request[r].id \in RowsOf(request[r].client)
           \/ /\ request[r].id \in DrawnIds \ Rows
              /\ \A p \in DeviceRequests \ {r} : request[p].id # request[r].id
    BY <2>1 DEF DevicesInv, UpsertsKnow
  <2>3. CASE request[r].id \in RowsOf(request[r].client)
    BY <1>3, <1>4, <2>1, <2>2, <2>3 DEF RowsOf
  <2>4. CASE /\ request[r].id \in DrawnIds \ Rows
             /\ \A p \in DeviceRequests \ {r} : request[p].id # request[r].id
    BY <1>1, <1>3, <2>1, <2>2, <2>4
  <2> QED
    BY <2>2, <2>3, <2>4
<1>9. InsertsKnow'
  BY <1>1, <1>3 DEF DevicesInv, InsertsKnow
<1>10. LateOnesFail'
  <2> SUFFICES ASSUME NEW r \in DeviceRequests, request'[r].late, request'[r].pc # "answered"
               PROVE  /\ request'[r].pc = "insert" /\ request'[r].id = request'[r].client
                      /\ request'[r].id \notin Rows'
                      /\ \E j \in Rows' : device'[j].client = request'[r].id
    BY DEF LateOnesFail, ClientIsTaken, RowsOf
  <2>1. r # q /\ request'[r] = request[r]
    BY <1>1
  <2>2. /\ request[r].pc = "insert" /\ request[r].id = request[r].client
        /\ request[r].id \notin Rows /\ ClientIsTaken(request[r].id)
    BY <2>1 DEF DevicesInv, LateOnesFail
  <2>3. request[r].id \in Clients
    BY <2>2 DEF DevicesInv, InsertsKnow
  <2>4. request[r].id # i
    BY <2>2, <2>3, IdsAssumption
  <2>5. \E j \in Rows : device[j].client = request[r].id
    BY <2>2 DEF ClientIsTaken, RowsOf
  <2> QED
    BY <1>3, <1>4, <2>1, <2>2, <2>4, <2>5
<1>11. LateAnswers'
  BY <1>1 DEF DevicesInv, LateAnswers
<1> QED
  BY <1>5, <1>6, <1>7, <1>8, <1>9, <1>10, <1>11 DEF DevicesInv

(* An answer ends a request; a late one must be told an error. *)
LEMMA AnswersInv ==
    ASSUME DevicesInv, NEW q \in DeviceRequests, NEW a \in {"revoked", "online", "error"},
           Answers(q, a), request[q].late => a \in {"revoked", "error"},
           device' \in [DeviceIds -> DeviceRow], beat' \in [DeviceIds -> Ages], Rows' = Rows,
           \A i \in Rows : device'[i].client = device[i].client
    PROVE  DevicesInv'
<1> DEFINE x == [request[q] EXCEPT !.pc = "answered", !.answer = a]
<1>1. request[q] \in DeviceRequest
  BY DEF DevicesInv, DevicesTypeOK
<1>2. /\ x \in DeviceRequest /\ x.pc = "answered" /\ x.answer = a
      /\ x.id = request[q].id /\ x.late = request[q].late
  BY <1>1 DEF DeviceRequest, DeviceSteps
<1>3. Moves(q, x)
  BY DEF Answers
<1> HIDE DEF x
<1>4. Fits(q, x)
  BY <1>2 DEF Fits
<1> QED
  BY <1>2, <1>3, <1>4, RowsStay

(* Of a revoked client no id lets in: its one row is the revoked one. *)
LEMMA IdsOfRevoked ==
    ASSUME DevicesInv, NEW c \in Clients, Revoked(c), NEW i \in IdsOf(c)
    PROVE  i \in Rows => device[i].revoked
<1>1. PICK j \in RowsOf(c) : device[j].revoked
  BY DEF Revoked
<1>2. i \in Rows => device[i].client = c
  BY DEF IdsOf, RowsOf, DevicesInv, OwnIdsOwnRows
<1> QED
  BY <1>1, <1>2 DEF RowsOf, DevicesInv, OneRowEach

LEMMA NothingOfRows ==
    ASSUME DevicesInv, device' = device
    PROVE  /\ Rows' = Rows /\ device' \in [DeviceIds -> DeviceRow]
           /\ \A i \in Rows : device'[i].client = device[i].client
BY DEF Rows, DevicesInv, DevicesTypeOK, DeviceRow

LEMMA RegisterLookupInv ==
    ASSUME DevicesInv, NEW q \in DeviceRequests, NEW c \in Clients, RegisterLookup(q, c)
    PROVE  DevicesInv'
<1> DEFINE begun == [NoRequest EXCEPT !.kind = "register", !.client = c, !.late = Revoked(c)]
           refused == [begun EXCEPT !.pc = "answered", !.answer = "revoked"]
           goes(i) == [begun EXCEPT !.pc = "upsert", !.id = i]
<1>1. Revoked(c) \in BOOLEAN
  BY DEF Revoked
<1>2. begun \in DeviceRequest
  BY <1>1 DEF NoRequest, DeviceRequest, DeviceSteps, RequestKinds
<1>3. device' = device /\ beat' \in [DeviceIds -> Ages]
  BY DEF RegisterLookup, DevicesInv, DevicesTypeOK
<1>4. CASE Moves(q, refused)
  <2>1. /\ refused \in DeviceRequest /\ refused.pc = "answered" /\ refused.answer = "revoked"
        /\ refused.id = "none"
    BY <1>2 DEF NoRequest, DeviceRequest, DeviceSteps
  <2> HIDE DEF refused
  <2>2. Fits(q, refused)
    BY <2>1, IdsAssumption DEF Fits
  <2> QED
    BY <1>3, <1>4, <2>1, <2>2, NothingOfRows, RowsStay
<1>5. ASSUME NEW i \in DeviceIds, ~Revoked(c), Moves(q, goes(i)),
             \/ i \in RowsOf(c)
             \/ i \in DrawnIds \ Rows /\ \A p \in DeviceRequests : request[p].id # i
      PROVE  DevicesInv'
  <2>1. /\ goes(i) \in DeviceRequest /\ goes(i).pc = "upsert" /\ goes(i).id = i
        /\ goes(i).client = c /\ ~goes(i).late /\ goes(i).kind = "register"
    BY <1>2, <1>5 DEF NoRequest, DeviceRequest, DeviceSteps
  <2> HIDE DEF goes
  <2>2. Fits(q, goes(i))
    BY <2>1, <1>5 DEF Fits, RowsOf
  <2> QED
    BY <1>3, <1>5, <2>1, <2>2, NothingOfRows, RowsStay
<1>6. ~ClientIsTaken(c) => ~Revoked(c)
  BY DEF ClientIsTaken, Revoked
<1> HIDE DEF refused, goes, begun
<1>7. \/ Moves(q, refused)
      \/ \E i \in RowsOf(c) : ~Revoked(c) /\ Moves(q, goes(i))
      \/ \E i \in Undrawn : ~ClientIsTaken(c) /\ Moves(q, goes(i))
  BY DEF RegisterLookup, refused, goes, begun
<1> QED
  BY <1>4, <1>5, <1>6, <1>7 DEF RowsOf, Rows, Undrawn, DeviceIds

LEMMA LookupDeviceInv ==
    ASSUME DevicesInv, NEW q \in DeviceRequests, NEW c \in Clients, NEW id \in DeviceIds,
           LookupDevice(q, c, id)
    PROVE  DevicesInv'
<1>1. PICK kind \in RequestKinds \ {"register"}, target \in Rows \cup {c} :
         LET begun == [NoRequest EXCEPT !.kind = kind, !.client = c, !.id = id,
                                        !.target = target, !.late = Revoked(c)]
         IN  Moves(q, IF device[id].revoked THEN [begun EXCEPT !.pc = "answered", !.answer = "revoked"]
                      ELSE IF id \in Rows /\ kind # "heartbeat" THEN [begun EXCEPT !.pc = "act"]
                      ELSE [begun EXCEPT !.pc = "insert"])
  BY DEF LookupDevice
<1> DEFINE begun == [NoRequest EXCEPT !.kind = kind, !.client = c, !.id = id,
                                      !.target = target, !.late = Revoked(c)]
           refused == [begun EXCEPT !.pc = "answered", !.answer = "revoked"]
           acts == [begun EXCEPT !.pc = "act"]
           inserts == [begun EXCEPT !.pc = "insert"]
<1>2. begun \in DeviceRequest
  <2>1. Revoked(c) \in BOOLEAN /\ target \in DeviceIds
    BY DEF Revoked, Rows, DeviceIds
  <2> QED
    BY <2>1 DEF NoRequest, DeviceRequest, DeviceSteps, RequestKinds
<1>3. /\ refused \in DeviceRequest /\ refused.pc = "answered" /\ refused.answer = "revoked"
      /\ refused.id = id
  BY <1>2 DEF NoRequest, DeviceRequest, DeviceSteps
<1>4. /\ acts \in DeviceRequest /\ acts.pc = "act" /\ acts.id = id /\ acts.kind = kind
      /\ acts.late = Revoked(c)
  BY <1>2 DEF NoRequest, DeviceRequest, DeviceSteps
<1>5. /\ inserts \in DeviceRequest /\ inserts.pc = "insert" /\ inserts.id = id
      /\ inserts.client = c /\ inserts.late = Revoked(c)
  BY <1>2 DEF NoRequest, DeviceRequest, DeviceSteps
<1>6. Moves(q, IF device[id].revoked THEN refused
               ELSE IF id \in Rows /\ kind # "heartbeat" THEN acts ELSE inserts)
  BY <1>1
<1>7. device' = device /\ beat' \in [DeviceIds -> Ages] /\ id \in IdsOf(c)
  BY DEF LookupDevice, DevicesInv, DevicesTypeOK
<1>8. id \notin DrawnIds \ Rows /\ (id \notin Rows => id = c)
  BY <1>7, IdsAssumption DEF IdsOf, RowsOf
<1>9. Revoked(c) /\ id \in Rows => device[id].revoked
  BY <1>7, IdsOfRevoked
<1>10. Revoked(c) => ClientIsTaken(c)
  BY DEF Revoked, ClientIsTaken
<1> HIDE DEF begun, refused, acts, inserts
<1>11. CASE device[id].revoked
  <2>1. Fits(q, refused)
    BY <1>3, <1>8 DEF Fits
  <2> QED
    BY <1>3, <1>6, <1>7, <1>11, <2>1, NothingOfRows, RowsStay
<1>12. CASE ~device[id].revoked /\ id \in Rows /\ kind # "heartbeat"
  <2>1. Fits(q, acts)
    BY <1>4, <1>8, <1>9, <1>12 DEF Fits
  <2> QED
    BY <1>4, <1>6, <1>7, <1>12, <2>1, NothingOfRows, RowsStay
<1>13. CASE ~device[id].revoked /\ ~(id \in Rows /\ kind # "heartbeat")
  <2>1. Fits(q, inserts)
    BY <1>5, <1>8, <1>9, <1>10, <1>13 DEF Fits
  <2> QED
    BY <1>5, <1>6, <1>7, <1>13, <2>1, NothingOfRows, RowsStay
<1> QED
  BY <1>11, <1>12, <1>13

LEMMA RegisterUpsertInv ==
    ASSUME DevicesInv, NEW q \in DeviceRequests, RegisterUpsert(q)
    PROVE  DevicesInv'
<1> DEFINE c == request[q].client
           x == [request[q] EXCEPT !.pc = "event"]
<1>1. /\ request[q].kind = "register" /\ request[q].pc = "upsert" /\ Moves(q, x)
      /\ request[q] \in DeviceRequest
  BY DEF RegisterUpsert, DevicesInv, DevicesTypeOK
<1>2. ~request[q].late
  BY <1>1 DEF DevicesInv, LateOnesFail
<1>3. /\ x \in DeviceRequest /\ x.pc = "event" /\ x.id = request[q].id
      /\ x.late = request[q].late
  BY <1>1 DEF DeviceRequest, DeviceSteps
<1>4. c \in Clients /\ (c \in Clients => request[q].id \in RowsOf(c) \/ request[q].id \in DrawnIds \ Rows)
  BY <1>1 DEF DevicesInv, UpsertsKnow
<1>5. PICK drawn \in DeviceIds :
        /\ device' = [device EXCEPT ![drawn] = [@ EXCEPT !.client = c, !.stored = "online"]]
        /\ beat' = [beat EXCEPT ![drawn] = "90 seconds"]
        /\ IF ClientIsTaken(c) THEN drawn \in RowsOf(c) ELSE drawn = request[q].id
  <2>1. ClientIsTaken(c) => (CHOOSE i \in RowsOf(c) : TRUE) \in RowsOf(c)
    BY DEF ClientIsTaken
  <2>2. RowsOf(c) \subseteq DeviceIds /\ (~ClientIsTaken(c) => request[q].id \in DeviceIds)
    BY <1>4 DEF RowsOf, Rows, ClientIsTaken, DeviceIds
  <2> DEFINE there == IF ClientIsTaken(c) THEN CHOOSE i \in RowsOf(c) : TRUE ELSE request[q].id
  <2>3. there \in DeviceIds
    BY <2>1, <2>2
  <2>4. /\ device' = [device EXCEPT ![there] = [@ EXCEPT !.client = c, !.stored = "online"]]
        /\ beat' = [beat EXCEPT ![there] = "90 seconds"]
    BY DEF RegisterUpsert
  <2>5. IF ClientIsTaken(c) THEN there \in RowsOf(c) ELSE there = request[q].id
    BY <2>1
  <2> HIDE DEF there
  <2> QED
    BY <2>3, <2>4, <2>5
<1> HIDE DEF x, c
<1>6. beat' \in [DeviceIds -> Ages]
  BY <1>5 DEF DevicesInv, DevicesTypeOK, Ages
<1>7. device[drawn] \in DeviceRow
  BY DEF DevicesInv, DevicesTypeOK, DeviceRow
<1> DEFINE new == [device[drawn] EXCEPT !.client = c, !.stored = "online"]
<1>8. new \in DeviceRow /\ new.client = c /\ device' = [device EXCEPT ![drawn] = new]
  BY <1>4, <1>5, <1>7 DEF DeviceRow, DevicesInv, DevicesTypeOK
<1> HIDE DEF new
<1>9. CASE ClientIsTaken(c) /\ drawn \in RowsOf(c)
  <2>1. /\ device' \in [DeviceIds -> DeviceRow] /\ device'[drawn] = new
        /\ \A j \in DeviceIds \ {drawn} : device'[j] = device[j]
    BY <1>8 DEF DevicesInv, DevicesTypeOK, DeviceRow
  <2>2. Rows' = Rows
    BY <1>4, <1>8, <1>9, <2>1, IdsAssumption DEF Rows, RowsOf, NoDevice
  <2>3. \A i \in Rows : device'[i].client = device[i].client
    BY <1>8, <1>9, <2>1 DEF RowsOf, Rows
  <2>4. Fits(q, x)
    BY <1>2, <1>3 DEF Fits
  <2> QED
    BY <1>1, <1>3, <1>6, <2>1, <2>2, <2>3, <2>4, RowsStay
<1>10. CASE ~ClientIsTaken(c) /\ drawn = request[q].id
  <2>1. drawn \in DrawnIds \ Rows
    BY <1>4, <1>10 DEF ClientIsTaken
  <2> QED
    BY <1>1, <1>2, <1>3, <1>4, <1>6, <1>8, <1>10, <2>1, RowIsAdded
<1> QED
  BY <1>5, <1>9, <1>10

LEMMA InsertDeviceInv ==
    ASSUME DevicesInv, NEW q \in DeviceRequests, InsertDevice(q)
    PROVE  DevicesInv'
<1> DEFINE id == request[q].id
           x == [request[q] EXCEPT !.pc = "act"]
           drawn == [NoDevice EXCEPT !.client = id]
<1>1. /\ request[q].pc = "insert" /\ request[q] \in DeviceRequest
      /\ id \in Rows \/ (id \in Clients /\ id = request[q].client)
  BY DEF InsertDevice, DevicesInv, DevicesTypeOK, InsertsKnow
<1>2. request[q].late => id \notin Rows /\ ClientIsTaken(id)
  BY <1>1 DEF DevicesInv, LateOnesFail
<1>3. x \in DeviceRequest /\ x.pc = "act" /\ x.id = id /\ x.late = request[q].late
  BY <1>1 DEF DeviceRequest, DeviceSteps
<1>4. beat' \in [DeviceIds -> Ages]
  BY DEF InsertDevice, DevicesInv, DevicesTypeOK
<1>5. CASE id \in Rows /\ Moves(q, x) /\ device' = device
  <2>1. Fits(q, x)
    BY <1>2, <1>3, <1>5 DEF Fits
  <2> QED
    BY <1>3, <1>4, <1>5, <2>1, NothingOfRows, RowsStay
<1>6. CASE id \notin Rows /\ ~ClientIsTaken(id) /\ device' = [device EXCEPT ![id] = drawn] /\ Moves(q, x)
  <2>1. id \in Clients /\ id \in DeviceIds
    BY <1>1, <1>6 DEF DeviceIds
  <2>2. drawn \in DeviceRow /\ drawn.client = id
    BY <2>1 DEF DeviceRow, NoDevice
  <2> HIDE DEF x, drawn
  <2> QED
    BY <1>2, <1>3, <1>4, <1>6, <2>1, <2>2, RowIsAdded
<1>7. CASE Answers(q, "error") /\ device' = device
  BY <1>4, <1>7, NothingOfRows, AnswersInv
<1> QED
  BY <1>5, <1>6, <1>7 DEF InsertDevice

LEMMA HeartbeatUpdateInv ==
    ASSUME DevicesInv, NEW q \in DeviceRequests, HeartbeatUpdate(q)
    PROVE  DevicesInv'
<1> DEFINE id == request[q].id
<1>1. request[q].kind = "heartbeat" /\ request[q].pc = "act" /\ Answers(q, "online")
  BY DEF HeartbeatUpdate
<1>2. id \in Rows /\ ~request[q].late
  BY <1>1 DEF DevicesInv, InsertsKnow, LateOnesFail
<1>3. PICK status \in {"online", "degraded"} : device' = [device EXCEPT ![id].stored = status]
  BY DEF HeartbeatUpdate
<1>4. /\ beat' \in [DeviceIds -> Ages] /\ id \in DeviceIds /\ device[id] \in DeviceRow
  BY <1>2 DEF HeartbeatUpdate, DevicesInv, DevicesTypeOK, Ages, Rows, DeviceRow
<1>5. /\ device' \in [DeviceIds -> DeviceRow]
      /\ \A i \in DeviceIds : device'[i].client = device[i].client
      /\ \A i \in DeviceIds \ {id} : device'[i] = device[i]
  BY <1>3, <1>4 DEF DevicesInv, DevicesTypeOK, DeviceRow
<1>6. Rows' = Rows
  BY <1>2, <1>4, <1>5, RowsHaveClients DEF DevicesInv, Rows, NoDevice
<1> QED
  BY <1>1, <1>2, <1>4, <1>5, <1>6, AnswersInv DEF Rows

LEMMA RevokeInv ==
    ASSUME DevicesInv, NEW q \in DeviceRequests, Revoke(q)
    PROVE  DevicesInv'
<1> DEFINE id == request[q].target
<1>1. /\ request[q].pc = "act" /\ Answers(q, IF id \in Rows THEN "online" ELSE "error")
      /\ beat' \in [DeviceIds -> Ages]
  BY DEF Revoke, DevicesInv, DevicesTypeOK
<1>2. ~request[q].late
  BY <1>1 DEF DevicesInv, LateOnesFail
<1>3. CASE id \notin Rows
  <2>1. device' = device
    BY <1>3 DEF Revoke
  <2> QED
    BY <1>1, <1>2, <2>1, NothingOfRows, AnswersInv
<1>4. CASE id \in Rows
  <2>1. /\ device' = [device EXCEPT ![id].stored = "revoked", ![id].revoked = TRUE]
        /\ id \in DeviceIds /\ device[id] \in DeviceRow
    BY <1>4 DEF Revoke, Rows, DevicesInv, DevicesTypeOK, DeviceRow
  <2>2. /\ device' \in [DeviceIds -> DeviceRow]
        /\ \A i \in DeviceIds : device'[i].client = device[i].client
        /\ \A i \in DeviceIds \ {id} : device'[i] = device[i]
    BY <2>1 DEF DevicesInv, DevicesTypeOK, DeviceRow
  <2>3. Rows' = Rows
    BY <1>4, <2>1, <2>2, RowsHaveClients DEF DevicesInv, Rows, NoDevice
  <2> QED
    BY <1>1, <1>2, <2>2, <2>3, AnswersInv DEF Rows
<1> QED
  BY <1>3, <1>4

(* The requests that end without a write, and time. *)
LEMMA EndsInv ==
    ASSUME DevicesInv, NEW q \in DeviceRequests,
           RegisterEvent(q) \/ EnsureDevice(q) \/ FailDeviceRequest(q)
    PROVE  DevicesInv'
<1>1. device' = device /\ beat' \in [DeviceIds -> Ages]
  BY DEF RegisterEvent, EnsureDevice, FailDeviceRequest, DevicesInv, DevicesTypeOK
<1>2. CASE RegisterEvent(q) \/ EnsureDevice(q)
  <2>1. ~request[q].late
    BY <1>2 DEF RegisterEvent, EnsureDevice, DevicesInv, LateOnesFail
  <2>2. PICK a \in {"online", "error"} : Answers(q, a)
    BY <1>2 DEF RegisterEvent, EnsureDevice
  <2> QED
    BY <1>1, <2>1, <2>2, NothingOfRows, AnswersInv
<1>3. CASE FailDeviceRequest(q)
  BY <1>1, <1>3, NothingOfRows, AnswersInv DEF FailDeviceRequest
<1> QED
  BY <1>2, <1>3

LEMMA NothingOfDevices ==
    ASSUME DevicesInv, device' = device, request' = request, beat' \in [DeviceIds -> Ages]
    PROVE  DevicesInv'
BY DEF DevicesInv, DevicesTypeOK, OneRowEach, OwnIdsOwnRows, UpsertsKnow, InsertsKnow,
       LateOnesFail, LateAnswers, Rows, RowsOf, ClientIsTaken

LEMMA DevicesNextInv == DevicesInv /\ [DevicesNext]_deviceVars => DevicesInv'
<1> SUFFICES ASSUME DevicesInv, [DevicesNext]_deviceVars PROVE DevicesInv'
  OBVIOUS
<1>1. CASE \E q \in DeviceRequests, c \in Clients :
             RegisterLookup(q, c) \/ \E id \in DeviceIds : LookupDevice(q, c, id)
  BY <1>1, RegisterLookupInv, LookupDeviceInv
<1>2. CASE \E q \in DeviceRequests :
             \/ RegisterUpsert(q) \/ RegisterEvent(q) \/ InsertDevice(q) \/ HeartbeatUpdate(q)
             \/ EnsureDevice(q) \/ Revoke(q) \/ FailDeviceRequest(q)
  BY <1>2, RegisterUpsertInv, InsertDeviceInv, HeartbeatUpdateInv, RevokeInv, EndsInv
<1>3. CASE \E i \in DeviceIds : TimePasses(i)
  <2>1. device' = device /\ request' = request /\ beat' \in [DeviceIds -> Ages]
    BY <1>3 DEF TimePasses, DevicesInv, DevicesTypeOK, Ages
  <2> QED
    BY <2>1, NothingOfDevices
<1>4. CASE UNCHANGED deviceVars
  <2>1. device' = device /\ request' = request /\ beat' \in [DeviceIds -> Ages]
    BY <1>4 DEF deviceVars, DevicesInv, DevicesTypeOK
  <2> QED
    BY <2>1, NothingOfDevices
<1> QED
  BY <1>1, <1>2, <1>3, <1>4 DEF DevicesNext

LEMMA DevicesInitInv == DevicesInit => DevicesInv
<1> SUFFICES ASSUME DevicesInit PROVE DevicesInv
  OBVIOUS
<1> USE DEF DevicesInit
<1>1. Rows = {}
  BY DEF Rows
<1>2. NoRequest \in DeviceRequest /\ NoRequest.pc = "idle" /\ ~NoRequest.late
  BY DEF NoRequest, DeviceRequest, DeviceSteps
<1>3. DevicesTypeOK
  BY <1>1, <1>2 DEF DevicesTypeOK, NoDevice, Ages
<1>4. OneRowEach /\ OwnIdsOwnRows
  BY <1>1 DEF OneRowEach, OwnIdsOwnRows
<1>5. UpsertsKnow /\ InsertsKnow /\ LateOnesFail /\ LateAnswers
  BY <1>2 DEF UpsertsKnow, InsertsKnow, LateOnesFail, LateAnswers
<1> QED
  BY <1>3, <1>4, <1>5 DEF DevicesInv

(* Whatever requests of a device were under way when it was revoked, those
   that begin afterwards are refused or fail, and the list says revoked. *)
THEOREM RevokedDevicesStayOut == DevicesSpec => []RevokedStaysOut
<1>1. DevicesInv => RevokedStaysOut
  BY DEF DevicesInv, LateAnswers, RevokedStaysOut, Revoked, RowsOf, OneRowEach, ConnectionStatus
<1> QED
  BY DevicesInitInv, DevicesNextInv, <1>1, PTL DEF DevicesSpec
=============================================================================
