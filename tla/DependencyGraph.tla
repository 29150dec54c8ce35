--------------------------- MODULE DependencyGraph ---------------------------
(***************************************************************************)
(* DependencyGraphService.topoSort: Kahn's algorithm over the tasks of a   *)
(* request, layer by layer.  The in-degrees count every entry of dependsOn *)
(* while the edges are sets, so an entry written twice counts twice and is *)
(* taken off once.                                                         *)
(***************************************************************************)
EXTENDS Integers, FiniteSets

CONSTANTS
    Nodes,    \* ids: the tasks, and what they name in dependsOn
    Graphs    \* requests: [deps: [Nodes -> SUBSET Nodes], repeats: [Nodes -> Nat]]

ASSUME GraphAssumption ==
    /\ IsFiniteSet(Nodes)
    /\ \A g \in Graphs : g.deps \in [Nodes -> SUBSET Nodes] /\ g.repeats \in [Nodes -> Nat]

VARIABLES
    graph,      \* the request
    indeg,      \* what is left of each in-degree
    queue,      \* the layer that is being sorted
    nextQueue,  \* the layer after it
    place,      \* the number of the layer a node was put in, 0 before
    depth       \* the number of the layer that is being sorted

graphVars == <<graph, indeg, queue, nextQueue, place, depth>>

(* buildGraph *)
InDegree(g, n) == Cardinality(g.deps[n]) + g.repeats[n]
Dependents(n)  == {t \in Nodes : n \in graph.deps[t]}

GraphInit ==
    /\ graph \in Graphs
    /\ indeg = [n \in Nodes |-> InDegree(graph, n)]
    /\ queue = {n \in Nodes : indeg[n] = 0}
    /\ nextQueue = {} /\ depth = 1
    /\ place = [n \in Nodes |-> 0]

DueMutant(t, degree) == degree[t] <= 1

(* A dependent is due when the last of its prerequisites is sorted. *)
Due(t, degree) == degree[t] = 0

SortNode(n) ==
    /\ n \in queue
    /\ queue' = queue \ {n}
    /\ place' = [place EXCEPT ![n] = depth]
    /\ indeg' = [t \in Nodes |-> IF t \in Dependents(n) THEN indeg[t] - 1 ELSE indeg[t]]
    /\ nextQueue' = nextQueue \cup {t \in Dependents(n) : Due(t, indeg')}
    /\ UNCHANGED <<graph, depth>>

CloseLayer ==
    /\ queue = {} /\ nextQueue # {}
    /\ queue' = nextQueue /\ nextQueue' = {} /\ depth' = depth + 1
    /\ UNCHANGED <<graph, indeg, place>>

GraphNext == CloseLayer \/ \E n \in Nodes : SortNode(n)

GraphSpec == GraphInit /\ [][GraphNext]_graphVars

Sorted == {n \in Nodes : place[n] > 0}

-----------------------------------------------------------------------------
(* Properties *)

GraphTypeOK ==
    /\ graph \in Graphs
    /\ indeg \in [Nodes -> Int] /\ place \in [Nodes -> Nat] /\ depth \in Nat \ {0}
    /\ queue \subseteq Nodes /\ nextQueue \subseteq Nodes

(* A node stands in a layer after those of all its prerequisites, at every
   point of the loop: the tasks of a layer may run side by side. *)
PrerequisitesFirst ==
    \A n \in Sorted : \A d \in graph.deps[n] : place[d] \in 1..(place[n] - 1)

(* What the theorem strengthens PrerequisitesFirst by: an in-degree has lost
   one for each prerequisite that is sorted, and the two queues hold nodes
   that are not sorted yet, whose prerequisites are. *)
DegreesCount ==
    \A n \in Nodes : indeg[n] = InDegree(graph, n) - Cardinality(graph.deps[n] \cap Sorted)

QueuesAreDue ==
    /\ queue \cap nextQueue = {}
    /\ \A n \in Nodes : place[n] <= depth
    /\ \A n \in queue : place[n] = 0 /\ \A d \in graph.deps[n] : place[d] \in 1..(depth - 1)
    /\ \A n \in nextQueue : place[n] = 0 /\ \A d \in graph.deps[n] : place[d] \in 1..depth

GraphInv == GraphTypeOK /\ PrerequisitesFirst /\ DegreesCount /\ QueuesAreDue
=============================================================================
