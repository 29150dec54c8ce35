----------------------------- MODULE VersionLog -----------------------------
(***************************************************************************)
(* What sync_objects and sync_changes promise together: every object has a *)
(* history of versions that only grows at its end, several objects at a    *)
(* time, and is erased as a whole or not at all.  Version n of an object   *)
(* is history[n]; nobody ever rewrites it, renumbers it or leaves a hole.  *)
(***************************************************************************)
EXTENDS Naturals, Sequences

CONSTANT Objects
VARIABLES
    history,   \* [Objects -> sequence of entries]
    erased     \* objects whose history was physically deleted

Extends(new, old) == Len(old) <= Len(new) /\ \A v \in 1..Len(old) : new[v] = old[v]

Init == history = [o \in Objects |-> <<>>] /\ erased = {}

Grow ==
    /\ erased \subseteq erased'
    /\ \A o \in Objects \ erased' : Extends(history'[o], history[o])
    /\ \A o \in erased' : history'[o] = <<>>

vars == <<history, erased>>
Spec == Init /\ [][Grow]_vars
=============================================================================
