---------------------------- MODULE MCSyncServer ----------------------------
(* Small instances of SyncServer: who makes each write, through which endpoint *)
(* and with which fields.                                                      *)
EXTENDS SyncServer, TLC
CONSTANTS w1, w2, w3, d1, d2, title, notes

MCWrites3 == {w1, w2, w3}
\* w2 is made on device d2, the others on d1.
MCAuthor == [w \in Writes |-> IF w = w2 THEN d2 ELSE d1]
AllPush == [w \in Writes |-> "push"]
WebSecond == [w \in Writes |-> IF w = w2 THEN "web" ELSE "push"]
AllTitle == [w \in Writes |-> {title}]
TwoFields == [w \in Writes |-> IF w = w1 THEN {title, notes} ELSE {title}]
\* Objects of one type; and objects whose types alternate in pull priority.
SamePriority == [o \in Objects |-> 1]
Alternating == [o \in Objects |-> o % 2]
\* Sessions are interchangeable: nothing names one.
SessionSymmetry == Permutations(Sessions)
=============================================================================
