---------------------------- MODULE MCSyncDevice ----------------------------
(* Small instances of SyncDevice.                                           *)
EXTENDS SyncDevice
CONSTANTS event, list, p1, p2, e1, e2

\* calendar_event and task_list: the server sorts lists first, the applier events.
MCServerPriority == [o \in Objects |-> IF o = event THEN 1 ELSE 0]
MCClientPriority == [o \in Objects |-> IF o = event THEN 1 ELSE 2]
=============================================================================
