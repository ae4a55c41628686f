------------------------- MODULE MCSnapshotIngestion -------------------------
(***************************************************************************)
(* A free binding, a process with a published container, and two bindings  *)
(* shared by processes: one within the batch limit, one over it.           *)
(***************************************************************************)
EXTENDS SnapshotIngestion

CONSTANTS daemon, sync

MCProcess(n, p) == [process |-> n, pid |-> p]
MCHeld(owners, container) == [owners |-> owners, container |-> container]

MCUsage == {MCHeld({}, 0), MCHeld({MCProcess(1, 1)}, 1),
            MCHeld({MCProcess(1, 2), MCProcess(2, 3)}, 0),
            MCHeld({MCProcess(1, 1), MCProcess(2, 2), MCProcess(2, 3)}, 0)}

=============================================================================
