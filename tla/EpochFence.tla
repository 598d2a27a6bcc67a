----------------------------- MODULE EpochFence -----------------------------
(***************************************************************************)
(* What the lease of one task promises to everything that writes for it:   *)
(* the epoch is a fencing token.  A new holder always comes with a new     *)
(* epoch, and a metadata write (checkpoint, catalog row) lands only for    *)
(* the holder of the current epoch.  Time, calls and workers' views are    *)
(* absent: TaskLease is shown to implement this module.                    *)
(***************************************************************************)
EXTENDS Naturals

CONSTANTS Worker, None

VARIABLES holder,  \* the worker task_leases names, or None
          epoch,   \* the fencing token, 0 before the first grant
          ckpt     \* the epoch under which backup_checkpoints was last written

vars == <<holder, epoch, ckpt>>

Init == holder = None /\ epoch = 0 /\ ckpt = 0

\* Ownership moves to w: the token grows by exactly one.
Grant(w) == holder' = w /\ epoch' = epoch + 1 /\ UNCHANGED ckpt

\* The holder gives the lease back; the token stays on the row.
Drop == holder # None /\ holder' = None /\ UNCHANGED <<epoch, ckpt>>

\* The holder writes progress under its token.
Commit == holder # None /\ ckpt' = epoch /\ UNCHANGED <<holder, epoch>>

Next == Drop \/ Commit \/ \E w \in Worker : Grant(w)

Spec == Init /\ [][Next]_vars
=============================================================================
