----------------------------- MODULE MCSnapshot -----------------------------
(* Instances of SnapshotController for TLC. *)
EXTENDS SnapshotController

\* Reconcile reads snapshots and Jobs; an event of a Secret only wakes it.
ReadLag1 == [k \in Kinds |-> IF k = "sec" THEN 0 ELSE 1]
=============================================================================
