----------------------------- MODULE MCSnapshots -----------------------------
(* The shutdown snapshot and one other trigger: enough for two saves to
   overlap, and for one to follow another that failed.                     *)
EXTENDS Snapshots

MCSavers == {"timer", "shutdown"}
=============================================================================
